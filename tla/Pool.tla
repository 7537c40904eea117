-------------------------------- MODULE Pool --------------------------------
(***************************************************************************)
(* The bounded pool of NNTP connections (internal/nntp/pool.go) that the   *)
(* background workers and the HTTP handlers share: Get, Release,           *)
(* MarkBroken, Reap, Close.                                                *)
(*                                                                         *)
(* A step is one operation on the semaphore, one critical section of p.mu, *)
(* or one blocking call on a connection (Dial, Close).  The idle list is a *)
(* set: putAt is taken under p.mu, so the list is in order of age and the  *)
(* last entry, which Get pops, is stale only if every entry is.            *)
(***************************************************************************)
EXTENDS Naturals, FiniteSets

CONSTANTS
  Caller,    \* goroutines that lease connections
  Client,    \* connection identities
  NoClient,  \* no connection
  MaxConns   \* NNTP_MAX_CONNS, at least 1 (NewPool)

ASSUME PoolAssumption ==
  /\ IsFiniteSet(Caller)
  /\ NoClient \notin Client
  /\ MaxConns \in Nat \ {0}

VARIABLES
  pc,         \* where each caller is
  held,       \* the connection each caller has its hands on
  broken,     \* callers whose lease is marked broken
  cancelled,  \* callers whose context is done
  sem,        \* tokens in the semaphore channel
  idle,       \* connections in p.idle
  stale,      \* those of them idle for longer than idleTimeout
  closing,    \* connections taken out of p.idle by Reap or Close, not closed yet
  dirty,      \* connections on which a command failed: protocol state unknown
  down        \* the process context is done

vars == <<pc, held, broken, cancelled, sem, idle, stale, closing, dirty, down>>

Labels == {"out", "waiting", "checking", "discarding", "dialing", "leased",
           "dropping", "returning"}

\* Callers between the acquisition and the release of the semaphore.
Holding == {c \in Caller : pc[c] \notin {"out", "waiting"}}

\* Callers that have a connection in hand or are making one.
Connected == {c \in Caller : pc[c] \in {"discarding", "dialing", "leased", "dropping"}}

\* Connections that exist on the client side.
InUse == idle \cup closing \cup {held[c] : c \in Caller}

Goto(c, label) == pc' = [pc EXCEPT ![c] = label]
Hold(c, k) == held' = [held EXCEPT ![c] = k]

Init ==
  /\ pc = [c \in Caller |-> "out"]
  /\ held = [c \in Caller |-> NoClient]
  /\ broken = {} /\ cancelled = {}
  /\ sem = 0
  /\ idle = {} /\ stale = {} /\ closing = {} /\ dirty = {}
  /\ down = FALSE

-----------------------------------------------------------------------------
(* Get.                                                                    *)

Call(c) ==
  /\ pc[c] = "out"
  /\ Goto(c, "waiting")
  /\ UNCHANGED <<held, broken, cancelled, sem, idle, stale, closing, dirty, down>>

\* Fault: a semaphore of MaxConns + 1.
AcquireOneMore(c) ==
  /\ pc[c] = "waiting"
  /\ sem <= MaxConns
  /\ sem' = sem + 1
  /\ Goto(c, "checking")
  /\ UNCHANGED <<held, broken, cancelled, idle, stale, closing, dirty, down>>

\* case p.sem <- struct{}{}
Acquire(c) ==
  /\ pc[c] = "waiting"
  /\ sem < MaxConns
  /\ sem' = sem + 1
  /\ Goto(c, "checking")
  /\ UNCHANGED <<held, broken, cancelled, idle, stale, closing, dirty, down>>

\* case <-ctx.Done()
GiveUp(c) ==
  /\ pc[c] = "waiting"
  /\ c \in cancelled
  /\ Goto(c, "out")
  /\ cancelled' = cancelled \ {c}
  /\ UNCHANGED <<held, broken, sem, idle, stale, closing, dirty, down>>

\* Fault: the connection handed out stays in the list.
ReusePeek(c) ==
  /\ pc[c] = "checking"
  /\ \E k \in idle \ stale : Hold(c, k)
  /\ Goto(c, "leased")
  /\ UNCHANGED <<broken, cancelled, sem, idle, stale, closing, dirty, down>>

\* Pop the newest idle connection; one idle for too long is closed by the caller.
Reuse(c) ==
  /\ pc[c] = "checking"
  /\ \E k \in idle :
       /\ k \in stale => idle \subseteq stale
       /\ idle' = idle \ {k}
       /\ stale' = stale \ {k}
       /\ Hold(c, k)
       /\ Goto(c, IF k \in stale THEN "discarding" ELSE "leased")
  /\ UNCHANGED <<broken, cancelled, sem, closing, dirty, down>>

\* The popped stale connection is closed; the loop looks again.
Discard(c) ==
  /\ pc[c] = "discarding"
  /\ Hold(c, NoClient)
  /\ Goto(c, "checking")
  /\ UNCHANGED <<broken, cancelled, sem, idle, stale, closing, dirty, down>>

\* Fault: dial without looking for an idle connection.
FindNoneBlind(c) ==
  /\ pc[c] = "checking"
  /\ Goto(c, "dialing")
  /\ UNCHANGED <<held, broken, cancelled, sem, idle, stale, closing, dirty, down>>

FindNone(c) ==
  /\ pc[c] = "checking"
  /\ idle = {}
  /\ Goto(c, "dialing")
  /\ UNCHANGED <<held, broken, cancelled, sem, idle, stale, closing, dirty, down>>

Dial(c) ==
  /\ pc[c] = "dialing"
  /\ \E k \in Client \ InUse :
       /\ Hold(c, k)
       /\ dirty' = dirty \ {k}
  /\ Goto(c, "leased")
  /\ UNCHANGED <<broken, cancelled, sem, idle, stale, closing, down>>

\* Dial fails: the token is given back and Get returns the error.
DialFails(c) ==
  /\ pc[c] = "dialing"
  /\ sem' = sem - 1
  /\ Goto(c, "out")
  /\ cancelled' = cancelled \ {c}
  /\ UNCHANGED <<held, broken, idle, stale, closing, dirty, down>>

-----------------------------------------------------------------------------
(* The lease and its end: Release.                                         *)

\* A command on the leased connection fails; every caller then calls MarkBroken.
CommandFails(c) ==
  /\ pc[c] = "leased"
  /\ c \notin broken
  /\ dirty' = dirty \cup {held[c]}
  /\ broken' = broken \cup {c}
  /\ UNCHANGED <<pc, held, cancelled, sem, idle, stale, closing, down>>

\* Fault: Release does not look at the broken mark.
ReleaseAnyway(c) ==
  /\ pc[c] = "leased"
  /\ idle' = idle \cup {held[c]}
  /\ Hold(c, NoClient)
  /\ broken' = broken \ {c}
  /\ Goto(c, "returning")
  /\ UNCHANGED <<cancelled, sem, stale, closing, dirty, down>>

\* Release of a sound connection: append to p.idle under p.mu ...
ReleaseIdle(c) ==
  /\ pc[c] = "leased"
  /\ c \notin broken
  /\ idle' = idle \cup {held[c]}
  /\ Hold(c, NoClient)
  /\ Goto(c, "returning")
  /\ UNCHANGED <<broken, cancelled, sem, stale, closing, dirty, down>>

\* Release of a broken one: Client.Close, which sends QUIT and waits ...
ReleaseBroken(c) ==
  /\ pc[c] = "leased"
  /\ c \in broken
  /\ Goto(c, "dropping")
  /\ UNCHANGED <<held, broken, cancelled, sem, idle, stale, closing, dirty, down>>

\* Fault: the token of a broken lease is not given back.
CloseBrokenLeaking(c) ==
  /\ pc[c] = "dropping"
  /\ Hold(c, NoClient)
  /\ broken' = broken \ {c}
  /\ Goto(c, "out")
  /\ UNCHANGED <<cancelled, sem, idle, stale, closing, dirty, down>>

CloseBroken(c) ==
  /\ pc[c] = "dropping"
  /\ Hold(c, NoClient)
  /\ broken' = broken \ {c}
  /\ Goto(c, "returning")
  /\ UNCHANGED <<cancelled, sem, idle, stale, closing, dirty, down>>

\* ... and only then <-p.sem.
GiveBack(c) ==
  /\ pc[c] = "returning"
  /\ sem' = sem - 1
  /\ Goto(c, "out")
  /\ cancelled' = cancelled \ {c}
  /\ UNCHANGED <<held, broken, idle, stale, closing, dirty, down>>

\* The caller's context ends: the client went away, or the process is stopping.
CancelContext(c) ==
  /\ pc[c] # "out"
  /\ c \notin cancelled
  /\ cancelled' = cancelled \cup {c}
  /\ UNCHANGED <<pc, held, broken, sem, idle, stale, closing, dirty, down>>

-----------------------------------------------------------------------------
(* The reaper and the end of the process.                                  *)

\* Two minutes pass for the oldest idle connections.
Age ==
  /\ \E k \in idle \ stale : stale' = stale \cup {k}
  /\ UNCHANGED <<pc, held, broken, cancelled, sem, idle, closing, dirty, down>>

\* Fault: the connections are closed in the background, so that the next tick may reap
\* before they are.
ReapOverlapping ==
  /\ ~down
  /\ stale # {}
  /\ idle' = idle \ stale
  /\ closing' = closing \cup stale
  /\ stale' = {}
  /\ UNCHANGED <<pc, held, broken, cancelled, sem, dirty, down>>

\* Reap's critical section: the stale ones leave the list; they are closed after it.
Reap ==
  /\ ~down
  /\ closing = {}
  /\ stale # {}
  /\ idle' = idle \ stale
  /\ closing' = stale
  /\ stale' = {}
  /\ UNCHANGED <<pc, held, broken, cancelled, sem, dirty, down>>

\* Close's critical section: by the reaper when the context ends, by main at exit.
CloseAll ==
  /\ ~down \/ idle # {}
  /\ down' = TRUE
  /\ closing' = closing \cup idle
  /\ idle' = {} /\ stale' = {}
  /\ UNCHANGED <<pc, held, broken, cancelled, sem, dirty>>

CloseOne ==
  /\ \E k \in closing : closing' = closing \ {k}
  /\ UNCHANGED <<pc, held, broken, cancelled, sem, idle, stale, dirty, down>>

-----------------------------------------------------------------------------
GetStep(c) == Acquire(c) \/ GiveUp(c) \/ Reuse(c) \/ Discard(c) \/ FindNone(c)

DialStep(c) == Dial(c) \/ DialFails(c)

LeaseStep(c) == ReleaseIdle(c) \/ ReleaseBroken(c) \/ CloseBroken(c) \/ GiveBack(c)

Next ==
  \/ \E c \in Caller :
       \/ Call(c) \/ GetStep(c) \/ DialStep(c)
       \/ LeaseStep(c) \/ CommandFails(c) \/ CancelContext(c)
  \/ Age \/ Reap \/ CloseAll \/ CloseOne

Spec == Init /\ [][Next]_vars

\* Callers finish what they do with a lease, and every dial comes to an end (which is
\* up to the network: neither tls.Dial nor the read of the greeting has a deadline).
\* Blocked senders of a Go channel are served in order, hence the strong fairness of
\* Acquire.
FairSpec ==
  /\ Spec
  /\ \A c \in Caller : /\ WF_vars(GetStep(c)) /\ WF_vars(LeaseStep(c))
                       /\ WF_vars(DialStep(c)) /\ SF_vars(Acquire(c))
  /\ WF_vars(CloseOne)

-----------------------------------------------------------------------------
(* Properties.                                                             *)

\* Every variable has its type; sem never leaves the capacity of the channel.
TypeOK ==
  /\ pc \in [Caller -> Labels]
  /\ held \in [Caller -> Client \cup {NoClient}]
  /\ broken \subseteq Caller
  /\ cancelled \subseteq Caller
  /\ sem \in 0 .. MaxConns
  /\ idle \subseteq Client
  /\ stale \subseteq idle
  /\ closing \subseteq Client
  /\ dirty \subseteq Client
  /\ down \in BOOLEAN

\* Leases, dials and idle connections together never exceed NNTP_MAX_CONNS, although
\* the semaphore does not count idle ones and Release fills p.idle before <-p.sem.
Ceiling == Cardinality(idle) + Cardinality(Connected) <= MaxConns

\* What the provider sees before shutdown: connections that Reap has taken off the list
\* but not closed yet come on top of the ceiling, so that the number README.md calls hard
\* may be exceeded, up to twice and no further: RunReaper closes one batch before the next.
UpstreamBound ==
  ~down => Cardinality(idle) + Cardinality(Connected) + Cardinality(closing) <= 2 * MaxConns

\* No connection is in two hands: two leases, a lease and the idle list, or either
\* and the reaper (a command on a shared connection would read another's answer).
Exclusive ==
  /\ \A c, d \in Caller : c # d /\ held[c] = held[d] => held[c] = NoClient
  /\ \A c \in Caller : held[c] \notin idle \cup closing
  /\ idle \cap closing = {}

\* A connection whose protocol state is unknown is never handed out again.
NoDirtyReuse ==
  /\ idle \cap dirty = {}
  /\ \A c \in Caller : held[c] \in dirty => c \in broken

\* Get does not starve: every way out of a lease gives its token back, so a caller that
\* waits gets one, or gives up.  (What follows may still be long: it discards as many
\* stale connections as others keep leaving behind.)
Served == \A c \in Caller : pc[c] = "waiting" ~> pc[c] # "waiting"
=============================================================================
