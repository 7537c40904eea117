------------------------------- MODULE Access -------------------------------
(***************************************************************************)
(* The way of a request through the limiter and the login handler of       *)
(* internal/api (AUTH_MODE=password).  Requests run concurrently: the      *)
(* limiter, the lockout check, the comparison of the password and the      *)
(* recording of its outcome are separate critical sections.                *)
(***************************************************************************)
EXTENDS RateLimiter, Sessions

CONSTANTS
  Request,     \* the requests that run at once
  ForwardedFor \* the X-Forwarded-For values to consider

ASSUME AccessAssumption ==
  /\ IsFiniteSet(Request)
  /\ ForwardedFor \subseteq Seq(Client \cup {NoClient})

VARIABLES
  pc,       \* where each request is
  client,   \* the address it is accounted to
  credit,   \* history: a bucket that is filled by every tick and never dropped
  streak,   \* history: failures recorded since the last success or lockout
  late      \* history: passwords compared while locked out, since the lockout began

history == <<credit, streak, late>>
vars == <<limiter, store, pc, client, history>>

TypeOK ==
  /\ LimiterTypeOK /\ SessionsTypeOK
  /\ pc \in [Request -> {"idle", "routed", "compare", "wrong", "right", "create"}]
  /\ client \in [Request -> Client]

Init ==
  /\ LimiterInit /\ SessionsInit
  /\ pc = [r \in Request |-> "idle"]
  /\ client \in [Request -> Client]
  /\ credit = [k \in Client |-> Burst]
  /\ streak = [k \in Client |-> 0]
  /\ late = [k \in Client |-> 0]

Goto(r, label) == pc' = [pc EXCEPT ![r] = label]

-----------------------------------------------------------------------------
\* realIP and the limiter's middleware: the handler runs, or the answer is 429.
Arrive(r) ==
  \E peer \in Client, realIp \in Client \cup {NoClient}, forwarded \in ForwardedFor :
    LET k == ResolveClientIP(peer, realIp, forwarded)
    IN  /\ pc[r] = "idle"
        /\ client' = [client EXCEPT ![r] = k]
        /\ \/ FailsOpen(k) /\ Goto(r, "routed") /\ UNCHANGED <<limiter, credit>>
           \/ /\ Take(k)
              /\ Goto(r, IF Allows(k) THEN "routed" ELSE "idle")
              /\ credit' = [credit EXCEPT ![k] = IF Allows(k) THEN @ - Cost ELSE @]
        /\ UNCHANGED <<store, streak, late>>

\* Any other endpoint of /v1: it touches neither limiter nor store.
OtherEndpoint(r) ==
  /\ pc[r] = "routed"
  /\ Goto(r, "idle")
  /\ UNCHANGED <<limiter, store, client, history>>

\* authLogout: whatever token the cookie holds.
AuthLogout(r) ==
  /\ pc[r] = "routed"
  /\ \E t \in Token : Delete(t)
  /\ Goto(r, "idle")
  /\ UNCHANGED <<limiter, client, history>>

\* Fault: no lockout check.
CheckLockNever(r) ==
  /\ pc[r] = "routed"
  /\ Goto(r, "compare")
  /\ UNCHANGED <<limiter, store, client, history>>

\* Fault: an attempt during a lockout counts as one more failure.
CheckLockCounting(r) ==
  /\ pc[r] = "routed"
  /\ Goto(r, IF Locked(client[r]) THEN "wrong" ELSE "compare")
  /\ UNCHANGED <<limiter, store, client, history>>

\* authLogin: 429 while locked out.
CheckLock(r) ==
  /\ pc[r] = "routed"
  /\ Goto(r, IF Locked(client[r]) THEN "idle" ELSE "compare")
  /\ UNCHANGED <<limiter, store, client, history>>

\* authLogin: the body does not decode, or CheckPassword compares its password.
Compare(r) ==
  /\ pc[r] = "compare"
  /\ \/ Goto(r, "idle") /\ UNCHANGED late
     \/ /\ \E outcome \in {"wrong", "right"} : Goto(r, outcome)
        /\ late' = [late EXCEPT ![client[r]] = IF Locked(client[r]) THEN @ + 1 ELSE @]
  /\ UNCHANGED <<limiter, store, client, credit, streak>>

\* authLogin: a wrong password.
LoginFails(r) ==
  LET k == client[r]
      locks == streak[k] + 1 >= MaxFails
  IN  /\ pc[r] = "wrong"
      /\ RecordFailure(k)
      /\ Goto(r, "idle")
      /\ streak' = [streak EXCEPT ![k] = IF locks THEN 0 ELSE @ + 1]
      /\ late' = [late EXCEPT ![k] = IF locks THEN 0 ELSE @]
      /\ UNCHANGED <<limiter, client, credit>>

\* authLogin: the right password clears the counter ...
LoginSucceeds(r) ==
  /\ pc[r] = "right"
  /\ RecordSuccess(client[r])
  /\ Goto(r, "create")
  /\ streak' = [streak EXCEPT ![client[r]] = 0]
  /\ late' = [late EXCEPT ![client[r]] = 0]
  /\ UNCHANGED <<limiter, client, credit>>

\* ... and then opens a session.
OpenSession(r) ==
  /\ pc[r] = "create"
  /\ \E t \in Token : Create(t)
  /\ Goto(r, "idle")
  /\ UNCHANGED <<limiter, client, history>>

\* The two background cleanups.
Cleanup ==
  \/ CleanBuckets /\ UNCHANGED <<store, pc, client, history>>
  \/ PeriodicCleanup /\ UNCHANGED <<limiter, pc, client, history>>

Tick ==
  /\ LimiterTick /\ SessionsTick
  /\ credit' = [k \in Client |-> Least(Burst, credit[k] + Rate)]
  /\ UNCHANGED <<pc, client, streak, late>>

Next ==
  \/ \E r \in Request :
       \/ Arrive(r) \/ OtherEndpoint(r) \/ AuthLogout(r) \/ CheckLock(r)
       \/ Compare(r) \/ LoginFails(r) \/ LoginSucceeds(r) \/ OpenSession(r)
  \/ Cleanup \/ Tick

Spec == Init /\ [][Next]_vars

\* Time passes.
FairSpec == Spec /\ WF_vars(Tick)

-----------------------------------------------------------------------------
(* Properties.                                                             *)

\* A client never gets more than Burst requests at once and Rate per tick after that, over
\* any period: dropping idle buckets gives nothing away (allow, cleanup).  Requests that
\* the full map lets through unmetered are not counted.
WithinRate == \A k \in Client : credit[k] >= 0

\* No failure is forgotten: what the store counts is what was recorded since the last
\* success or lockout, whatever periodicCleanup removes in between.
FailuresKept == \A k \in Client : failures[k] = streak[k]

\* A lockout admits no guesses but those of requests that had passed the check when it
\* began, so fewer than run at once (authLogin: Locked, then CheckPassword).
FewLateGuesses == \A k \in Client : Locked(k) => late[k] < Cardinality(Request)

\* A session ends by time or logout and a lockout by time or the right password, never by
\* a cleanup or another request (periodicCleanup, RecordFailure).
NothingLiftedEarly ==
  [][ /\ \A t \in Token :
           Valid(t) => Valid(t)' \/ Tick \/ \E r \in Request : AuthLogout(r)
      /\ \A k \in Client :
           Locked(k) => \/ Locked(k)'
                        \/ Tick
                        \/ \E r \in Request : client[r] = k /\ LoginSucceeds(r) ]_vars

\* Nobody is locked out for good: attempts during a lockout do not extend it.
LockExpires == \A k \in Client : []<>~Locked(k)
=============================================================================
