------------------------------ MODULE Sessions ------------------------------
(***************************************************************************)
(* The session store and the login lockout of internal/auth/session.go.    *)
(* Every operator is one critical section under Store.mu.  Expiry times    *)
(* are kept as the ticks that are left.                                    *)
(***************************************************************************)
EXTENDS Clients

CONSTANTS
  Token,         \* session tokens; one that was forgotten stands for a fresh one later
  TTL,           \* ticks a session lasts
  LockTicks,     \* the fifteen minutes of a lockout
  MaxFails       \* the five failures that cause one

ASSUME SessionsAssumption ==
  /\ TTL \in Nat \ {0} /\ LockTicks \in Nat \ {0} /\ MaxFails \in Nat \ {0}

Absent == -1

VARIABLES
  session,    \* ticks until a token's session ends, Absent without one
  tracked,    \* the addresses with an entry in `attempts'
  failures,   \* attempt.failures (0 without an entry)
  lock        \* ticks until attempt.lockUntil (0: past, or without an entry)

store == <<session, tracked, failures, lock>>

SessionsTypeOK ==
  /\ session \in [Token -> Absent .. TTL]
  /\ tracked \subseteq Client
  /\ failures \in [Client -> 0 .. MaxFails - 1]
  /\ lock \in [Client -> 0 .. LockTicks]

SessionsInit ==
  /\ session = [t \in Token |-> Absent]
  /\ tracked = {}
  /\ failures = [k \in Client |-> 0]
  /\ lock = [k \in Client |-> 0]

Valid(t) == session[t] > 0

Locked(k) == k \in tracked /\ lock[k] > 0

Create(t) ==
  /\ session[t] = Absent
  /\ session' = [session EXCEPT ![t] = TTL]
  /\ UNCHANGED <<tracked, failures, lock>>

Delete(t) ==
  /\ session' = [session EXCEPT ![t] = Absent]
  /\ UNCHANGED <<tracked, failures, lock>>

\* Fault: the lockout starts one failure too late.
RecordFailureLate(k) ==
  LET full == failures[k] + 1 > MaxFails
  IN  /\ tracked' = tracked \cup {k}
      /\ failures' = [failures EXCEPT ![k] = IF full THEN 0 ELSE @ + 1]
      /\ lock' = [lock EXCEPT ![k] = IF full THEN LockTicks ELSE @]
      /\ UNCHANGED session

\* RecordFailure: the failure that fills the counter locks the address and empties it.
RecordFailure(k) ==
  LET full == failures[k] + 1 >= MaxFails
  IN  /\ tracked' = tracked \cup {k}
      /\ failures' = [failures EXCEPT ![k] = IF full THEN 0 ELSE @ + 1]
      /\ lock' = [lock EXCEPT ![k] = IF full THEN LockTicks ELSE @]
      /\ UNCHANGED session

\* Deletes the whole entry: the counter, and a lock that may have started meanwhile.
RecordSuccess(k) ==
  /\ tracked' = tracked \ {k}
  /\ failures' = [failures EXCEPT ![k] = 0]
  /\ lock' = [lock EXCEPT ![k] = 0]
  /\ UNCHANGED session

\* Fault: an entry is dropped although it counts failures.
PeriodicCleanupForgetful ==
  LET gone == {k \in tracked : lock[k] = 0}
  IN  /\ session' = [t \in Token |-> IF session[t] = 0 THEN Absent ELSE session[t]]
      /\ tracked' = tracked \ gone
      /\ failures' = [k \in Client |-> IF k \in gone THEN 0 ELSE failures[k]]
      /\ UNCHANGED lock

\* Fault: an entry is dropped whatever its lock.
PeriodicCleanupEager ==
  LET gone == {k \in tracked : failures[k] = 0}
  IN  /\ session' = [t \in Token |-> IF session[t] = 0 THEN Absent ELSE session[t]]
      /\ tracked' = tracked \ gone
      /\ lock' = [k \in Client |-> IF k \in gone THEN 0 ELSE lock[k]]
      /\ UNCHANGED failures

\* periodicCleanup: drop what has expired, but keep an entry that counts failures.
PeriodicCleanup ==
  /\ session' = [t \in Token |-> IF session[t] = 0 THEN Absent ELSE session[t]]
  /\ tracked' = {k \in tracked : lock[k] > 0 \/ failures[k] > 0}
  /\ UNCHANGED <<failures, lock>>

SessionsTick ==
  /\ session' = [t \in Token |-> IF session[t] > 0 THEN session[t] - 1 ELSE session[t]]
  /\ lock' = [k \in Client |-> IF lock[k] > 0 THEN lock[k] - 1 ELSE 0]
  /\ UNCHANGED <<tracked, failures>>
=============================================================================
