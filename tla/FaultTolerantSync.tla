------------------------- MODULE FaultTolerantSync -------------------------
(***************************************************************************)
(* Sending to one peer (distributed/fault-tolerance.ts): concurrent        *)
(* sendToPeer calls, each retried by withRetry, around the peer's          *)
(* CircuitBreaker.  A call gives way at the transport and while it backs   *)
(* off; canCall, recordSuccess and recordFailure are atomic.               *)
(***************************************************************************)
EXTENDS Integers

CONSTANTS
    Calls,                  \* concurrent sendToPeer calls, each repeated
    failureThreshold,
    successThreshold,
    halfOpenMaxCalls,
    maxAttempts,
    MaxFailures             \* bound on the failures counted

ASSUME ConfigAssumption ==
    /\ failureThreshold \in Nat \ {0}
    /\ successThreshold \in Nat \ {0}
    /\ halfOpenMaxCalls \in Nat
    /\ maxAttempts \in Nat \ {0}
    /\ MaxFailures \in Nat

VARIABLES
    state,
    failures,
    successes,
    halfOpenCalls,
    elapsed,        \* timeoutMs have passed since lastOpenedAt
    call            \* call[c]: what call c awaits, and its attempt

vars == <<state, failures, successes, halfOpenCalls, elapsed, call>>

Idle == [at |-> "idle", attempt |-> 0]
Sending(attempt) == [at |-> "sending", attempt |-> attempt]

Init ==
    /\ state = "CLOSED"
    /\ failures = 0
    /\ successes = 0
    /\ halfOpenCalls = 0
    /\ elapsed = FALSE
    /\ call = [c \in Calls |-> Idle]

-----------------------------------------------------------------------------
(* The circuit breaker.                                                    *)

TransitionToOpen == state' = "OPEN" /\ elapsed' = FALSE

\* Faulty: the calls of the last trial are not forgotten.
KeepTrialCalls ==
    /\ state' = "HALF_OPEN"
    /\ successes' = 0
    /\ UNCHANGED halfOpenCalls

TransitionToHalfOpen ==
    /\ state' = "HALF_OPEN"
    /\ successes' = 0
    /\ halfOpenCalls' = 0

\* canCall, with the answer it gives.  The first call after the timeout moves
\* the breaker; probes in flight are not counted, only those that succeeded.
CanCall(answer) ==
    \/ /\ state = "CLOSED"
       /\ answer = TRUE
       /\ UNCHANGED <<state, successes, halfOpenCalls>>
    \/ /\ state = "OPEN" /\ ~elapsed
       /\ answer = FALSE
       /\ UNCHANGED <<state, successes, halfOpenCalls>>
    \/ /\ state = "OPEN" /\ elapsed
       /\ TransitionToHalfOpen
       /\ answer = (halfOpenCalls' < halfOpenMaxCalls)
    \/ /\ state = "HALF_OPEN"
       /\ answer = (halfOpenCalls < halfOpenMaxCalls)
       /\ UNCHANGED <<state, successes, halfOpenCalls>>

\* A success while OPEN, of a call that began before, clears failures too.
RecordSuccess ==
    /\ IF state # "HALF_OPEN"
          THEN failures' = 0 /\ UNCHANGED <<state, successes, halfOpenCalls>>
          ELSE /\ halfOpenCalls' = halfOpenCalls + 1
               /\ IF successes + 1 >= successThreshold
                     THEN failures' = 0 /\ successes' = 0 /\ state' = "CLOSED"
                     ELSE successes' = successes + 1 /\ UNCHANGED <<failures, state>>
    /\ UNCHANGED elapsed

\* Faulty: the breaker opens one failure late.
RecordFailureLate ==
    /\ failures < MaxFailures
    /\ failures' = failures + 1
    /\ IF state = "HALF_OPEN" \/ failures' > failureThreshold
          THEN TransitionToOpen
          ELSE UNCHANGED <<state, elapsed>>
    /\ UNCHANGED <<successes, halfOpenCalls>>

\* Reopening restarts the timeout.
RecordFailure ==
    /\ failures < MaxFailures
    /\ failures' = failures + 1
    /\ IF state = "HALF_OPEN" \/ failures' >= failureThreshold
          THEN TransitionToOpen
          ELSE UNCHANGED <<state, elapsed>>
    /\ UNCHANGED <<successes, halfOpenCalls>>

-----------------------------------------------------------------------------
(* sendToPeer and withRetry.                                               *)

Send(c) ==
    /\ call[c] = Idle
    /\ CanCall(TRUE)
    /\ call' = [call EXCEPT ![c] = Sending(1)]
    /\ UNCHANGED <<failures, elapsed>>

\* "circuitOpen": the peer is skipped.
Skip(c) ==
    /\ call[c] = Idle
    /\ CanCall(FALSE)
    /\ UNCHANGED <<failures, elapsed, call>>

TransportSucceeds(c) ==
    /\ call[c].at = "sending"
    /\ RecordSuccess
    /\ call' = [call EXCEPT ![c] = Idle]

\* Only the failure of the last attempt is recorded.
TransportFails(c) ==
    /\ call[c].at = "sending"
    /\ IF call[c].attempt = maxAttempts
          THEN RecordFailure /\ call' = [call EXCEPT ![c] = Idle]
          ELSE /\ call' = [call EXCEPT ![c].at = "waiting"]
               /\ UNCHANGED <<state, failures, successes, halfOpenCalls, elapsed>>

\* Faulty: the attempt is not counted.
RetrySameAttempt(c) ==
    /\ call[c].at = "waiting"
    /\ call' = [call EXCEPT ![c].at = "sending"]
    /\ UNCHANGED <<state, failures, successes, halfOpenCalls, elapsed>>

\* The back-off ends.  The breaker is not asked again.
Retry(c) ==
    /\ call[c].at = "waiting"
    /\ call' = [call EXCEPT ![c] = Sending(@.attempt + 1)]
    /\ UNCHANGED <<state, failures, successes, halfOpenCalls, elapsed>>

TimeoutElapses ==
    /\ state = "OPEN" /\ ~elapsed
    /\ elapsed' = TRUE
    /\ UNCHANGED <<state, failures, successes, halfOpenCalls, call>>

Next ==
    \/ \E c \in Calls :
          \/ Send(c)
          \/ Skip(c)
          \/ TransportSucceeds(c)
          \/ TransportFails(c)
          \/ Retry(c)
    \/ TimeoutElapses

Spec == Init /\ [][Next]_vars

-----------------------------------------------------------------------------
(* Properties.                                                             *)

TypeOK ==
    /\ state \in {"CLOSED", "OPEN", "HALF_OPEN"}
    /\ failures \in 0..MaxFailures
    /\ successes \in Nat
    /\ halfOpenCalls \in Nat
    /\ elapsed \in BOOLEAN
    /\ call \in [Calls -> [at : {"idle"}, attempt : {0}]
                          \cup [at : {"sending"}, attempt : 1..maxAttempts]
                          \cup [at : {"waiting"}, attempt : 1..(maxAttempts - 1)]]

\* A closed breaker is one that has not reached its threshold, however late
\* failures and successes arrive.
ClosedBelowThreshold == state = "CLOSED" => failures < failureThreshold

=============================================================================
