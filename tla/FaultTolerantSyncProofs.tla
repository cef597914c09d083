---------------------- MODULE FaultTolerantSyncProofs ----------------------
(* Proofs about FaultTolerantSync and GracefulShutdown, for every          *)
(* configuration.                                                          *)
EXTENDS GracefulShutdown, TLAPS

\* A trial's counters agree, and it ends when they reach the threshold.
TrialCounts ==
    state = "HALF_OPEN" => halfOpenCalls = successes /\ successes < successThreshold

IInv == TypeOK /\ TrialCounts /\ ClosedBelowThreshold

\* The breaker's part of the invariant, which no call is needed for.
Breaker ==
    /\ state \in {"CLOSED", "OPEN", "HALF_OPEN"}
    /\ failures \in 0..MaxFailures
    /\ successes \in Nat
    /\ halfOpenCalls \in Nat
    /\ elapsed \in BOOLEAN
    /\ TrialCounts
    /\ ClosedBelowThreshold

CallsTyped ==
    call \in [Calls -> [at : {"idle"}, attempt : {0}]
                       \cup [at : {"sending"}, attempt : 1..maxAttempts]
                       \cup [at : {"waiting"}, attempt : 1..(maxAttempts - 1)]]

LEMMA InvParts == IInv <=> Breaker /\ CallsTyped
BY DEF IInv, TypeOK, Breaker, CallsTyped

LEMMA InitInv == Init => IInv
<1> SUFFICES ASSUME Init PROVE Breaker /\ CallsTyped
  BY InvParts
<1>1. Breaker
  <2>1. 0 \in 0..MaxFailures /\ 0 < failureThreshold
    BY ConfigAssumption
  <2>. QED  BY <2>1 DEF Init, Breaker, TrialCounts, ClosedBelowThreshold
<1>2. CallsTyped
  BY DEF Init, CallsTyped, Idle
<1>. QED  BY <1>1, <1>2

LEMMA CanCallStep ==
    ASSUME Breaker, NEW answer \in BOOLEAN, CanCall(answer), UNCHANGED <<failures, elapsed>>
    PROVE  Breaker'
BY ConfigAssumption
   DEF Breaker, CanCall, TransitionToHalfOpen, TrialCounts, ClosedBelowThreshold

LEMMA RecordSuccessStep == ASSUME Breaker, RecordSuccess PROVE Breaker'
BY ConfigAssumption DEF Breaker, RecordSuccess, TrialCounts, ClosedBelowThreshold

LEMMA RecordFailureStep == ASSUME Breaker, RecordFailure PROVE Breaker'
<1>1. failures' \in 0..MaxFailures /\ failures' = failures + 1
  BY ConfigAssumption DEF Breaker, RecordFailure
<1>2. UNCHANGED <<successes, halfOpenCalls>>
  BY DEF RecordFailure
<1>3. CASE state = "HALF_OPEN" \/ failures' >= failureThreshold
  <2>1. state' = "OPEN" /\ elapsed' = FALSE
    BY <1>3 DEF RecordFailure, TransitionToOpen
  <2>. QED  BY <1>1, <1>2, <2>1 DEF Breaker, TrialCounts, ClosedBelowThreshold
<1>4. CASE ~(state = "HALF_OPEN" \/ failures' >= failureThreshold)
  <2>1. UNCHANGED <<state, elapsed>> /\ state # "HALF_OPEN"
    BY <1>4 DEF RecordFailure
  <2>2. failures' < failureThreshold
    BY <1>1, <1>4, ConfigAssumption
  <2>. QED  BY <1>1, <1>2, <2>1, <2>2 DEF Breaker, TrialCounts, ClosedBelowThreshold
<1>. QED  BY <1>3, <1>4

LEMMA UnchangedStep ==
    ASSUME Breaker, UNCHANGED <<state, failures, successes, halfOpenCalls>>, elapsed' \in BOOLEAN
    PROVE  Breaker'
BY DEF Breaker, TrialCounts, ClosedBelowThreshold

LEMMA NextInv == IInv /\ [Next]_vars => IInv'
<1> SUFFICES ASSUME Breaker, CallsTyped, [Next]_vars PROVE Breaker' /\ CallsTyped'
  BY InvParts DEF IInv, TypeOK, Breaker, CallsTyped, TrialCounts, ClosedBelowThreshold
<1>1. ASSUME NEW c \in Calls, Send(c) PROVE Breaker' /\ CallsTyped'
  <2>1. Breaker'
    BY <1>1, CanCallStep DEF Send
  <2>2. CallsTyped'
    BY <1>1, ConfigAssumption DEF Send, CallsTyped, Sending
  <2>. QED  BY <2>1, <2>2
<1>2. ASSUME NEW c \in Calls, Skip(c) PROVE Breaker' /\ CallsTyped'
  <2>1. Breaker'
    BY <1>2, CanCallStep DEF Skip
  <2>2. CallsTyped'
    BY <1>2 DEF Skip, CallsTyped
  <2>. QED  BY <2>1, <2>2
<1>3. ASSUME NEW c \in Calls, TransportSucceeds(c) PROVE Breaker' /\ CallsTyped'
  <2>1. Breaker'
    BY <1>3, RecordSuccessStep DEF TransportSucceeds
  <2>2. CallsTyped'
    BY <1>3 DEF TransportSucceeds, CallsTyped, Idle
  <2>. QED  BY <2>1, <2>2
<1>4. ASSUME NEW c \in Calls, TransportFails(c) PROVE Breaker' /\ CallsTyped'
  <2>1. CASE call[c].attempt = maxAttempts
    <3>1. Breaker'
      BY <1>4, <2>1, RecordFailureStep DEF TransportFails
    <3>2. CallsTyped'
      BY <1>4, <2>1 DEF TransportFails, CallsTyped, Idle
    <3>. QED  BY <3>1, <3>2
  <2>2. CASE call[c].attempt # maxAttempts
    <3>1. Breaker'
      BY <1>4, <2>2, UnchangedStep DEF TransportFails, Breaker
    <3>2. call[c] \in [at : {"sending"}, attempt : 1..maxAttempts]
      BY <1>4 DEF TransportFails, CallsTyped
    <3>3. [call[c] EXCEPT !.at = "waiting"] \in [at : {"waiting"}, attempt : 1..(maxAttempts - 1)]
      BY <3>2, <2>2, ConfigAssumption
    <3>4. CallsTyped'
      BY <1>4, <2>2, <3>3 DEF TransportFails, CallsTyped
    <3>. QED  BY <3>1, <3>4
  <2>. QED  BY <2>1, <2>2
<1>5. ASSUME NEW c \in Calls, Retry(c) PROVE Breaker' /\ CallsTyped'
  <2>1. Breaker'
    BY <1>5, UnchangedStep DEF Retry, Breaker
  <2>2. call[c] \in [at : {"waiting"}, attempt : 1..(maxAttempts - 1)]
    BY <1>5 DEF Retry, CallsTyped
  <2>3. Sending(call[c].attempt + 1) \in [at : {"sending"}, attempt : 1..maxAttempts]
    BY <2>2, ConfigAssumption DEF Sending
  <2>4. CallsTyped'
    BY <1>5, <2>3 DEF Retry, CallsTyped
  <2>. QED  BY <2>1, <2>4
<1>6. ASSUME TimeoutElapses PROVE Breaker' /\ CallsTyped'
  BY <1>6, UnchangedStep DEF TimeoutElapses, CallsTyped
<1>7. CASE UNCHANGED vars
  BY <1>7, UnchangedStep DEF vars, CallsTyped, Breaker
<1>. QED  BY <1>1, <1>2, <1>3, <1>4, <1>5, <1>6, <1>7 DEF Next

THEOREM InductiveInvariant == Spec => []IInv
BY InitInv, NextInv, PTL DEF Spec

\* Every counter of the circuit breaker and every call keeps its type.
THEOREM TypeCorrect == Spec => []TypeOK
<1>1. IInv => TypeOK
  BY DEF IInv
<1>. QED  BY <1>1, InductiveInvariant, PTL

\* recordFailure: a breaker that has reached failureThreshold is not closed.
THEOREM ClosedBelowThresholdHolds == Spec => []ClosedBelowThreshold
<1>1. IInv => ClosedBelowThreshold
  BY DEF IInv
<1>. QED  BY <1>1, InductiveInvariant, PTL

-----------------------------------------------------------------------------
(* GracefulShutdown.                                                       *)

\* The shutdown never touches a breaker or a call: what holds of the calls
\* holds of a process that shuts down.
THEOREM ShutdownKeepsCalls == ShutdownSpec => Spec
<1>1. ShutdownInit => Init
  BY DEF ShutdownInit
<1>2. [ShutdownNext]_allVars => [Next]_vars
  BY DEF ShutdownNext, allVars, During, onShutdown, Signal, HandlerResolves,
         HandlerRejects, DrainTimeout, LoopEmpties
<1>. QED  BY <1>1, <1>2, PTL DEF ShutdownSpec, Spec

\* While the process lives, the handlers before the one awaited have ended.
LoopInv ==
    /\ ShutdownTypeOK
    /\ Running => drained = 1..(current - 1)
    /\ ExitsDrained

LEMMA ShutdownInitInv == ShutdownInit => LoopInv
<1> SUFFICES ASSUME ShutdownInit PROVE LoopInv
  OBVIOUS
<1>1. handlers = <<>> /\ Len(handlers) = 0
  BY DEF ShutdownInit
<1>. QED  BY <1>1 DEF ShutdownInit, LoopInv, ShutdownTypeOK, Running, ExitsDrained

LEMMA AwaitAfterStep ==
    ASSUME ShutdownTypeOK, NEW i \in 0..Len(handlers), AwaitAfter(i),
           exit = "none", i = current,
           drained' = 1..i, UNCHANGED handlers, UNCHANGED vars,
           i > 0 => (handlers[i] = "drain" => InFlight = {})
    PROVE  LoopInv'
<1>0. DOMAIN handlers = 1..Len(handlers)
  BY DEF ShutdownTypeOK
<1>1. Len(handlers) \in Nat /\ i \in Nat /\ i <= Len(handlers)
  BY DEF ShutdownTypeOK
<1>2. UNCHANGED InFlight
  BY DEF InFlight, vars
<1>3. CASE i < Len(handlers)
  <2>1. current' = i + 1 /\ exit' = "none"
    BY <1>3 DEF AwaitAfter
  <2>. QED  BY <1>1, <1>3, <2>1 DEF LoopInv, ShutdownTypeOK, Running, ExitsDrained
<1>4. CASE ~(i < Len(handlers))
  <2>0. i = Len(handlers)
    BY <1>1, <1>4
  <2>1. current' = current /\ exit' = "zero" /\ i = Len(handlers)
    BY <1>4, <2>0 DEF AwaitAfter
  <2>2. drained' = DOMAIN handlers'
    BY <1>0, <2>1
  <2>3. handlers # <<>> => i > 0
    BY <1>1, <2>1 DEF ShutdownTypeOK
  <2>. QED  BY <1>1, <1>2, <2>1, <2>2, <2>3 DEF LoopInv, ShutdownTypeOK, Running, ExitsDrained
<1>. QED  BY <1>3, <1>4

LEMMA ShutdownNextInv == LoopInv /\ [ShutdownNext]_allVars => LoopInv'
<1> SUFFICES ASSUME LoopInv, [ShutdownNext]_allVars PROVE LoopInv'
  OBVIOUS
<1>0. Len(handlers) \in Nat /\ DOMAIN handlers = 1..Len(handlers) /\ current \in 0..Len(handlers)
  BY DEF LoopInv, ShutdownTypeOK
<1>1. CASE During(Next)
  BY <1>1 DEF During, shutdownVars, LoopInv, ShutdownTypeOK, Running, ExitsDrained
<1>2. ASSUME NEW h \in {"drain", "close"}, onShutdown(h) PROVE LoopInv'
  <2>1. handlers' \in Seq({"drain", "close"}) /\ Len(handlers') = Len(handlers) + 1
    BY <1>2 DEF onShutdown, LoopInv, ShutdownTypeOK
  <2>. QED  BY <1>0, <1>2, <2>1 DEF onShutdown, LoopInv, ShutdownTypeOK, Running, ExitsDrained
<1>3. CASE Signal
  BY <1>0, <1>3, AwaitAfterStep
     DEF Signal, LoopInv, Running, isShuttingDown, ShutdownTypeOK
<1>4. CASE HandlerResolves
  <2>1. current > 0 /\ Running
    BY <1>4 DEF HandlerResolves, isShuttingDown
  <2>2. drained' = 1..current
    BY <1>0, <1>4, <2>1 DEF HandlerResolves, LoopInv
  <2>. QED  BY <1>0, <1>4, <2>1, <2>2, AwaitAfterStep DEF HandlerResolves, LoopInv, Running
<1>5. CASE HandlerRejects \/ DrainTimeout \/ LoopEmpties
  BY <1>5 DEF HandlerRejects, DrainTimeout, LoopEmpties, LoopInv, ShutdownTypeOK,
              Running, ExitsDrained
<1>6. CASE UNCHANGED allVars
  <2>1. UNCHANGED <<handlers, current, drained, exit>> /\ UNCHANGED InFlight
    BY <1>6 DEF allVars, shutdownVars, vars, InFlight
  <2>. QED  BY <2>1 DEF LoopInv, ShutdownTypeOK, Running, ExitsDrained
<1>. QED  BY <1>1, <1>2, <1>3, <1>4, <1>5, <1>6 DEF ShutdownNext

\* Exit code 0 is given only when every handler has ended, in order, and cuts
\* off no call that the last one waits for.
THEOREM ExitsDrainedHolds == ShutdownSpec => []ExitsDrained
<1>1. LoopInv => ExitsDrained
  BY DEF LoopInv
<1>. QED  BY <1>1, ShutdownInitInv, ShutdownNextInv, PTL DEF ShutdownSpec

=============================================================================
