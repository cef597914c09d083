-------------------------- MODULE GracefulShutdown --------------------------
(***************************************************************************)
(* The end of a node's process (GracefulShutdown of                        *)
(* core/production-hardening.ts) under the calls of FaultTolerantSync.     *)
(* The handlers are the application's: here one kind waits until no call   *)
(* is under way, and another closes something, which may succeed, fail or  *)
(* never settle.  sendToPeer does not ask whether the node shuts down, so  *)
(* calls begin and go on during the drain; the end of the process cuts     *)
(* them off.                                                               *)
(***************************************************************************)
EXTENDS FaultTolerantSync, Sequences

CONSTANT MaxHandlers        \* bound on the handlers registered

ASSUME MaxHandlersAssumption == MaxHandlers \in Nat

VARIABLES
    handlers,       \* in registration order, "drain" or "close"
    current,        \* the handler awaited; 0 before isShuttingDown
    drained,        \* handlers that were awaited to their end
    exit            \* "none", "zero", "one", or "empty": the event loop ran dry

shutdownVars == <<handlers, current, drained, exit>>
allVars == <<vars, shutdownVars>>

ShutdownInit ==
    /\ Init
    /\ handlers = <<>>
    /\ current = 0
    /\ drained = {}
    /\ exit = "none"

Running == exit = "none"
isShuttingDown == current > 0
InFlight == {c \in Calls : call[c] # Idle}

\* Faulty: the loop ends one handler early.
AwaitAllButLast(i) ==
    IF i + 1 < Len(handlers) THEN current' = i + 1 /\ UNCHANGED exit
                             ELSE exit' = "zero" /\ UNCHANGED current

\* The loop over handlers after its i-th: it visits those pushed meanwhile.
\* Past the last, the timer is cleared and the process exits, in one turn.
AwaitAfter(i) ==
    IF i < Len(handlers) THEN current' = i + 1 /\ UNCHANGED exit
                         ELSE exit' = "zero" /\ UNCHANGED current

onShutdown(h) ==
    /\ Running
    /\ Len(handlers) < MaxHandlers
    /\ handlers' = Append(handlers, h)
    /\ UNCHANGED <<vars, current, drained, exit>>

\* SIGTERM or SIGINT.  One that comes while the node shuts down is ignored.
Signal ==
    /\ Running /\ ~isShuttingDown
    /\ AwaitAfter(0)
    /\ UNCHANGED <<vars, handlers, drained>>

HandlerResolves ==
    /\ Running /\ isShuttingDown
    /\ handlers[current] = "drain" => InFlight = {}
    /\ drained' = drained \cup {current}
    /\ AwaitAfter(current)
    /\ UNCHANGED <<vars, handlers>>

HandlerRejects ==
    /\ Running /\ isShuttingDown
    /\ handlers[current] = "close"
    /\ exit' = "one"
    /\ UNCHANGED <<vars, handlers, current, drained>>

DrainTimeout ==
    /\ Running /\ isShuttingDown
    /\ exit' = "one"
    /\ UNCHANGED <<vars, handlers, current, drained>>

\* The timer is unref'd: with no call under way, a handler that waits for
\* something that keeps no handle open lets the process end by itself, with
\* code 0 as well, and with handlers left.
LoopEmpties ==
    /\ Running /\ isShuttingDown
    /\ handlers[current] = "close"
    /\ InFlight = {}
    /\ exit' = "empty"
    /\ UNCHANGED <<vars, handlers, current, drained>>

\* A step of the calls, as long as the process lives.
During(A) == Running /\ A /\ UNCHANGED shutdownVars

ShutdownNext ==
    \/ During(Next)
    \/ \E h \in {"drain", "close"} : onShutdown(h)
    \/ Signal
    \/ HandlerResolves
    \/ HandlerRejects
    \/ DrainTimeout
    \/ LoopEmpties

ShutdownSpec == ShutdownInit /\ [][ShutdownNext]_allVars

AwaitsCalls == Running /\ isShuttingDown /\ handlers[current] = "drain"

\* As long as the process lives, timers fire, transports answer, the node keeps
\* sending to its peer, and a handler that waits for the calls sees them end.
\* Nothing is assumed of the drain timer and of the other handlers.
FairShutdownSpec ==
    /\ ShutdownSpec
    /\ WF_allVars(AwaitsCalls /\ HandlerResolves)
    /\ WF_allVars(During(TimeoutElapses))
    /\ \A c \in Calls :
          /\ WF_allVars(During(Send(c)))
          /\ WF_allVars(During(TransportSucceeds(c) \/ TransportFails(c)))
          /\ WF_allVars(During(Retry(c)))

-----------------------------------------------------------------------------
(* Properties.                                                             *)

ShutdownTypeOK ==
    /\ handlers \in Seq({"drain", "close"})
    /\ current \in 0..Len(handlers)
    /\ drained \subseteq 1..Len(handlers)
    /\ exit \in {"none", "zero", "one", "empty"}

\* process.exit(0) says that the shutdown was complete: every handler has ended,
\* those registered during the drain as well, and when the last one waits for
\* the node's calls none is cut off, although calls begin during the drain.
ExitsDrained ==
    exit = "zero" =>
        /\ drained = DOMAIN handlers
        /\ (handlers # <<>> /\ handlers[Len(handlers)] = "drain") => InFlight = {}

\* A handler that waits for the calls under way sees all of them end, by their
\* answers or after their last attempt and without the drain timer, when no new
\* ones are begun.  If they are, it need not: they are not refused.
CallsDrain ==
    <>[][~ \E c \in Calls : Send(c)]_vars => (AwaitsCalls ~> ~AwaitsCalls)

\* A peer that answers again is used again, unless the process ends first.
RecoversOrEnds ==
    <>[][~ \E c \in Calls : TransportFails(c)]_vars => <>[](state = "CLOSED" \/ ~Running)

=============================================================================
