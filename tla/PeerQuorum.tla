----------------------------- MODULE PeerQuorum -----------------------------
(***************************************************************************)
(* Who counts towards the quorum (distributed/fault-tolerance.ts): a       *)
(* phi-accrual detector per registered peer, and the live set of the       *)
(* QuorumTracker that registrations, heartbeats and checks of suspects     *)
(* change.                                                                 *)
(*                                                                         *)
(* phi grows with the deviation (elapsed - mean) / stddev, so it exceeds   *)
(* its threshold when the deviation exceeds Deviations (5.6 for the        *)
(* default of 8).  Mean and stddev are compared without division or root.  *)
(***************************************************************************)
EXTENDS Integers, Sequences, FiniteSets, SequencesExt

CONSTANTS
    Nodes,              \* the ids that register or beat
    quorumSize,
    maxHistory,
    minStdDevMs,
    Deviations,
    MaxTime             \* bound on the clock

ASSUME ConfigAssumption ==
    /\ {quorumSize, minStdDevMs, Deviations} \subseteq Nat
    /\ {maxHistory, MaxTime} \subseteq Nat \ {0}

ASSUME NodesAssumption == IsFiniteSet(Nodes)

VARIABLES
    now,                \* Date.now(), never 0: a lastHeartbeat of 0 is none
    registered,         \* the peers with a detector
    intervals,          \* intervals[p], newest last
    lastHeartbeat,
    liveNodes

vars == <<now, registered, intervals, lastHeartbeat, liveNodes>>

Init ==
    /\ now = 1
    /\ registered = {}
    /\ intervals = [p \in Nodes |-> <<>>]
    /\ lastHeartbeat = [p \in Nodes |-> 0]
    /\ liveNodes = {}

-----------------------------------------------------------------------------
(* PhiAccrualDetector.                                                     *)

Sum(seq) ==
    LET sum[i \in 0..Len(seq)] == IF i = 0 THEN 0 ELSE sum[i - 1] + seq[i]
    IN  sum[Len(seq)]

SumOfSquares(seq) == Sum([i \in DOMAIN seq |-> seq[i] * seq[i]])

\* With n intervals: n * (elapsed - mean), and n * n * variance.
Excess(p) == Len(intervals[p]) * (now - lastHeartbeat[p]) - Sum(intervals[p])

\* Faulty: the mean of the squares, from which the squared mean is not taken.
SpreadAboutZero(p) == Len(intervals[p]) * SumOfSquares(intervals[p])

Spread(p) == Len(intervals[p]) * SumOfSquares(intervals[p]) - Sum(intervals[p]) * Sum(intervals[p])

\* Faulty: no least deviation, so that a steady peer may not be late at all.
isSuspectedAtOnce(p) ==
    /\ Len(intervals[p]) >= 2
    /\ Excess(p) > 0
    /\ Excess(p) * Excess(p) > Deviations * Deviations * Spread(p)

isSuspected(p) ==
    /\ Len(intervals[p]) >= 2
    /\ Excess(p) > Deviations * Len(intervals[p]) * minStdDevMs
    /\ Excess(p) * Excess(p) > Deviations * Deviations * Spread(p)

Beat(p) ==
    /\ intervals' =
          IF lastHeartbeat[p] = 0 THEN intervals
          ELSE LET all == Append(intervals[p], now - lastHeartbeat[p])
               IN  [intervals EXCEPT ![p] = IF Len(all) > maxHistory THEN Tail(all) ELSE all]
    /\ lastHeartbeat' = [lastHeartbeat EXCEPT ![p] = now]

-----------------------------------------------------------------------------
(* QuorumTracker and FaultTolerantSync.                                    *)

HasWriteQuorum(live) == Cardinality(live) >= quorumSize

\* A peer registered again starts over, with an empty history.  Its breaker is
\* FaultTolerantSync's.
registerPeer(p) ==
    /\ registered' = registered \cup {p}
    /\ intervals' = [intervals EXCEPT ![p] = <<>>]
    /\ lastHeartbeat' = [lastHeartbeat EXCEPT ![p] = 0]
    /\ liveNodes' = liveNodes \cup {p}
    /\ UNCHANGED now

\* Faulty: a heartbeat of a peer that was given up does not revive it.
heartbeatFromDetectorOnly(p) ==
    /\ IF p \in registered THEN Beat(p) ELSE UNCHANGED <<intervals, lastHeartbeat>>
    /\ UNCHANGED <<now, registered, liveNodes>>

\* A node without a detector becomes live as well, and no check will ever
\* suspect it.
heartbeatFrom(p) ==
    /\ IF p \in registered THEN Beat(p) ELSE UNCHANGED <<intervals, lastHeartbeat>>
    /\ liveNodes' = liveNodes \cup {p}
    /\ UNCHANGED <<now, registered>>

suspected == {p \in registered : isSuspected(p)}

checkSuspects ==
    /\ liveNodes' = liveNodes \ suspected
    /\ UNCHANGED <<now, registered, intervals, lastHeartbeat>>

TimePasses ==
    /\ now < MaxTime
    /\ now' = now + 1
    /\ UNCHANGED <<registered, intervals, lastHeartbeat, liveNodes>>

Next ==
    \/ \E p \in Nodes : registerPeer(p) \/ heartbeatFrom(p)
    \/ checkSuspects
    \/ TimePasses

Spec == Init /\ [][Next]_vars

-----------------------------------------------------------------------------
(* Properties.                                                             *)

TypeOK ==
    /\ now \in 1..MaxTime
    /\ registered \subseteq Nodes
    /\ intervals \in [Nodes -> BoundedSeq(0..MaxTime, maxHistory)]
    /\ lastHeartbeat \in [Nodes -> 0..now]
    /\ liveNodes \subseteq Nodes

\* The quorum and the detectors agree on who is dead: a registered peer that
\* does not count is suspected now, not only when it was checked.
DeadAreSuspected == \A p \in registered \ liveNodes : isSuspected(p)

Silence(p) == now - lastHeartbeat[p]
Longest(p) == Max(ToSet(intervals[p]))
Shortest(p) == Min(ToSet(intervals[p]))

\* No false alarm: a peer that is late by no more than Deviations times the
\* least deviation, over its shortest interval on record, counts.
PunctualAreLive ==
    \A p \in registered :
        (Len(intervals[p]) >= 2 /\ Silence(p) <= Shortest(p) + Deviations * minStdDevMs)
            => p \in liveNodes

\* A peer with a history that has been silent for so long that no deviation of
\* the intervals on record explains it.
SilentLong(p) ==
    /\ p \in registered /\ Len(intervals[p]) >= 2
    /\ Silence(p) > Longest(p) + Deviations * Max({Longest(p) - Shortest(p), minStdDevMs})

\* "Read-only mode under quorum loss": whenever fewer than quorumSize nodes are
\* not silent for long, a check made now withdraws the write quorum.
QuorumLossNoticed ==
    Cardinality({p \in Nodes : ~SilentLong(p)}) < quorumSize
        => ~HasWriteQuorum(liveNodes \ suspected)

=============================================================================
