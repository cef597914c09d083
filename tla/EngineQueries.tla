--------------------------- MODULE EngineQueries ---------------------------
(***************************************************************************)
(* What a client reads of a running engine, by itself or through the       *)
(* helpers built on the event store: the causal graph's queries            *)
(* (core/causal-graph.ts), the ancestry index                              *)
(* (dag/optimized-causal-dag.ts), EventValidator.hasCycles                 *)
(* (core/event.ts), and the replay engine with its verifier (replay/).     *)
(* None of them changes the engine; the properties relate what they say in *)
(* any state the engine can reach.                                         *)
(***************************************************************************)
EXTENDS JCComputeEngine, SequencesExt

CONSTANT NoEvent            \* an event id that is not given

ASSUME NoEventAssumption == NoEvent \notin Ids

-----------------------------------------------------------------------------
(* CausalGraph.                                                            *)

getParents(id) == {p \in Ids : <<p, id>> \in graph}
getChildren(id) == {ch \in Ids : <<id, ch>> \in graph}

GraphNodes == {edge[1] : edge \in graph} \cup {edge[2] : edge \in graph}

getAncestors(id) ==
    getParents(id) \cup {x \in Ids : \E p \in getParents(id) : IsAncestorOf(graph, x, p)}

getDescendants(id) ==
    getChildren(id) \cup {x \in Ids : \E ch \in getChildren(id) : IsAncestorOf(graph, ch, x)}

\* Kahn's algorithm.  A node is queued when its last parent left the queue; the
\* order of the maps, and so of the queue, is left open.
KahnStep(acc) ==
    LET current == Head(acc.queue)
        left == [id \in GraphNodes |->
                    acc.inDegree[id] - IF id \in getChildren(current) THEN 1 ELSE 0]
    IN  [queue |-> Tail(acc.queue) \o
                   SetToSeq({id \in getChildren(current) : left[id] = 0}),
         inDegree |-> left,
         result |-> Append(acc.result, current)]

KahnStart ==
    [queue |-> SetToSeq({id \in GraphNodes : getParents(id) = {}}),
     inDegree |-> [id \in GraphNodes |-> Cardinality(getParents(id))],
     result |-> <<>>]

KahnTurn(acc) == IF acc.queue = <<>> THEN acc ELSE KahnStep(acc)

\* No node is queued twice, so that the queue is empty after as many turns as
\* there are nodes.
topologicalSort ==
    LET turn[i \in 0..Cardinality(GraphNodes)] ==
            IF i = 0 THEN KahnStart ELSE KahnTurn(turn[i - 1])
    IN  turn[Cardinality(GraphNodes)].result

\* The sort throws unless every node is in its result.
Throws(sorted) == Len(sorted) # Cardinality(GraphNodes)


-----------------------------------------------------------------------------
(* The ancestry index, filled by addNode with each stored event in turn.   *)

\* Faulty variant: the ancestors of the parents are not taken over.
addParentsOnly(index, e) == (e.id :> ParentIds(e)) @@ index

addNode(index, e) ==
    [id \in DOMAIN index \cup {e.id} |->
        IF id = e.id
           THEN ParentIds(e) \cup UNION {index[p] : p \in ParentIds(e) \cap DOMAIN index}
           ELSE index[id]]

ancestryIndex ==
    LET index[i \in 0..Len(history)] ==
            IF i = 0 THEN <<>> ELSE addNode(index[i - 1], history[i])
    IN  index[Len(history)]

isAncestor(index, x, child) == child \in DOMAIN index /\ x \in index[child]

-----------------------------------------------------------------------------
(* EventValidator.hasCycles: the depth-first search from an event meets an *)
(* event it is still visiting, which it does iff stored events it reaches  *)
(* refer to one another in a ring.                                         *)

StoreEdges ==
    UNION {{<<p, history[i].id>> : p \in ParentIds(history[i])} : i \in DOMAIN history}

Reaches(edges, x, y) == x = y \/ IsAncestorOf(edges, x, y)

hasCycles(id) ==
    \E edge \in StoreEdges :
        Reaches(StoreEdges, edge[2], edge[1]) /\ Reaches(StoreEdges, edge[2], id)

-----------------------------------------------------------------------------
(* ReplayEngine and ReplayVerifier.  The indices of a ReplayConfig count   *)
(* from 1 here; 0 stands for one that is not given.  An unknown event id   *)
(* leaves the index as it was.                                             *)

\* findIndex: an id is stored once.
Position(id) ==
    IF id \in Stored THEN CHOOSE i \in DOMAIN history : history[i].id = id ELSE 0

selectEvents(cfg) ==
    LET start == IF Position(cfg.fromEventId) # 0 THEN Position(cfg.fromEventId)
                 ELSE IF cfg.fromIndex = 0 THEN 1 ELSE cfg.fromIndex
        end == IF Position(cfg.toEventId) # 0 THEN Position(cfg.toEventId)
               ELSE IF cfg.toIndex \in DOMAIN history THEN cfg.toIndex ELSE Len(history)
    IN  SubSeq(history, start, end)

\* append computes the hash that verifyEvents compares only when the event came
\* without one.
verifyEvents(events) ==
    \A i \in DOMAIN events :
        /\ events[i].defect \notin {"structure", "mismatch"}
        /\ ParentIds(events[i]) \subseteq {events[k].id : k \in 1..(i - 1)}

\* replay, where it does not throw.
replay(cfg) ==
    [state |-> Replay(selectEvents(cfg)),
     eventsApplied |-> Len(selectEvents(cfg)),
     verification |-> verifyEvents(selectEvents(cfg))]

NoConfig == [fromIndex |-> 0, toIndex |-> 0, fromEventId |-> NoEvent, toEventId |-> NoEvent]

replayTo(id) == replay([NoConfig EXCEPT !.toEventId = id])

-----------------------------------------------------------------------------
(* Properties.                                                             *)

\* The causal graph's own promise, in its documentation and its heading: a
\* directed graph without cycles, so that every node has a place in the sort.
CyclesRejected == ~Throws(topologicalSort)

\* How far that promise holds.  A sort that throws is the mark of an event
\* emitted again with itself among its parents, whose edge addEdge lets through
\* and whose append fails afterwards.  Without one, every node is sorted after
\* its parents, whatever other edges failed emits left.
SortFailsOnlyOnSelfEdges ==
    LET sorted == topologicalSort
    IN  IF \E x \in Ids : <<x, x>> \in graph THEN Throws(sorted)
        ELSE /\ ~Throws(sorted)
             /\ \A edge \in graph :
                    \E i, k \in DOMAIN sorted : i < k /\ edge = <<sorted[i], sorted[k]>>

\* The index filled in the order of the store answers isAncestor as a search
\* through the stored parents would, and that search meets no cycle.
IndexIsAncestry ==
    LET index == ancestryIndex
        edges == StoreEdges
    IN  \A id \in Stored :
            /\ ~hasCycles(id)
            /\ \A x \in Ids : isAncestor(index, x, id) <=> IsAncestorOf(edges, x, id)

\* append takes the hash of an event over from its caller unchecked.
Mismatched(events) == \E i \in DOMAIN events : events[i].defect = "mismatch"

\* However emits, failures, resets and imports nest, the replay engine and the
\* running state agree: a replay of the whole store that does not throw returns
\* currentState, and one up to an event returns the state that had followed it.
\* The verifier never misses a parent and refuses an intact event nowhere: it
\* answers invalid exactly where an event emitted with a wrong hash is replayed.
ReplayVerified ==
    /\ verifyEvents(history) <=> ~Mismatched(history)
    /\ ~ReplayThrows(history) =>
           /\ replay(NoConfig).state = state
           /\ \A id \in Stored :
                  LET result == replayTo(id)
                  IN  /\ result.verification <=>
                             ~Mismatched(SubSeq(history, 1, result.eventsApplied))
                      /\ result.state = SubSeq(state, 1, result.eventsApplied)
                      /\ Last(result.state) = id

=============================================================================
