---------------------------- MODULE CausalGraph ----------------------------
(***************************************************************************)
(* core/causal-graph.ts as operators on a set of edges.  The class keeps   *)
(* two mirrored maps (edges and reverseEdges); addEdge and clear are the   *)
(* only writers and update both, so one set of <<parent, child>> pairs     *)
(* stands for them.  Ids is the set of event ids; the graph's nodes are    *)
(* the ids its edges mention.                                              *)
(***************************************************************************)
EXTENDS Integers, Sequences

CONSTANT Ids

Edges == Ids \X Ids

\* S contains every child of its members.
Closed(E, S) == \A edge \in E : edge[1] \in S => edge[2] \in S

\* What the breadth-first search of isAncestorOf decides: b lies in every
\* closed set that holds a.  The first line of the method answers FALSE for
\* an id and itself, whatever the edges are.
IsAncestorOf(E, a, b) ==
    /\ a # b
    /\ \A S \in SUBSET Ids : (a \in S /\ Closed(E, S)) => b \in S

\* Faulty variant: the check asks for the edge's own direction.
WouldRepeatPath(E, from, to) == IsAncestorOf(E, from, to)

WouldCreateCycle(E, from, to) == IsAncestorOf(E, to, from)

\* The calls addEdge(parents[1], child), addEdge(parents[2], child), ... of one
\* emit.  The first that would close a cycle throws; the ones before it stay.
\* Every edge of the calls ends in child, so none of them changes what child
\* reaches, and each call's check may be taken on the edges before the first.
Refused(E, parents, child) ==
    {i \in DOMAIN parents : WouldCreateCycle(E, parents[i], child)}

AddEdges(E, parents, child) ==
    E \cup {<<parents[i], child>> :
                i \in {k \in DOMAIN parents :
                          \A r \in Refused(E, parents, child) : k < r}}

=============================================================================
