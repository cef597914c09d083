---------------------------- MODULE MCEventSync ----------------------------
(* Instances of EventSync for TLC. *)
EXTENDS EventSync

CONSTANTS a, b, c, n1, n2

Event(id, parents, origin) == [id |-> id, parents |-> parents, origin |-> origin]

\* A root on each of two nodes and a merge of both on the second.
MCEvents == { Event(a, <<>>, n1), Event(b, <<>>, n2), Event(c, <<b, a>>, n2) }

\* The reducer throws on c before a.
MCNeeds == [id \in {a, b, c} |-> IF id = c THEN {a} ELSE {}]

\* Two clocks that agree, and then one set back: c is older than its parents.
MCTimestamp == [id \in Ids |-> IF id = c THEN 0 ELSE 1]
MCRank == [id \in Ids |-> CASE id = a -> 1 [] id = b -> 2 [] id = c -> 3]

=============================================================================
