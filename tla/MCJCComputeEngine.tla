------------------------- MODULE MCJCComputeEngine -------------------------
(* Instances of the engine for TLC. *)
EXTENDS EngineQueries

CONSTANTS a, b, c

Event(id, parents, causes, defect) ==
    [id |-> id, parents |-> parents, causes |-> causes, defect |-> defect]

\* A chain of three, an event tied to another by its causality list only,
\* re-emissions with other parents, one of them itself, one event stringify
\* throws on, one without a type and one with a wrong hash.
MCEvents ==
    { Event(a, <<>>, {}, "none"),
      Event(b, <<a>>, {}, "none"),
      Event(c, <<b>>, {}, "mismatch"),
      Event(c, <<>>, {a}, "none"),
      Event(a, <<c, b>>, {}, "none"),
      Event(a, <<a>>, {}, "none"),
      Event(c, <<a>>, {}, "hash"),
      Event(a, <<>>, {}, "structure") }

\* The reducer throws on c before b, which c need not refer to.
MCNeeds == [id \in {a, b, c} |-> IF id = c THEN {b} ELSE {}]

\* Subscribers differ in nothing but their names.
SubscriberSymmetry == Permutations(Subscribers)

\* The closed form of replay is what the loop computes.
ASSUME \A h \in UNION {[1..n -> MCEvents] : n \in 0..3} :
          LET r == RunReplay(h)
          IN  /\ r.threw = ReplayThrows(h)
              /\ ~r.threw => r.state = Replay(h)

=============================================================================
