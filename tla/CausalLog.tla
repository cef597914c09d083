----------------------------- MODULE CausalLog -----------------------------
(***************************************************************************)
(* What the event store promises its readers: a log that is empty or grows *)
(* at its end, one event per id, each event after every event it refers    *)
(* to.  The only other step is to forget everything.                       *)
(***************************************************************************)
EXTENDS Integers, Sequences

CONSTANT Events         \* records with fields id, parents (a sequence), causes

VARIABLE log

LoggedIds == {log[i].id : i \in DOMAIN log}

References(e) == {e.parents[i] : i \in DOMAIN e.parents} \cup e.causes

Extend(e) ==
    /\ e.id \notin LoggedIds
    /\ References(e) \subseteq LoggedIds
    /\ log' = Append(log, e)

Clear == log' = <<>>

Init == log = <<>>

Next == (\E e \in Events : Extend(e)) \/ Clear

Spec == Init /\ [][Next]_log

=============================================================================
