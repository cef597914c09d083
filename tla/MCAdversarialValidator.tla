----------------------- MODULE MCAdversarialValidator -----------------------
(* Instances of AdversarialValidator for TLC. *)
EXTENDS AdversarialValidator

CONSTANTS i1, i2, p1, t1, zero

Event(id, timestamp, principal, tick, sane) ==
    [id |-> id, timestamp |-> timestamp, principal |-> principal, tick |-> tick,
     sane |-> sane]

\* One id at each time but the last and the other at some, with the time, t1 or
\* the falsy tick; one without a timestamp, one the sanitizer refuses, one
\* without a principal.
TickAt(ts) == CASE ts = 1 -> NoTick [] ts = 4 -> zero [] OTHER -> t1

MCEvents ==
    { Event(i1, ts, p1, TickAt(ts), TRUE) : ts \in 0..4 }
    \cup { Event(i2, ts, p1, TickAt(ts), TRUE) : ts \in {1, 4} }
    \cup { Event(i2, NoTimestamp, p1, t1, TRUE), Event(i2, 3, p1, t1, FALSE),
           Event(i2, 3, Anonymous, NoTick, TRUE) }

=============================================================================
