------------------------ MODULE AdversarialValidator ------------------------
(***************************************************************************)
(* The admission pipeline (security/adversarial-resilience.ts): sanitizer, *)
(* timestamp policy, nonce cache, rate limiter and equivocation detector   *)
(* around one synchronous validate.  Every check runs and keeps its effect *)
(* whatever the others say, so a refused event leaves traces as well.      *)
(*                                                                         *)
(* now is Date.now(), which does not go back.  The sanitizer's verdict is  *)
(* part of the event.  Tokens are counted in the units refilled, Token of  *)
(* them to an event.                                                       *)
(***************************************************************************)
EXTENDS Integers, Sequences, FiniteSets

CONSTANTS
    EventIds,
    Events,                 \* the events presented
    Principals,             \* "anonymous" among them, if events may lack one
    Ticks,                  \* the ticks metadata may name
    Falsy,                  \* those of them that are falsy: 0 and the empty string
    NoTimestamp,
    NoTick,
    NoId,
    Anonymous,              \* the principal of an event that names none
    windowMs,
    bucketSizeMs,
    maxNoncesPerBucket,
    maxFutureMs,
    maxPastMs,
    capacity,
    refillRatePerMs,
    Token,
    rejectOnRateLimit,
    MaxTime                 \* bound on the clock and on timestamps

Times == 0..MaxTime

ASSUME ConfigAssumption ==
    /\ windowMs \in Nat /\ maxFutureMs \in Nat /\ maxPastMs \in Nat
    /\ bucketSizeMs \in Nat \ {0} /\ maxNoncesPerBucket \in Nat \ {0}
    /\ capacity \in Nat /\ refillRatePerMs \in Nat /\ Token \in Nat \ {0}
    /\ rejectOnRateLimit \in BOOLEAN
    /\ MaxTime \in Nat
ASSUME MarkersAssumption ==
    /\ Anonymous \in Principals /\ Falsy \subseteq Ticks
    /\ NoTimestamp \notin Times /\ NoTick \notin Ticks \cup Times
    /\ NoId \notin EventIds

EventRecords ==
    [id : EventIds, timestamp : Times \cup {NoTimestamp}, principal : Principals,
     tick : Ticks \cup {NoTick}, sane : BOOLEAN]

ASSUME EventsAssumption == Events \subseteq EventRecords

VARIABLES
    now,
    nonces,         \* nonces[b]: the ids in bucket b, none if it is absent
    tokens,         \* tokens[p] at lastRefill[p]: a full bucket is as good as
    lastRefill,     \*     none, so a principal not seen yet has one
    seen,           \* seen[p][tick]: the id recorded, NoId if none
    admitted,       \* the events allowed
    granted         \* granted[p]: when the limiter let an event of p through

vars == <<now, nonces, tokens, lastRefill, seen, admitted, granted>>

bucket(ts) == ts \div bucketSizeMs

Buckets == {bucket(ts) : ts \in Times}

Init ==
    /\ now = 0
    /\ nonces = [b \in Buckets |-> {}]
    /\ tokens = [p \in Principals |-> capacity]
    /\ lastRefill = [p \in Principals |-> 0]
    /\ seen = [p \in Principals |-> [t \in Ticks \cup Times |-> NoId]]
    /\ admitted = {}
    /\ granted = [p \in Principals |-> <<>>]

-----------------------------------------------------------------------------
(* The checks: what each says of an event, and what it keeps.              *)

TimestampValid(ts) == ts <= now + maxFutureMs /\ ts >= now - maxPastMs

\* The answer of checkAndRegister.
Fresh(id, ts) ==
    /\ now - ts <= windowMs /\ ts - now <= windowMs
    /\ id \notin nonces[bucket(ts)]
    /\ Cardinality(nonces[bucket(ts)]) < maxNoncesPerBucket

\* Faulty: the bucket the window begins in goes too.
ExpiredToo(b) == b <= bucket(now - windowMs)

\* evictExpired, which only a registration calls.
Expired(b) == b < bucket(now - windowMs)

\* Faulty: nothing is evicted.
RegisterOnly(id, ts) == nonces' = [nonces EXCEPT ![bucket(ts)] = @ \cup {id}]

Register(id, ts) ==
    nonces' = [b \in Buckets |-> IF Expired(b) THEN {}
                                 ELSE IF b = bucket(ts) THEN nonces[b] \cup {id}
                                 ELSE nonces[b]]

CheckAndRegister(id, ts) ==
    IF Fresh(id, ts) THEN Register(id, ts) ELSE UNCHANGED nonces

Refilled(p) ==
    LET all == tokens[p] + (now - lastRefill[p]) * refillRatePerMs
    IN  IF all < capacity THEN all ELSE capacity

CanConsume(p) == Refilled(p) >= Token

\* Faulty: a call that is refused does not move lastRefill.
ConsumeRefillsTwice(p) ==
    /\ tokens' = [tokens EXCEPT ![p] = IF CanConsume(p) THEN Refilled(p) - Token
                                                        ELSE Refilled(p)]
    /\ lastRefill' = IF CanConsume(p) THEN [lastRefill EXCEPT ![p] = now] ELSE lastRefill
    /\ granted' = [granted EXCEPT ![p] = IF CanConsume(p) THEN Append(@, now) ELSE @]

Consume(p) ==
    /\ tokens' = [tokens EXCEPT ![p] = IF CanConsume(p) THEN Refilled(p) - Token
                                                        ELSE Refilled(p)]
    /\ lastRefill' = [lastRefill EXCEPT ![p] = now]
    /\ granted' = [granted EXCEPT ![p] = IF CanConsume(p) THEN Append(@, now) ELSE @]

\* The metadata's tick, or else the timestamp.
TickOf(e) ==
    IF e.tick # NoTick THEN e.tick
    ELSE IF e.timestamp # NoTimestamp THEN e.timestamp ELSE NoTick

\* The condition under which the detector is asked.  A falsy tick is as good
\* as none, and the timestamp does not take its place.
NamesTick(e) == e.principal # Anonymous /\ TickOf(e) \notin Falsy \cup {NoTick}

Equivocates(e) ==
    /\ NamesTick(e)
    /\ seen[e.principal][TickOf(e)] \notin {NoId, e.id}

\* Faulty: the conflicting event replaces the one recorded.
RecordLatest(e) ==
    IF NamesTick(e)
       THEN seen' = [seen EXCEPT ![e.principal][TickOf(e)] = e.id]
       ELSE UNCHANGED seen

Record(e) ==
    IF NamesTick(e) /\ ~Equivocates(e)
       THEN seen' = [seen EXCEPT ![e.principal][TickOf(e)] = e.id]
       ELSE UNCHANGED seen

-----------------------------------------------------------------------------
Allowed(e) ==
    /\ e.sane
    /\ e.timestamp # NoTimestamp =>
          TimestampValid(e.timestamp) /\ Fresh(e.id, e.timestamp)
    /\ rejectOnRateLimit => CanConsume(e.principal)
    /\ ~Equivocates(e)

validate(e) ==
    /\ IF e.timestamp # NoTimestamp THEN CheckAndRegister(e.id, e.timestamp)
                                    ELSE UNCHANGED nonces
    /\ Consume(e.principal)
    /\ Record(e)
    /\ admitted' = IF Allowed(e) THEN admitted \cup {e} ELSE admitted
    /\ UNCHANGED now

TimePasses ==
    /\ now < MaxTime
    /\ now' = now + 1
    /\ UNCHANGED <<nonces, tokens, lastRefill, seen, admitted, granted>>

Next == (\E e \in Events : validate(e)) \/ TimePasses

Spec == Init /\ [][Next]_vars

-----------------------------------------------------------------------------
(* Properties.                                                             *)

TypeOK ==
    /\ now \in Times
    /\ nonces \in [Buckets -> SUBSET EventIds]
    /\ tokens \in [Principals -> 0..capacity]
    /\ lastRefill \in [Principals -> Times]
    /\ seen \in [Principals -> [Ticks \cup Times -> EventIds \cup {NoId}]]
    /\ admitted \subseteq Events
    /\ granted \in [Principals -> Seq(Times)]

\* An event that was admitted is not fresh again, at any later time: its nonce
\* leaves the cache only when its timestamp has left the window, although time
\* is rounded to buckets and only registrations evict.
NeverFreshAgain ==
    \A e \in admitted : e.timestamp # NoTimestamp => ~Fresh(e.id, e.timestamp)

\* Two events admitted of one principal for one tick are one event, whatever
\* else was refused or admitted meanwhile.  It says nothing of a falsy tick: of
\* two conflicting events at tick 0 the code admits both.
NoEquivocation ==
    \A e, f \in admitted :
        (e.principal = f.principal /\ TickOf(e) = TickOf(f) /\ NamesTick(e)) => e.id = f.id

\* Between any two grants of a principal, itself and all between them counted,
\* lie no more tokens than a full bucket and what was refilled meanwhile.
RateBounded ==
    \A p \in Principals : \A j \in DOMAIN granted[p] : \A i \in 1..j :
        (j - i + 1) * Token
            <= capacity + (granted[p][j] - granted[p][i]) * refillRatePerMs

\* However long the pipeline runs, the cache holds no more buckets than the
\* window before and after one instant has, and none above its limit.
NoncesBounded ==
    /\ Cardinality({b \in Buckets : nonces[b] # {}})
          <= (2 * windowMs + bucketSizeMs - 1) \div bucketSizeMs + 1
    /\ \A b \in Buckets : Cardinality(nonces[b]) <= maxNoncesPerBucket

=============================================================================
