--------------------- MODULE AdversarialValidatorProofs ---------------------
(***************************************************************************)
(* Safety of the admission pipeline, for every set of events, every limit  *)
(* and every bound on the clock.                                           *)
(***************************************************************************)
EXTENDS AdversarialValidator, FiniteSetTheorems, TLAPS

-----------------------------------------------------------------------------
(* Arithmetic.                                                             *)

\* Rounding to buckets keeps the order of times, those before zero included.
LEMMA BucketsOrdered ==
    ASSUME NEW k \in Nat \ {0}, NEW x \in Int, NEW y \in Int, x <= y
    PROVE  x \div k <= y \div k
  BY SMT

\* A quotient is known by its remainder.
LEMMA QuotientUnique ==
    ASSUME NEW k \in Nat \ {0}, NEW a \in Int, NEW w \in 0..(k - 1)
    PROVE  (k * a + w) \div k = a
<1> DEFINE m == (k * a + w) \div k
           n == (k * a + w) % k
<1>1. m \in Int /\ n \in 0..(k - 1) /\ k * a + w = k * m + n
  OBVIOUS
<1> HIDE DEF m, n
<1>2. CASE a > m
  <2>1. k * (a - m) >= k
    BY <1>1, <1>2, SMT
  <2>. QED  BY <1>1, <2>1, SMT
<1>3. CASE a < m
  <2>1. k * (m - a) >= k
    BY <1>1, <1>3, SMT
  <2>. QED  BY <1>1, <2>1, SMT
<1>4. m = a
  BY <1>1, <1>2, <1>3
<1>. QED  BY <1>4 DEF m

\* Products of whole numbers are whole numbers.
LEMMA ProductsTyped == \A x, y \in Int : x * y \in Int
OBVIOUS

\* What is refilled in two stretches is what is refilled in one.
LEMMA RefillsAdd ==
    ASSUME NEW a \in Int, NEW b \in Int, NEW c \in Int, NEW r \in Int
    PROVE  (b - a) * r + (c - b) * r = (c - a) * r
  BY SMT

\* A span of time that is not negative refills what is not negative.
LEMMA RefillsNat ==
    ASSUME NEW a \in Nat, NEW b \in Nat, NEW r \in Nat, a <= b
    PROVE  (b - a) * r \in Nat
  BY SMT

-----------------------------------------------------------------------------
(* Types.                                                                  *)

LEMMA EventTyped ==
    ASSUME NEW e \in Events
    PROVE  /\ e.id \in EventIds /\ e.principal \in Principals
           /\ e.timestamp \in Times \cup {NoTimestamp}
           /\ e.sane \in BOOLEAN
           /\ TickOf(e) \in Ticks \cup Times \cup {NoTick}
  BY EventsAssumption DEF EventRecords, TickOf

LEMMA BucketTyped == ASSUME NEW ts \in Times PROVE bucket(ts) \in Buckets
  BY DEF Buckets

LEMMA GrantTyped ==
    ASSUME NEW g \in Seq(Times), NEW i \in DOMAIN g
    PROVE  i \in Nat \ {0} /\ i <= Len(g) /\ g[i] \in Times /\ g[i] \in Nat
<1>1. i \in 1..Len(g) /\ g[i] \in Times
  OBVIOUS
<1>. QED  BY <1>1, ConfigAssumption DEF Times

LEMMA RefilledTyped ==
    ASSUME TypeOK, NEW p \in Principals, lastRefill[p] <= now
    PROVE  /\ Refilled(p) \in 0..capacity
           /\ Refilled(p) <= tokens[p] + (now - lastRefill[p]) * refillRatePerMs
<1>1. now \in Nat /\ lastRefill[p] \in Nat /\ tokens[p] \in 0..capacity
  BY ConfigAssumption DEF TypeOK, Times
<1>2. (now - lastRefill[p]) * refillRatePerMs \in Nat
  BY <1>1, RefillsNat, ConfigAssumption
<1> DEFINE refill == (now - lastRefill[p]) * refillRatePerMs
<1>3. refill \in Nat
  BY <1>2
<1>4. Refilled(p) = IF tokens[p] + refill < capacity THEN tokens[p] + refill ELSE capacity
  BY DEF Refilled
<1> HIDE DEF refill
<1>5. Refilled(p) \in 0..capacity /\ Refilled(p) <= tokens[p] + refill
  BY <1>1, <1>3, <1>4, ConfigAssumption
<1>. QED  BY <1>5 DEF refill

-----------------------------------------------------------------------------
(* The inductive invariant.  An admitted event is in its bucket, or else   *)
(* its timestamp has left the window; it is what is recorded for its tick; *)
(* and what a principal was granted since any grant, with the tokens it    *)
(* has left, is covered by a full bucket and the refill since.             *)

NoncesKept ==
    \A e \in admitted : e.timestamp # NoTimestamp =>
        e.id \in nonces[bucket(e.timestamp)] \/ now - e.timestamp > windowMs

TicksRecorded ==
    \A e \in admitted :
        NamesTick(e) => seen[e.principal][TickOf(e)] = e.id

RefillsPast == \A p \in Principals : lastRefill[p] <= now

GrantsCovered ==
    \A p \in Principals : \A i \in DOMAIN granted[p] :
        (Len(granted[p]) - i + 1) * Token + tokens[p]
            <= capacity + (lastRefill[p] - granted[p][i]) * refillRatePerMs

IInv == TypeOK /\ NoncesKept /\ TicksRecorded /\ RefillsPast /\ GrantsCovered /\ RateBounded

LEMMA InitInv == Init => IInv
<1> SUFFICES ASSUME Init PROVE IInv
  OBVIOUS
<1>1. TypeOK
  BY ConfigAssumption DEF Init, TypeOK, Times
<1>2. NoncesKept /\ TicksRecorded
  BY DEF Init, NoncesKept, TicksRecorded
<1>3. RefillsPast
  BY DEF Init, RefillsPast
<1>4. GrantsCovered /\ RateBounded
  BY DEF Init, GrantsCovered, RateBounded
<1>. QED  BY <1>1, <1>2, <1>3, <1>4 DEF IInv

-----------------------------------------------------------------------------
(* What validate does to each part.                                        *)

LEMMA NoncesStep ==
    ASSUME IInv, NEW f \in Events, validate(f)
    PROVE  nonces' \in [Buckets -> SUBSET EventIds] /\ NoncesKept'
<1>1. nonces' \in [Buckets -> SUBSET EventIds]
  <2>1. nonces \in [Buckets -> SUBSET EventIds] /\ f.id \in EventIds
    BY EventTyped DEF IInv, TypeOK
  <2>2. CASE Register(f.id, f.timestamp)
    BY <2>1, <2>2 DEF Register
  <2>3. CASE UNCHANGED nonces
    BY <2>1, <2>3
  <2>. QED  BY <2>2, <2>3 DEF validate, CheckAndRegister
<1>2. ASSUME NEW e \in admitted', e.timestamp # NoTimestamp, ~(now' - e.timestamp > windowMs)
      PROVE  e.id \in nonces'[bucket(e.timestamp)]
  <2>0. now' = now /\ e \in Events /\ now \in Nat
    BY ConfigAssumption DEF validate, IInv, TypeOK, Times
  <2>1. e.timestamp \in Times /\ e.timestamp \in Nat /\ now - windowMs <= e.timestamp
    BY <1>2, <2>0, EventTyped, ConfigAssumption DEF Times
  <2>2. bucket(e.timestamp) \in Buckets
    BY <2>1, BucketTyped
  <2>3. bucket(now - windowMs) <= bucket(e.timestamp)
    BY <2>0, <2>1, BucketsOrdered, ConfigAssumption DEF bucket
  <2>4. bucket(now - windowMs) \in Int /\ bucket(e.timestamp) \in Int
    BY <2>0, <2>1, ConfigAssumption DEF bucket
  <2>5. ~Expired(bucket(e.timestamp))
    BY <2>3, <2>4 DEF Expired
  <2>6. CASE e \in admitted
    <3>1. e.id \in nonces[bucket(e.timestamp)]
      BY <1>2, <2>0, <2>6 DEF IInv, NoncesKept
    <3>. QED  BY <2>2, <2>5, <3>1 DEF validate, CheckAndRegister, Register
  <2>7. CASE e \notin admitted
    <3>1. e = f /\ Allowed(f)
      BY <2>7 DEF validate
    <3>2. Register(e.id, e.timestamp)
      BY <1>2, <3>1 DEF Allowed, validate, CheckAndRegister
    <3>. QED  BY <2>2, <2>5, <3>2 DEF Register
  <2>. QED  BY <2>6, <2>7
<1>. QED  BY <1>1, <1>2 DEF NoncesKept

LEMMA TicksStep ==
    ASSUME IInv, NEW f \in Events, validate(f)
    PROVE  /\ seen' \in [Principals -> [Ticks \cup Times -> EventIds \cup {NoId}]]
           /\ TicksRecorded'
<1>1. seen' \in [Principals -> [Ticks \cup Times -> EventIds \cup {NoId}]]
  <2>1. seen \in [Principals -> [Ticks \cup Times -> EventIds \cup {NoId}]]
    BY DEF IInv, TypeOK
  <2>2. CASE UNCHANGED seen
    BY <2>1, <2>2
  <2>3. CASE /\ TickOf(f) # NoTick
             /\ seen' = [seen EXCEPT ![f.principal][TickOf(f)] = f.id]
    <3>1. f.principal \in Principals /\ TickOf(f) \in Ticks \cup Times /\ f.id \in EventIds
      BY <2>3, EventTyped
    <3>. QED  BY <2>1, <2>3, <3>1
  <2>. QED  BY <2>2, <2>3 DEF validate, Record, NamesTick
<1>2. ASSUME NEW e \in admitted', NamesTick(e)
      PROVE  seen'[e.principal][TickOf(e)] = e.id
  <2>0. e \in Events
    BY DEF validate, IInv, TypeOK
  <2>1. e.principal \in Principals /\ TickOf(e) \in Ticks \cup Times /\ e.id # NoId
    BY <1>2, <2>0, EventTyped, MarkersAssumption DEF NamesTick
  <2>2. CASE e \in admitted
    <3>1. seen[e.principal][TickOf(e)] = e.id
      BY <1>2, <2>2 DEF IInv, TicksRecorded
    <3>2. CASE UNCHANGED seen
      BY <3>1, <3>2
    <3>3. CASE /\ NamesTick(f) /\ ~Equivocates(f)
               /\ seen' = [seen EXCEPT ![f.principal][TickOf(f)] = f.id]
      <4>1. CASE f.principal = e.principal /\ TickOf(f) = TickOf(e)
        <5>1. f.id = e.id
          BY <2>1, <3>1, <3>3, <4>1 DEF Equivocates
        <5>. QED  BY <2>1, <3>3, <4>1, <5>1 DEF IInv, TypeOK
      <4>2. CASE ~(f.principal = e.principal /\ TickOf(f) = TickOf(e))
        BY <2>1, <3>1, <3>3, <4>2, EventTyped DEF IInv, TypeOK
      <4>. QED  BY <4>1, <4>2
    <3>. QED  BY <3>2, <3>3 DEF validate, Record
  <2>3. CASE e \notin admitted
    <3>1. e = f /\ ~Equivocates(f)
      BY <2>3 DEF validate, Allowed
    <3>2. seen' = [seen EXCEPT ![f.principal][TickOf(f)] = f.id]
      BY <1>2, <3>1 DEF validate, Record
    <3>. QED  BY <2>1, <3>1, <3>2 DEF IInv, TypeOK
  <2>. QED  BY <2>2, <2>3
<1>. QED  BY <1>1, <1>2 DEF TicksRecorded

\* The grants a principal had are covered again after the refill; a new one is
\* paid for by the token it takes.
LEMMA GrantsStep ==
    ASSUME IInv, NEW f \in Events, validate(f)
    PROVE  /\ tokens' \in [Principals -> 0..capacity]
           /\ lastRefill' \in [Principals -> Times]
           /\ granted' \in [Principals -> Seq(Times)]
           /\ RefillsPast' /\ GrantsCovered' /\ RateBounded'
<1> DEFINE p == f.principal
<1>1. p \in Principals /\ now' = now /\ Consume(p)
  BY EventTyped DEF validate
<1>2. /\ now \in Times /\ now \in Nat /\ Token \in Nat \ {0} /\ capacity \in Nat
      /\ refillRatePerMs \in Nat
  BY ConfigAssumption DEF IInv, TypeOK, Times
<1>3. /\ tokens \in [Principals -> 0..capacity] /\ lastRefill \in [Principals -> Times]
      /\ granted \in [Principals -> Seq(Times)]
  BY DEF IInv, TypeOK
<1>4. /\ Refilled(p) \in 0..capacity
      /\ Refilled(p) <= tokens[p] + (now - lastRefill[p]) * refillRatePerMs
  BY <1>1, RefilledTyped DEF IInv, RefillsPast
<1> DEFINE left == IF CanConsume(p) THEN Refilled(p) - Token ELSE Refilled(p)
           grants == IF CanConsume(p) THEN Append(granted[p], now) ELSE granted[p]
<1>5. left \in 0..capacity
  BY <1>2, <1>4 DEF CanConsume
<1>6. grants \in Seq(Times)
  BY <1>1, <1>2, <1>3
<1>7. /\ tokens' = [tokens EXCEPT ![p] = left]
      /\ lastRefill' = [lastRefill EXCEPT ![p] = now]
      /\ granted' = [granted EXCEPT ![p] = grants]
  BY <1>1 DEF Consume
<1>8. /\ tokens'[p] = left /\ lastRefill'[p] = now /\ granted'[p] = grants
      /\ \A q \in Principals \ {p} :
            tokens'[q] = tokens[q] /\ lastRefill'[q] = lastRefill[q] /\ granted'[q] = granted[q]
  BY <1>1, <1>3, <1>7
<1>9. ASSUME NEW i \in DOMAIN grants
      PROVE  (Len(grants) - i + 1) * Token + left
                 <= capacity + (now - grants[i]) * refillRatePerMs
  <2> DEFINE g == granted[p]
             last == lastRefill[p]
  <2>1. g \in Seq(Times) /\ Len(g) \in Nat /\ last \in Nat /\ tokens[p] \in Nat
    BY <1>1, <1>2, <1>3 DEF Times
  <2>2. CASE i \in DOMAIN g
    <3>1. (Len(g) - i + 1) * Token + tokens[p] <= capacity + (last - g[i]) * refillRatePerMs
      BY <1>1, <2>2 DEF IInv, GrantsCovered
    <3>2. i \in Nat /\ g[i] \in Nat /\ grants[i] = g[i]
      <4>1. i \in Nat \ {0} /\ i <= Len(g) /\ g[i] \in Nat
        BY <2>1, <2>2, GrantTyped
      <4>2. now \in Times
        BY <1>2
      <4>. QED  BY <2>1, <4>1, <4>2
    <3>3. (last - g[i]) * refillRatePerMs + (now - last) * refillRatePerMs
              = (now - g[i]) * refillRatePerMs
      <4>1. g[i] \in Int /\ last \in Int /\ now \in Int /\ refillRatePerMs \in Int
        BY <1>2, <2>1, <3>2
      <4> HIDE DEF g, last
      <4>. QED  BY <4>1, RefillsAdd
    <3>4. (Len(grants) - i + 1) * Token + left = (Len(g) - i + 1) * Token + Refilled(p)
      <4>1. CASE CanConsume(p)
        <5>1. Len(grants) = Len(g) + 1 /\ left = Refilled(p) - Token
          BY <2>1, <4>1
        <5>. QED  BY <1>2, <1>4, <2>1, <3>2, <5>1
      <4>2. CASE ~CanConsume(p)
        BY <4>2
      <4>. QED  BY <4>1, <4>2
    <3> DEFINE A == (Len(g) - i + 1) * Token
               B == (last - g[i]) * refillRatePerMs
               C == (now - last) * refillRatePerMs
               D == (now - g[i]) * refillRatePerMs
    <3>5. A \in Int /\ B \in Int /\ C \in Int /\ D \in Int
      <4>1. /\ Len(g) - i + 1 \in Int /\ last - g[i] \in Int /\ now - last \in Int
            /\ now - g[i] \in Int /\ Token \in Int /\ refillRatePerMs \in Int
        BY <1>2, <2>1, <3>2
      <4>. QED  BY <4>1, ProductsTyped
    <3>6. A + tokens[p] <= capacity + B /\ B + C = D /\ Refilled(p) <= tokens[p] + C
      BY <3>1, <3>3, <1>4
    <3>7. (Len(grants) - i + 1) * Token + left = A + Refilled(p)
      BY <3>4
    <3> HIDE DEF A, B, C, D, g, last
    <3>8. A + Refilled(p) <= capacity + D
      BY <1>2, <1>4, <2>1, <3>5, <3>6
    <3>. QED  BY <3>2, <3>7, <3>8 DEF D
  <2>3. CASE i \notin DOMAIN g
    <3>1. CanConsume(p) /\ Len(grants) = Len(g) + 1 /\ i = Len(g) + 1 /\ grants[i] = now
      BY <1>2, <2>1, <2>3
    <3>2. (Len(grants) - i + 1) * Token = Token /\ (now - grants[i]) * refillRatePerMs = 0
      BY <1>2, <2>1, <3>1
    <3>. QED  BY <1>2, <1>4, <3>1, <3>2
  <2>. QED  BY <2>2, <2>3
<1>10. ASSUME NEW j \in DOMAIN grants, NEW i \in 1..j
       PROVE  (j - i + 1) * Token <= capacity + (grants[j] - grants[i]) * refillRatePerMs
  <2>1. granted[p] \in Seq(Times)
    BY <1>1, <1>3
  <2>2. CASE j \in DOMAIN granted[p]
    <3>1. grants[j] = granted[p][j] /\ grants[i] = granted[p][i]
      BY <1>2, <2>1, <2>2
    <3>. QED  BY <1>1, <2>2, <3>1 DEF IInv, RateBounded
  <2>3. CASE j \notin DOMAIN granted[p]
    <3>1. j = Len(grants) /\ grants[j] = now
      BY <1>2, <2>1, <2>3
    <3>2. i \in DOMAIN grants /\ i \in Nat /\ grants[i] \in Nat
      <4>1. Len(grants) \in Nat /\ DOMAIN grants = 1..Len(grants)
        BY <1>6
      <4>2. i \in DOMAIN grants
        BY <3>1, <4>1
      <4>. QED  BY <1>6, <4>2, GrantTyped
    <3>3. (Len(grants) - i + 1) * Token + left
              <= capacity + (now - grants[i]) * refillRatePerMs
      BY <1>9, <3>2
    <3> DEFINE A == (Len(grants) - i + 1) * Token
               D == (now - grants[i]) * refillRatePerMs
    <3>4. A \in Int /\ D \in Int
      <4>1. Len(grants) \in Nat
        BY <1>6
      <4> HIDE DEF grants
      <4>2. A \in Int
        BY <1>2, <3>2, <4>1
      <4>3. D \in Int
        BY <1>2, <3>2
      <4>. QED  BY <4>2, <4>3
    <3>5. A + left <= capacity + D
      BY <3>3
    <3> HIDE DEF A, D, left
    <3>6. A <= capacity + D
      BY <1>2, <1>5, <3>4, <3>5
    <3>. QED  BY <3>1, <3>6 DEF A, D
  <2>. QED  BY <2>2, <2>3
<1>11. tokens' \in [Principals -> 0..capacity] /\ lastRefill' \in [Principals -> Times]
       /\ granted' \in [Principals -> Seq(Times)]
  BY <1>1, <1>2, <1>3, <1>5, <1>6, <1>7
<1> HIDE DEF left, grants, p
<1>12. RefillsPast'
  BY <1>1, <1>2, <1>8 DEF IInv, RefillsPast
<1>13. GrantsCovered'
  BY <1>1, <1>8, <1>9 DEF IInv, GrantsCovered
<1>14. RateBounded'
  BY <1>1, <1>8, <1>10 DEF IInv, RateBounded
<1>. QED  BY <1>11, <1>12, <1>13, <1>14

LEMMA NextInv == IInv /\ [Next]_vars => IInv'
<1> SUFFICES ASSUME IInv, [Next]_vars PROVE IInv'
  OBVIOUS
<1>1. ASSUME NEW f \in Events, validate(f) PROVE IInv'
  <2>1. now' \in Times /\ admitted' \subseteq Events
    BY <1>1 DEF IInv, TypeOK, validate
  <2>2. TypeOK'
    BY <1>1, <2>1, NoncesStep, TicksStep, GrantsStep DEF TypeOK
  <2>. QED  BY <1>1, <2>2, NoncesStep, TicksStep, GrantsStep DEF IInv
<1>2. CASE TimePasses
  <2>1. now \in Nat /\ now' = now + 1 /\ now' \in Times
    BY <1>2, ConfigAssumption DEF IInv, TypeOK, Times, TimePasses
  <2>2. TypeOK'
    BY <1>2, <2>1 DEF IInv, TypeOK, TimePasses
  <2>3. NoncesKept'
    <3>1. ASSUME NEW e \in admitted, e.timestamp # NoTimestamp, now - e.timestamp > windowMs
          PROVE  now' - e.timestamp > windowMs
      <4>1. e.timestamp \in Nat
        BY <3>1, EventTyped, ConfigAssumption DEF IInv, TypeOK, Times
      <4>. QED  BY <2>1, <3>1, <4>1, ConfigAssumption
    <3>. QED  BY <1>2, <3>1 DEF IInv, NoncesKept, TimePasses, bucket
  <2>4. TicksRecorded'
    BY <1>2 DEF IInv, TicksRecorded, TimePasses, TickOf, NamesTick
  <2>5. RefillsPast'
    <3>1. \A p \in Principals : lastRefill[p] \in Nat
      BY ConfigAssumption DEF IInv, TypeOK, Times
    <3>. QED  BY <1>2, <2>1, <3>1 DEF IInv, RefillsPast, TimePasses
  <2>6. GrantsCovered' /\ RateBounded'
    BY <1>2 DEF IInv, GrantsCovered, RateBounded, TimePasses
  <2>. QED  BY <2>2, <2>3, <2>4, <2>5, <2>6 DEF IInv
<1>3. CASE UNCHANGED vars
  BY <1>3 DEF IInv, TypeOK, NoncesKept, TicksRecorded, RefillsPast, GrantsCovered,
              RateBounded, vars, bucket, TickOf, NamesTick
<1>. QED  BY <1>1, <1>2, <1>3 DEF Next

-----------------------------------------------------------------------------
(* The theorems.                                                           *)

THEOREM InductiveInvariant == Spec => []IInv
<1>. QED  BY InitInv, NextInv, PTL DEF Spec

\* Types hold: nonces stay in their buckets and no bucket of tokens is
\* overdrawn or overfull.
THEOREM TypeCorrect == Spec => []TypeOK
<1>1. IInv => TypeOK
  BY DEF IInv
<1>. QED  BY <1>1, InductiveInvariant, PTL

LEMMA KeptNotFresh == IInv => NeverFreshAgain
<1> SUFFICES ASSUME IInv, NEW e \in admitted, e.timestamp # NoTimestamp
             PROVE  ~Fresh(e.id, e.timestamp)
  BY DEF NeverFreshAgain
<1>1. CASE e.id \in nonces[bucket(e.timestamp)]
  BY <1>1 DEF Fresh
<1>2. CASE now - e.timestamp > windowMs
  <2>1. e.timestamp \in Nat /\ now \in Nat /\ windowMs \in Nat
    BY EventTyped, ConfigAssumption DEF IInv, TypeOK, Times
  <2>. QED  BY <1>2, <2>1 DEF Fresh
<1>. QED  BY <1>1, <1>2 DEF IInv, NoncesKept

\* No event checkAndRegister let through is fresh again, whatever the window and
\* the size of the buckets its nonces expire in.
THEOREM NeverFreshAgainHolds == Spec => []NeverFreshAgain
<1>. QED  BY KeptNotFresh, InductiveInvariant, PTL

LEMMA RecordedNoEquivocation == IInv => NoEquivocation
<1> SUFFICES ASSUME IInv, NEW e \in admitted, NEW f \in admitted,
                    e.principal = f.principal, TickOf(e) = TickOf(f), NamesTick(e)
             PROVE  e.id = f.id
  BY DEF NoEquivocation
<1>1. NamesTick(f)
  BY DEF NamesTick
<1>. QED  BY <1>1 DEF IInv, TicksRecorded

\* Two events admitted of one principal for one tick that is not falsy are one
\* event.
THEOREM NoEquivocationHolds == Spec => []NoEquivocation
<1>. QED  BY RecordedNoEquivocation, InductiveInvariant, PTL

\* No principal is granted more over any span than a full bucket and the refill
\* of that span.
THEOREM RateBoundedHolds == Spec => []RateBounded
<1>1. IInv => RateBounded
  BY DEF IInv
<1>. QED  BY <1>1, InductiveInvariant, PTL

-----------------------------------------------------------------------------
(* The size of the nonce cache.  What is cached lies in the window around  *)
(* the last registration, which evicted what was before it.                *)

Cached == {b \in Buckets : nonces[b] # {}}

CachedInWindow ==
    \E t \in 0..now : \A b \in Cached : bucket(t - windowMs) <= b /\ b <= bucket(t + windowMs)

BucketsLimited ==
    \A b \in Buckets : IsFiniteSet(nonces[b]) /\ Cardinality(nonces[b]) <= maxNoncesPerBucket

\* A span of d milliseconds touches at most one bucket more than it would when
\* it began with one.
LEMMA SpanOfBuckets ==
    ASSUME NEW k \in Nat \ {0}, NEW x \in Int, NEW d \in Nat
    PROVE  (x + d) \div k <= x \div k + (d + k - 1) \div k
<1> DEFINE q == x \div k
           r == x % k
<1>1. q \in Int /\ r \in 0..(k - 1) /\ x = k * q + r
  OBVIOUS
<1>2. (x + d) \div k = q + (r + d) \div k
  <2>1. x + d = k * q + (r + d) /\ r + d \in Int
    BY <1>1
  <2> DEFINE u == r + d
             v == u \div k
             w == u % k
  <2>2. v \in Int /\ w \in 0..(k - 1) /\ u = k * v + w
    BY <2>1
  <2>3. x + d = k * (q + v) + w
    BY <1>1, <2>1, <2>2
  <2>4. (x + d) \div k = q + v
    <3> HIDE DEF v, w, u, q, r
    <3>1. q + v \in Int
      BY <1>1, <2>2
    <3>2. (k * (q + v) + w) \div k = q + v
      BY <2>2, <3>1, QuotientUnique
    <3>. QED  BY <2>3, <3>2
  <2>. QED  BY <2>4
<1>3. (r + d) \div k <= (d + k - 1) \div k
  <2>1. r + d \in Int /\ d + k - 1 \in Int /\ r + d <= d + k - 1
    BY <1>1
  <2>. QED  BY <2>1, BucketsOrdered
<1>4. (r + d) \div k \in Int /\ (d + k - 1) \div k \in Int
  BY <1>1
<1> HIDE DEF q, r
<1>5. q + (r + d) \div k <= q + (d + k - 1) \div k
  BY <1>1, <1>3, <1>4
<1>. QED  BY <1>2, <1>5 DEF q

LEMMA CacheInit == Init => CachedInWindow /\ BucketsLimited
<1> SUFFICES ASSUME Init PROVE CachedInWindow /\ BucketsLimited
  OBVIOUS
<1>1. Cached = {} /\ \A b \in Buckets : nonces[b] = {}
  BY DEF Init, Cached
<1>2. CachedInWindow
  BY <1>1 DEF Init, CachedInWindow
<1>3. BucketsLimited
  BY <1>1, FS_EmptySet, ConfigAssumption DEF BucketsLimited
<1>. QED  BY <1>2, <1>3

LEMMA RegisterCache ==
    ASSUME IInv, CachedInWindow, BucketsLimited, NEW f \in Events,
           validate(f), f.timestamp # NoTimestamp, Fresh(f.id, f.timestamp),
           Register(f.id, f.timestamp)
    PROVE  CachedInWindow' /\ BucketsLimited'
<1> DEFINE ts == f.timestamp
<1>1. ts \in Times /\ ts \in Nat /\ now \in Times /\ now \in Nat
  BY EventTyped, ConfigAssumption DEF IInv, TypeOK, Times
<1>2. now - windowMs <= ts /\ ts <= now + windowMs /\ windowMs \in Nat
  BY <1>1, ConfigAssumption DEF Fresh
<1>3. bucket(now - windowMs) <= bucket(ts) /\ bucket(ts) <= bucket(now + windowMs)
  BY <1>1, <1>2, BucketsOrdered, ConfigAssumption DEF bucket
<1>4. bucket(ts) \in Buckets
  BY <1>1, BucketTyped
<1>5. \A b \in Buckets : b \in Int
  BY ConfigAssumption DEF Buckets, bucket, Times
<1>6. bucket(now - windowMs) \in Int /\ bucket(now + windowMs) \in Int
  BY <1>1, <1>2, ConfigAssumption DEF bucket
<1>7. Cached' = {b \in Buckets : nonces'[b] # {}}
  BY DEF Cached
<1> HIDE DEF ts
<1>8. \A b \in Buckets : nonces'[b] = IF Expired(b) THEN {}
                                     ELSE IF b = bucket(ts) THEN nonces[b] \cup {f.id}
                                     ELSE nonces[b]
  BY DEF Register, ts
<1>9. PICK t \in 0..now : \A b \in Cached : bucket(t - windowMs) <= b /\ b <= bucket(t + windowMs)
  BY DEF CachedInWindow
<1>10. now' = now
  BY DEF validate
<1>11. CachedInWindow'
  <2>1. \A b \in Cached' : b = bucket(ts) \/ (b \in Cached /\ ~Expired(b))
    BY <1>7, <1>8 DEF Cached
  <2>2. \A b \in Cached' : bucket(now - windowMs) <= b
    BY <1>3, <1>4, <1>5, <1>6, <1>7, <2>1 DEF Expired
  <2>3. bucket(t + windowMs) <= bucket(now + windowMs) /\ bucket(t + windowMs) \in Int
    BY <1>1, <1>2, <1>9, BucketsOrdered, ConfigAssumption DEF bucket
  <2>4. \A b \in Cached' : b <= bucket(now + windowMs)
    BY <1>3, <1>4, <1>5, <1>6, <1>7, <1>9, <2>1, <2>3
  <2>5. now \in 0..now' /\ bucket(now - windowMs)' = bucket(now - windowMs)
        /\ bucket(now + windowMs)' = bucket(now + windowMs)
    BY <1>1, <1>10 DEF bucket
  <2>. QED  BY <1>1, <1>10, <2>2, <2>4, <2>5 DEF CachedInWindow, bucket
<1>12. ASSUME NEW b \in Buckets
       PROVE  IsFiniteSet(nonces'[b]) /\ Cardinality(nonces'[b]) <= maxNoncesPerBucket
  <2>1. IsFiniteSet(nonces[b]) /\ Cardinality(nonces[b]) <= maxNoncesPerBucket
    BY DEF BucketsLimited
  <2>2. Cardinality(nonces[b]) \in Nat /\ maxNoncesPerBucket \in Nat \ {0}
    BY <2>1, FS_CardinalityType, ConfigAssumption
  <2>3. CASE nonces'[b] = {}
    BY <2>2, <2>3, FS_EmptySet
  <2>4. CASE b = bucket(ts) /\ nonces'[b] = nonces[b] \cup {f.id}
    <3>1. Cardinality(nonces[b]) < maxNoncesPerBucket
      BY <2>4 DEF Fresh, ts
    <3>2. /\ IsFiniteSet(nonces[b] \cup {f.id})
          /\ \/ Cardinality(nonces[b] \cup {f.id}) = Cardinality(nonces[b])
             \/ Cardinality(nonces[b] \cup {f.id}) = Cardinality(nonces[b]) + 1
      BY <2>1, FS_AddElement
    <3>. QED  BY <2>2, <2>4, <3>1, <3>2
  <2>5. CASE nonces'[b] = nonces[b]
    BY <2>1, <2>5
  <2>. QED  BY <1>8, <2>3, <2>4, <2>5
<1>13. BucketsLimited'
  BY <1>12 DEF BucketsLimited, Buckets, bucket
<1>. QED  BY <1>11, <1>13

LEMMA CacheStep ==
    ASSUME IInv, CachedInWindow, BucketsLimited, [Next]_vars
    PROVE  CachedInWindow' /\ BucketsLimited'
<1>1. ASSUME UNCHANGED nonces, now' = now \/ now' = now + 1
      PROVE  CachedInWindow' /\ BucketsLimited'
  <2>1. now \in Nat
    BY ConfigAssumption DEF IInv, TypeOK, Times
  <2>2. 0..now \subseteq 0..now'
    BY <1>1, <2>1
  <2>3. Cached' = Cached
    BY <1>1 DEF Cached, Buckets, bucket
  <2>. QED  BY <1>1, <2>2, <2>3 DEF CachedInWindow, BucketsLimited, Buckets, bucket
<1>2. ASSUME NEW f \in Events, validate(f)
      PROVE  CachedInWindow' /\ BucketsLimited'
  <2>1. CASE /\ f.timestamp # NoTimestamp /\ Fresh(f.id, f.timestamp)
             /\ Register(f.id, f.timestamp)
    BY <1>2, <2>1, RegisterCache
  <2>2. CASE UNCHANGED nonces
    BY <1>1, <1>2, <2>2 DEF validate
  <2>. QED  BY <1>2, <2>1, <2>2 DEF validate, CheckAndRegister
<1>3. CASE TimePasses
  BY <1>1, <1>3 DEF TimePasses
<1>4. CASE UNCHANGED vars
  BY <1>1, <1>4 DEF vars
<1>. QED  BY <1>2, <1>3, <1>4 DEF Next

\* However long the pipeline runs, the cache stays within the buckets around
\* one instant, each within its limit.
THEOREM NoncesBoundedHolds == Spec => []NoncesBounded
<1>1. IInv /\ CachedInWindow /\ BucketsLimited => NoncesBounded
  <2> SUFFICES ASSUME IInv, CachedInWindow, BucketsLimited PROVE NoncesBounded
    OBVIOUS
  <2> DEFINE more == (2 * windowMs + bucketSizeMs - 1) \div bucketSizeMs
  <2>1. PICK t \in 0..now : \A b \in Cached : bucket(t - windowMs) <= b /\ b <= bucket(t + windowMs)
    BY DEF CachedInWindow
  <2> DEFINE first == bucket(t - windowMs)
             last == bucket(t + windowMs)
  <2>2. t \in Int /\ windowMs \in Nat /\ bucketSizeMs \in Nat \ {0}
    BY ConfigAssumption DEF IInv, TypeOK, Times
  <2>3. first \in Int /\ last \in Int /\ more \in Int
    BY <2>2 DEF bucket
  <2>4. last <= first + more
    <3>1. (t - windowMs) + 2 * windowMs = t + windowMs
      BY <2>2
    <3>2. t - windowMs \in Int /\ 2 * windowMs \in Nat
      BY <2>2
    <3>. QED  BY <2>2, <3>1, <3>2, SpanOfBuckets DEF bucket
  <2>5. more \in Nat
    <3>1. 0 <= 2 * windowMs + bucketSizeMs - 1 /\ 2 * windowMs + bucketSizeMs - 1 \in Int
      BY <2>2
    <3>2. 0 \div bucketSizeMs = 0
      BY <2>2
    <3>. QED  BY <2>2, <2>3, <3>1, <3>2, BucketsOrdered
  <2> HIDE DEF more, first, last
  <2>6. IsFiniteSet(first..last) /\ Cardinality(first..last) <= more + 1
    <3>1. Cardinality(first..last) = IF first > last THEN 0 ELSE last - first + 1
      BY <2>3, FS_Interval
    <3>. QED  BY <2>3, <2>4, <2>5, <3>1, FS_Interval
  <2>7. Cached \subseteq first..last
    <3>1. \A b \in Cached : b \in Int
      BY ConfigAssumption DEF Cached, Buckets, bucket, Times
    <3>. QED  BY <2>1, <2>3, <3>1 DEF first, last
  <2>8. Cardinality(Cached) <= more + 1
    <3>1. IsFiniteSet(Cached) /\ Cardinality(Cached) <= Cardinality(first..last)
      BY <2>6, <2>7, FS_Subset
    <3>2. Cardinality(Cached) \in Nat /\ Cardinality(first..last) \in Nat
      BY <2>6, <3>1, FS_CardinalityType
    <3>. QED  BY <2>5, <2>6, <3>1, <3>2
  <2>. QED  BY <2>8 DEF NoncesBounded, BucketsLimited, Cached, more
<1>2. IInv /\ CachedInWindow /\ BucketsLimited /\ [Next]_vars
          => (CachedInWindow /\ BucketsLimited)'
  BY CacheStep
<1>. QED  BY <1>1, <1>2, CacheInit, InitInv, NextInv, PTL DEF Spec

=============================================================================
