------------------------- MODULE PeerQuorumProofs -------------------------
(* Proofs about PeerQuorum, for every configuration and set of nodes.      *)
EXTENDS PeerQuorum, FiniteSetTheorems, WellFoundedInduction, TLAPS

-----------------------------------------------------------------------------
(* Induction and sums.                                                     *)

LEMMA Least ==
    ASSUME NEW T \in SUBSET Nat, T # {}
    PROVE  \E m \in T : \A n \in T : m <= n
<1> DEFINE R == {ss \in Nat \X Nat : ss[1] < ss[2]}
<1>1. IsWellFoundedOn(R, Nat)
  BY NatLessThanWellFounded DEF OpToRel
<1> HIDE DEF R
<1>2. PICK m \in T : \A n \in T : ~(<<n, m>> \in R)
  BY <1>1, WFMin
<1>3. \A n \in T : ~(n < m)
  BY <1>2 DEF R
<1>. QED  BY <1>3

LEMMA Induction ==
    ASSUME NEW S, 0 \in S, \A n \in Nat : n \in S => n + 1 \in S
    PROVE  Nat \subseteq S
<1> SUFFICES ASSUME Nat \ S # {} PROVE FALSE
  OBVIOUS
<1>1. PICK m \in Nat \ S : \A n \in Nat \ S : m <= n
  BY Least
<1>2. m # 0 /\ m - 1 \in Nat /\ ~(m <= m - 1)
  BY <1>1
<1>3. m - 1 \in S
  BY <1>1, <1>2
<1>. QED  BY <1>1, <1>2, <1>3

\* f has summed x up to its m-th interval.
Adds(f, x, m) ==
    /\ f \in [0..m -> Nat]
    /\ f[0] = 0
    /\ \A i \in 1..m : f[i] = f[i - 1] + x[i]

Sums(f, x) == Adds(f, x, Len(x))

LEMMA SumsExist ==
    ASSUME NEW x \in Seq(Nat)
    PROVE  \E f : Sums(f, x)
<1> DEFINE n == Len(x)
           T == {m \in Nat : m <= n => \E f : Adds(f, x, m)}
<1>0. n \in Nat /\ \A i \in 1..n : x[i] \in Nat
  OBVIOUS
<1>1. 0 \in T
  <2>1. Adds([i \in 0..0 |-> 0], x, 0)
    BY DEF Adds
  <2>. QED  BY <2>1
<1>2. ASSUME NEW m \in Nat, m \in T, m + 1 <= n PROVE m + 1 \in T
  <2>1. PICK f : Adds(f, x, m)
    BY <1>0, <1>2
  <2> DEFINE g == [i \in 0..(m + 1) |-> IF i = m + 1 THEN f[m] + x[m + 1] ELSE f[i]]
  <2>2. f[m] + x[m + 1] \in Nat
    BY <1>0, <1>2, <2>1 DEF Adds
  <2>3. g \in [0..(m + 1) -> Nat]
    BY <2>1, <2>2 DEF Adds
  <2>4. g[0] = 0
    BY <2>1 DEF Adds
  <2>5. ASSUME NEW i \in 1..(m + 1) PROVE g[i] = g[i - 1] + x[i]
    <3>1. CASE i = m + 1
      BY <2>1, <3>1 DEF Adds
    <3>2. CASE i \in 1..m
      BY <2>1, <3>2 DEF Adds
    <3>. QED  BY <3>1, <3>2
  <2> HIDE DEF g
  <2>6. Adds(g, x, m + 1)
    BY <2>3, <2>4, <2>5 DEF Adds
  <2>. QED  BY <2>6
<1>3. ASSUME NEW m \in Nat, m \in T PROVE m + 1 \in T
  <2>1. CASE m + 1 <= n
    BY <1>2, <1>3, <2>1
  <2>2. CASE ~(m + 1 <= n)
    BY <2>2
  <2>. QED  BY <2>1, <2>2
<1> HIDE DEF T
<1>4. n \in T
  BY <1>0, <1>1, <1>3, Induction
<1>. QED  BY <1>0, <1>4 DEF T, Sums

LEMMA SumOfRun ==
    ASSUME NEW x \in Seq(Nat)
    PROVE  \E f : Sums(f, x) /\ Sum(x) = f[Len(x)]
<1> DEFINE n == Len(x)
           Run(h) == [i \in 0..n |-> IF i = 0 THEN 0 ELSE h[i - 1] + x[i]]
<1>0. n \in Nat
  OBVIOUS
<1>1. PICK f : Sums(f, x)
  BY SumsExist
<1>2. f = Run(f)
  BY <1>0, <1>1 DEF Sums, Adds
<1> DEFINE g == CHOOSE h : h = Run(h)
<1>3. g = Run(g)
  BY <1>2
<1>4. Sum(x) = g[n]
  BY DEF Sum
<1> HIDE DEF g
<1> DEFINE T == {m \in Nat : m <= n => g[m] = f[m]}
<1>5. 0 \in T
  BY <1>0, <1>1, <1>3 DEF Sums, Adds
<1>6. ASSUME NEW m \in Nat, m \in T PROVE m + 1 \in T
  <2>1. CASE m + 1 <= n
    <3>1. m + 1 \in 1..n /\ m + 1 \in 0..n /\ (m + 1) - 1 = m /\ m <= n /\ m + 1 # 0
      BY <1>0, <2>1
    <3>2. g[m + 1] = g[m] + x[m + 1]
      BY <1>3, <3>1
    <3>3. f[m + 1] = f[m] + x[m + 1]
      BY <1>1, <3>1 DEF Sums, Adds
    <3>. QED  BY <1>6, <3>1, <3>2, <3>3
  <2>2. CASE ~(m + 1 <= n)
    BY <2>2
  <2>. QED  BY <2>1, <2>2
<1> HIDE DEF T
<1>7. n \in T
  BY <1>0, <1>5, <1>6, Induction
<1>. QED  BY <1>0, <1>1, <1>4, <1>7 DEF T

-----------------------------------------------------------------------------
(* What sums and squares say of the least and the greatest interval.       *)

\* Every member of x is between a and b.
Within(x, a, b) == \A i \in DOMAIN x : a <= x[i] /\ x[i] <= b

LEMMA SumBounds ==
    ASSUME NEW x \in Seq(Nat), NEW a \in Nat, NEW b \in Nat, Within(x, a, b)
    PROVE  Sum(x) \in Nat /\ Len(x) * a <= Sum(x) /\ Sum(x) <= Len(x) * b
<1>0. Len(x) \in Nat /\ DOMAIN x = 1..Len(x) /\ \A i \in 1..Len(x) : x[i] \in Nat
  OBVIOUS
<1>1. PICK f : Sums(f, x) /\ Sum(x) = f[Len(x)]
  BY SumOfRun
<1> DEFINE T == {m \in Nat : m <= Len(x) => m * a <= f[m] /\ f[m] <= m * b}
<1>2. 0 \in T
  BY <1>1 DEF Sums, Adds
<1>3. ASSUME NEW m \in Nat, m \in T PROVE m + 1 \in T
  <2>1. CASE m + 1 <= Len(x)
    <3>1. m + 1 \in 1..Len(x) /\ (m + 1) - 1 = m /\ m \in 0..Len(x) /\ m <= Len(x)
      BY <1>0, <2>1
    <3>2. f[m + 1] = f[m] + x[m + 1] /\ f[m] \in Nat
      BY <1>1, <3>1 DEF Sums, Adds
    <3>3. a <= x[m + 1] /\ x[m + 1] <= b /\ x[m + 1] \in Nat
      BY <1>0, <3>1 DEF Within
    <3>4. m * a <= f[m] /\ f[m] <= m * b
      BY <1>3, <3>1
    <3>5. (m + 1) * a = m * a + a /\ (m + 1) * b = m * b + b /\ m * a \in Nat /\ m * b \in Nat
      OBVIOUS
    <3>6. (m + 1) * a <= f[m + 1] /\ f[m + 1] <= (m + 1) * b
      BY <3>2, <3>3, <3>4, <3>5
    <3>. QED  BY <3>6
  <2>2. CASE ~(m + 1 <= Len(x))
    BY <2>2
  <2>. QED  BY <2>1, <2>2
<1> HIDE DEF T
<1>4. Len(x) \in T
  BY <1>0, <1>2, <1>3, Induction
<1>5. Sum(x) \in Nat
  BY <1>0, <1>1 DEF Sums, Adds
<1>. QED  BY <1>0, <1>1, <1>4, <1>5 DEF T

Squares(x) == [i \in DOMAIN x |-> x[i] * x[i]]

LEMMA Product ==
    ASSUME NEW a \in Nat, NEW b \in Nat
    PROVE  a * b \in Nat
OBVIOUS

LEMMA SquareBetween ==
    ASSUME NEW a \in Nat, NEW b \in Nat, NEW x \in Nat, a <= x, x <= b
    PROVE  x * x <= (a + b) * x - a * b
<1>1. b - x \in Nat /\ x - a \in Nat
  OBVIOUS
<1>2. (b - x) * (x - a) >= 0
  BY <1>1
<1>3. (b - x) * (x - a) = (a + b) * x - a * b - x * x
  OBVIOUS
<1>. QED  BY <1>2, <1>3

LEMMA SquaresBound ==
    ASSUME NEW x \in Seq(Nat), NEW a \in Nat, NEW b \in Nat, Within(x, a, b)
    PROVE  /\ SumOfSquares(x) \in Nat
           /\ SumOfSquares(x) <= (a + b) * Sum(x) - Len(x) * (a * b)
<1> DEFINE y == Squares(x)
           n == Len(x)
           s == a + b
           p == a * b
<1>0. /\ n \in Nat /\ DOMAIN x = 1..n /\ \A i \in 1..n : x[i] \in Nat
      /\ s \in Nat /\ p \in Nat
  OBVIOUS
<1>1. \A i \in 1..n : x[i] * x[i] \in Nat
  BY <1>0
<1>2. y \in Seq(Nat) /\ Len(y) = n /\ \A i \in 1..n : y[i] = x[i] * x[i]
  BY <1>0, <1>1 DEF Squares
<1>3. SumOfSquares(x) = Sum(y)
  BY DEF SumOfSquares, Squares
<1> HIDE DEF y
<1>4. PICK f : Sums(f, x) /\ Sum(x) = f[n]
  BY SumOfRun
<1>5. PICK g : Sums(g, y) /\ Sum(y) = g[n]
  BY <1>2, SumOfRun
<1> DEFINE T == {m \in Nat : m <= n => g[m] <= s * f[m] - m * p}
<1>6. 0 \in T
  BY <1>0, <1>4, <1>5 DEF Sums, Adds
<1>7. ASSUME NEW m \in Nat, m \in T PROVE m + 1 \in T
  <2>1. CASE m + 1 <= n
    <3>1. m + 1 \in 1..n /\ (m + 1) - 1 = m /\ m \in 0..n /\ m <= n
      BY <1>0, <2>1
    <3>2. f[m + 1] = f[m] + x[m + 1] /\ f[m] \in Nat
      BY <1>4, <3>1 DEF Sums, Adds
    <3>3. g[m + 1] = g[m] + x[m + 1] * x[m + 1] /\ g[m] \in Nat
      BY <1>2, <1>5, <3>1 DEF Sums, Adds
    <3>4. x[m + 1] \in Nat /\ a <= x[m + 1] /\ x[m + 1] <= b
      BY <1>0, <3>1 DEF Within
    <3>5. x[m + 1] * x[m + 1] <= s * x[m + 1] - p
      BY <3>4, SquareBetween
    <3>6. g[m] <= s * f[m] - m * p
      BY <1>7, <3>1
    <3> DEFINE v == x[m + 1]
               w == v * v
    <3>7. w \in Nat /\ v \in Nat
      BY <1>1, <3>1, <3>4
    <3>8. s * (f[m] + v) = s * f[m] + s * v /\ (m + 1) * p = m * p + p
      BY <1>0, <3>2, <3>7
    <3> DEFINE sf == s * f[m]
               sv == s * v
               mp == m * p
    <3>9. w <= sv - p /\ g[m] <= sf - mp
      BY <3>5, <3>6
    <3> HIDE DEF s, p, v, w
    <3>10. sf \in Nat /\ sv \in Nat /\ mp \in Nat
      <4>1. s \in Nat /\ p \in Nat /\ f[m] \in Nat /\ v \in Nat
        BY <1>0, <3>2, <3>7
      <4>2. sf \in Nat
        BY <4>1, Product
      <4>3. sv \in Nat
        BY <4>1, Product
      <4>4. mp \in Nat
        BY <4>1, Product
      <4>. QED  BY <4>2, <4>3, <4>4
    <3> HIDE DEF sf, sv, mp
    <3>11. g[m] + w <= (sf + sv) - (mp + p)
      <4>1. p \in Nat /\ g[m] \in Nat /\ w \in Nat
        BY <1>0, <3>3, <3>7
      <4> DEFINE gm == g[m]
      <4>2. gm \in Nat /\ gm <= sf - mp /\ w <= sv - p
        BY <3>9, <4>1
      <4> HIDE DEF gm
      <4>3. gm + w <= (sf + sv) - (mp + p)
        BY <3>10, <4>1, <4>2
      <4>. QED  BY <4>3 DEF gm
    <3>12. g[m] + w <= s * (f[m] + v) - (m + 1) * p
      BY <3>8, <3>11 DEF sf, sv, mp
    <3>13. g[m + 1] <= s * f[m + 1] - (m + 1) * p
      BY <3>2, <3>3, <3>12 DEF v, w
    <3>. QED  BY <3>13
  <2>2. CASE ~(m + 1 <= n)
    BY <2>2
  <2>. QED  BY <2>1, <2>2
<1> HIDE DEF T
<1>8. n \in T
  BY <1>0, <1>6, <1>7, Induction
<1>9. g[n] \in Nat
  BY <1>0, <1>2, <1>5 DEF Sums, Adds
<1>. QED  BY <1>0, <1>3, <1>4, <1>5, <1>8, <1>9 DEF T

\* The variance of intervals between a and b: n * n times it is at most the
\* square of n times their range.
LEMMA SpreadBound ==
    ASSUME NEW n \in Nat, NEW t \in Nat, NEW q \in Nat, NEW a \in Nat, NEW b \in Nat,
           n * a <= t, t <= n * b, q <= (a + b) * t - n * (a * b)
    PROVE  n * q - t * t <= (n * (b - a)) * (n * (b - a))
<1> DEFINE u == n * b - t
           v == t - n * a
           w == n * (b - a)
           r == (a + b) * t - n * (a * b)
<1>1. u \in Nat /\ v \in Nat /\ r \in Int /\ w \in Int
  OBVIOUS
<1>2. w = u + v
  OBVIOUS
<1>3. n * q <= n * r
  <2>1. r - q \in Nat
    BY <1>1
  <2>2. n * (r - q) \in Nat
    BY <2>1
  <2>3. n * (r - q) = n * r - n * q
    BY <1>1
  <2>. QED  BY <1>1, <2>2, <2>3
<1>4. n * r - t * t = u * v
  OBVIOUS
<1>5. u * v <= w * w
  <2>1. w * w = u * v + (u * u + v * v + u * v)
    BY <1>1, <1>2
  <2>2. u * u \in Nat /\ v * v \in Nat /\ u * v \in Nat
    BY <1>1
  <2>. QED  BY <1>1, <2>1, <2>2
<1>. QED  BY <1>1, <1>3, <1>4, <1>5

-----------------------------------------------------------------------------
(* Types.                                                                  *)

LEMMA BoundedSeqs ==
    ASSUME NEW S, NEW n \in Nat, NEW s
    PROVE  s \in BoundedSeq(S, n) <=> s \in Seq(S) /\ Len(s) <= n
<1>1. ASSUME s \in BoundedSeq(S, n) PROVE s \in Seq(S) /\ Len(s) <= n
  <2>1. PICK m \in 0..n : s \in [1..m -> S]
    BY <1>1 DEF BoundedSeq, SeqOf
  <2>. QED  BY <2>1
<1>2. ASSUME s \in Seq(S), Len(s) <= n PROVE s \in BoundedSeq(S, n)
  <2>1. s \in [1..Len(s) -> S] /\ Len(s) \in 0..n
    BY <1>2
  <2>. QED  BY <2>1 DEF BoundedSeq, SeqOf
<1>. QED  BY <1>1, <1>2

LEMMA EmptyHistory == <<>> \in BoundedSeq(0..MaxTime, maxHistory)
<1>1. maxHistory \in Nat
  BY ConfigAssumption
<1>2. <<>> \in Seq(0..MaxTime) /\ Len(<<>>) <= maxHistory
  BY <1>1
<1>. QED  BY <1>1, <1>2, BoundedSeqs

LEMMA BeatTypes ==
    ASSUME TypeOK, NEW p \in Nodes, Beat(p)
    PROVE  /\ intervals' \in [Nodes -> BoundedSeq(0..MaxTime, maxHistory)]
           /\ lastHeartbeat' \in [Nodes -> 0..now]
<1>1. /\ maxHistory \in Nat /\ maxHistory > 0 /\ MaxTime \in Nat
      /\ now \in 1..MaxTime /\ lastHeartbeat[p] \in 0..now
  BY ConfigAssumption DEF TypeOK
<1>2. lastHeartbeat' \in [Nodes -> 0..now]
  BY <1>1 DEF Beat, TypeOK
<1>3. now - lastHeartbeat[p] \in 0..MaxTime
  BY <1>1
<1>4. intervals[p] \in BoundedSeq(0..MaxTime, maxHistory)
  BY DEF TypeOK
<1>5. intervals[p] \in Seq(0..MaxTime) /\ Len(intervals[p]) <= maxHistory
  BY <1>1, <1>4, BoundedSeqs
<1> DEFINE all == Append(intervals[p], now - lastHeartbeat[p])
<1>6. /\ all \in Seq(0..MaxTime) /\ Len(all) = Len(intervals[p]) + 1
      /\ Len(intervals[p]) \in Nat
  BY <1>3, <1>5
<1>7. Tail(all) \in Seq(0..MaxTime) /\ Len(Tail(all)) = Len(all) - 1
  BY <1>6
<1>8. (IF Len(all) > maxHistory THEN Tail(all) ELSE all) \in BoundedSeq(0..MaxTime, maxHistory)
  <2>1. CASE Len(all) > maxHistory
    <3>1. Len(Tail(all)) <= maxHistory
      BY <1>1, <1>5, <1>6, <1>7
    <3>. QED  BY <1>1, <1>7, <2>1, <3>1, BoundedSeqs
  <2>2. CASE ~(Len(all) > maxHistory)
    <3>1. Len(all) <= maxHistory
      BY <1>1, <1>6, <2>2
    <3>. QED  BY <1>1, <1>6, <2>2, <3>1, BoundedSeqs
  <2>. QED  BY <2>1, <2>2
<1>9. intervals' = intervals \/ intervals' = [intervals EXCEPT ![p] =
          IF Len(all) > maxHistory THEN Tail(all) ELSE all]
  BY DEF Beat
<1>. QED  BY <1>2, <1>8, <1>9 DEF TypeOK

\* Time, detectors and the live set keep their types; no detector remembers
\* more than maxHistory intervals, or a heartbeat that is still to come.
THEOREM TypeCorrect == Spec => []TypeOK
<1>1. Init => TypeOK
  <2> SUFFICES ASSUME Init PROVE TypeOK
    OBVIOUS
  <2>1. 1 \in 1..MaxTime /\ 0 \in 0..1
    BY ConfigAssumption
  <2>. QED  BY <2>1, EmptyHistory DEF Init, TypeOK
<1>2. TypeOK /\ [Next]_vars => TypeOK'
  <2> SUFFICES ASSUME TypeOK, [Next]_vars PROVE TypeOK'
    OBVIOUS
  <2>1. ASSUME NEW p \in Nodes, registerPeer(p) PROVE TypeOK'
    <3>1. 0 \in 0..now
      BY ConfigAssumption DEF TypeOK
    <3>. QED  BY <2>1, <3>1, EmptyHistory DEF registerPeer, TypeOK
  <2>2. ASSUME NEW p \in Nodes, heartbeatFrom(p) PROVE TypeOK'
    <3>1. /\ intervals' \in [Nodes -> BoundedSeq(0..MaxTime, maxHistory)]
          /\ lastHeartbeat' \in [Nodes -> 0..now]
      BY <2>2, BeatTypes DEF heartbeatFrom, TypeOK
    <3>. QED  BY <2>2, <3>1 DEF heartbeatFrom, TypeOK
  <2>3. CASE checkSuspects
    BY <2>3 DEF checkSuspects, TypeOK
  <2>4. CASE TimePasses
    <3>1. now' \in 1..MaxTime /\ 0..now \subseteq 0..now'
      BY <2>4, ConfigAssumption DEF TimePasses, TypeOK
    <3>2. lastHeartbeat' \in [Nodes -> 0..now']
      BY <2>4, <3>1 DEF TimePasses, TypeOK
    <3>. QED  BY <2>4, <3>1, <3>2 DEF TimePasses, TypeOK
  <2>5. CASE UNCHANGED vars
    BY <2>5 DEF vars, TypeOK
  <2>. QED  BY <2>1, <2>2, <2>3, <2>4, <2>5 DEF Next
<1>. QED  BY <1>1, <1>2, PTL DEF Spec

-----------------------------------------------------------------------------
(* Who is suspected.                                                       *)

\* What the detectors know of the least and the greatest interval on record.
LEMMA Extremes ==
    ASSUME TypeOK, NEW p \in Nodes, Len(intervals[p]) >= 2
    PROVE  /\ intervals[p] \in Seq(Nat)
           /\ Shortest(p) \in Nat /\ Longest(p) \in Nat
           /\ Within(intervals[p], Shortest(p), Longest(p))
           /\ Shortest(p) <= Longest(p)
<1> DEFINE x == intervals[p]
           S == ToSet(x)
<1>1. MaxTime \in Nat /\ maxHistory \in Nat
  BY ConfigAssumption
<1>2. x \in Seq(0..MaxTime)
  BY <1>1, BoundedSeqs DEF TypeOK
<1>3. S = {x[i] : i \in DOMAIN x}
  BY DEF ToSet
<1>4. x \in Seq(Nat) /\ S \in SUBSET Nat /\ \A y \in S : y <= MaxTime
  BY <1>1, <1>2, <1>3
<1>5. x[1] \in S /\ \A i \in DOMAIN x : x[i] \in S
  BY <1>2, <1>3
<1> HIDE DEF S
<1>6. Min(S) \in S /\ \A y \in S : Min(S) <= y
  <2>1. \E m \in S : \A y \in S : m <= y
    BY <1>4, <1>5, Least
  <2>. QED  BY <2>1 DEF Min
<1>7. Max(S) \in S /\ \A y \in S : Max(S) >= y
  <2>1. PICK k \in {MaxTime - y : y \in S} : \A j \in {MaxTime - y : y \in S} : k <= j
    <3>1. {MaxTime - y : y \in S} \in SUBSET Nat /\ MaxTime - x[1] \in {MaxTime - y : y \in S}
      BY <1>1, <1>4, <1>5
    <3>2. {MaxTime - y : y \in S} # {}
      BY <3>1
    <3>. QED  BY <3>1, <3>2, Least
  <2>2. PICK m \in S : k = MaxTime - m
    OBVIOUS
  <2>3. \A y \in S : MaxTime - m <= MaxTime - y
    BY <2>1, <2>2
  <2>4. \A y \in S : m >= y
    BY <1>1, <1>4, <2>3
  <2>. QED  BY <2>4 DEF Max
<1>8. Shortest(p) = Min(S) /\ Longest(p) = Max(S)
  BY DEF Shortest, Longest, S
<1>9. Within(x, Min(S), Max(S))
  BY <1>4, <1>5, <1>6, <1>7 DEF Within
<1>. QED  BY <1>4, <1>6, <1>7, <1>8, <1>9

LEMMA Deviate ==
    /\ Deviations \in Nat /\ minStdDevMs \in Nat /\ quorumSize \in Nat
    /\ MaxTime \in Nat /\ maxHistory \in Nat
BY ConfigAssumption

\* A registered peer is live or suspected: no heartbeat, no check and no
\* passing of time takes a peer out of the live set that its detector trusts.
LEMMA DeadStaySuspected ==
    ASSUME TypeOK, DeadAreSuspected, [Next]_vars
    PROVE  DeadAreSuspected'
<1> SUFFICES ASSUME NEW p \in registered', p \notin liveNodes'
             PROVE  isSuspected(p)'
  BY DEF DeadAreSuspected
<1>1. ASSUME NEW q \in Nodes, registerPeer(q) PROVE isSuspected(p)'
  <2>1. q # p /\ p \in registered \ liveNodes
    BY <1>1 DEF registerPeer
  <2>2. UNCHANGED <<now, intervals[p], lastHeartbeat[p]>>
    BY <1>1, <2>1 DEF registerPeer, TypeOK
  <2>. QED  BY <2>1, <2>2 DEF DeadAreSuspected, isSuspected, Excess, Spread
<1>2. ASSUME NEW q \in Nodes, heartbeatFrom(q) PROVE isSuspected(p)'
  <2>1. q # p /\ p \in registered \ liveNodes
    BY <1>2 DEF heartbeatFrom
  <2>2. UNCHANGED <<now, intervals[p], lastHeartbeat[p]>>
    BY <1>2, <2>1 DEF heartbeatFrom, Beat, TypeOK
  <2>. QED  BY <2>1, <2>2 DEF DeadAreSuspected, isSuspected, Excess, Spread
<1>3. CASE checkSuspects
  <2>1. isSuspected(p)
    BY <1>3 DEF checkSuspects, suspected, DeadAreSuspected
  <2>. QED  BY <1>3, <2>1 DEF checkSuspects, isSuspected, Excess, Spread
<1>4. CASE TimePasses
  <2> DEFINE n == Len(intervals[p])
             late == Deviations * n * minStdDevMs
             least == Deviations * Deviations * Spread(p)
  <2>1. /\ p \in registered \ liveNodes
        /\ UNCHANGED <<intervals[p], lastHeartbeat[p]>> /\ now' = now + 1
    BY <1>4 DEF TimePasses
  <2>2. n >= 2 /\ Excess(p) > late /\ Excess(p) * Excess(p) > least
    BY <2>1 DEF DeadAreSuspected, isSuspected
  <2>3. /\ p \in Nodes /\ now \in Nat /\ lastHeartbeat[p] \in Nat /\ n \in Nat
    <3>1. p \in Nodes /\ now \in Nat /\ lastHeartbeat[p] \in Nat
      BY <2>1, Deviate DEF TypeOK
    <3>2. intervals[p] \in Seq(0..MaxTime)
      BY <3>1, Deviate, BoundedSeqs DEF TypeOK
    <3>. QED  BY <3>1, <3>2
  <2>4. /\ Sum(intervals[p]) \in Nat /\ SumOfSquares(intervals[p]) \in Nat
    BY <2>2, <2>3, Extremes, SumBounds, SquaresBound
  <2> DEFINE x == Excess(p)
             y == Excess(p)'
  <2>5. x \in Int /\ y = x + n
    <3> DEFINE e == now - lastHeartbeat[p]
    <3>0. e \in Int /\ (now + 1) - lastHeartbeat[p] = e + 1
      BY <2>3
    <3> HIDE DEF e, n
    <3>1. n * e \in Int /\ n * (e + 1) = n * e + n
      BY <2>3, <3>0
    <3>2. x = n * e - Sum(intervals[p]) /\ y = n * (e + 1) - Sum(intervals[p])
      BY <2>1, <3>0 DEF Excess, e, n
    <3>. QED  BY <2>3, <2>4, <3>1, <3>2
  <2>6. late \in Nat /\ least \in Int
    <3>1. Spread(p) \in Int
      BY <2>3, <2>4 DEF Spread
    <3>. QED  BY <2>3, <3>1, Deviate
  <2> HIDE DEF x, y, n, late, least
  <2>7. y > late
    BY <2>2, <2>3, <2>5, <2>6 DEF x
  <2>8. y * y > least
    <3>1. y * y = x * x + (2 * (x * n) + n * n)
      BY <2>3, <2>5
    <3>2. x \in Nat
      BY <2>2, <2>5, <2>6 DEF x
    <3>3. x * n \in Nat /\ n * n \in Nat /\ x * x \in Nat
      BY <2>3, <3>2, Product
    <3>4. x * x > least
      BY <2>2 DEF x
    <3>. QED  BY <2>6, <3>1, <3>3, <3>4
  <2>9. n' = n /\ late' = late /\ least' = least
    BY <2>1 DEF n, late, least, Spread
  <2>. QED  BY <2>2, <2>7, <2>8, <2>9 DEF isSuspected, n, late, least, y
<1>5. CASE UNCHANGED vars
  BY <1>5 DEF vars, DeadAreSuspected, isSuspected, Excess, Spread
<1>. QED  BY <1>1, <1>2, <1>3, <1>4, <1>5 DEF Next

\* Whoever was given up is late still: the quorum and the detectors agree.
THEOREM DeadAreSuspectedHolds == Spec => []DeadAreSuspected
<1>1. Init => DeadAreSuspected
  BY DEF Init, DeadAreSuspected
<1>2. TypeOK /\ DeadAreSuspected /\ [Next]_vars => DeadAreSuspected'
  BY DeadStaySuspected
<1>. QED  BY <1>1, <1>2, TypeCorrect, PTL DEF Spec

\* No peer that is late by at most Deviations times the least deviation over
\* its shortest interval fails to count.
THEOREM PunctualAreLiveHolds == Spec => []PunctualAreLive
<1>1. ASSUME TypeOK, DeadAreSuspected PROVE PunctualAreLive
  <2> SUFFICES ASSUME NEW p \in registered, Len(intervals[p]) >= 2,
                      Silence(p) <= Shortest(p) + Deviations * minStdDevMs,
                      isSuspected(p)
               PROVE  FALSE
    BY <1>1 DEF PunctualAreLive, DeadAreSuspected
  <2> DEFINE n == Len(intervals[p])
             s == Silence(p)
             a == Shortest(p)
             d == Deviations * minStdDevMs
             t == Sum(intervals[p])
  <2>1. p \in Nodes /\ s \in Int /\ d \in Nat
    BY <1>1, Deviate, Product DEF TypeOK, Silence
  <2>2. n \in Nat /\ a \in Nat /\ t \in Nat /\ n * a <= t
    <3>1. /\ intervals[p] \in Seq(Nat) /\ a \in Nat /\ Longest(p) \in Nat
          /\ Within(intervals[p], a, Longest(p))
      BY <1>1, <2>1, Extremes
    <3>2. n \in Nat
      BY <3>1
    <3> HIDE DEF a
    <3>. QED  BY <3>1, <3>2, SumBounds
  <2>3. n * s - t > n * d
    <3>1. Excess(p) > Deviations * n * minStdDevMs
      BY DEF isSuspected
    <3> HIDE DEF n
    <3>2. Deviations * n * minStdDevMs = n * d
      BY <2>2, Deviate
    <3>. QED  BY <3>1, <3>2 DEF Excess, Silence, n
  <2>4. s <= a + d
    OBVIOUS
  <2> HIDE DEF n, s, a, d, t
  <2>5. n * s <= n * (a + d)
    <3>1. (a + d) - s \in Nat
      BY <2>1, <2>2, <2>4
    <3>2. n * ((a + d) - s) \in Nat
      BY <2>2, <3>1, Product
    <3>3. n * ((a + d) - s) = n * (a + d) - n * s
      BY <2>1, <2>2
    <3>. QED  BY <2>1, <2>2, <3>2, <3>3
  <2>6. n * (a + d) = n * a + n * d
    BY <2>1, <2>2
  <2>7. n * s \in Int /\ n * a \in Nat /\ n * d \in Nat
    BY <2>1, <2>2, Product
  <2>. QED  BY <2>2, <2>3, <2>5, <2>6, <2>7
<1>. QED  BY <1>1, TypeCorrect, DeadAreSuspectedHolds, PTL

LEMMA SilentAreSuspected ==
    ASSUME TypeOK, NEW p \in Nodes, SilentLong(p)
    PROVE  isSuspected(p)
<1> DEFINE n == Len(intervals[p])
           s == Silence(p)
           a == Shortest(p)
           b == Longest(p)
           t == Sum(intervals[p])
           q == SumOfSquares(intervals[p])
           M == Max({b - a, minStdDevMs})
<1>1. n >= 2 /\ s > b + Deviations * M
  BY DEF SilentLong
<1>2. /\ intervals[p] \in Seq(Nat) /\ a \in Nat /\ b \in Nat /\ a <= b
      /\ Within(intervals[p], a, b) /\ n \in Nat
  <2>1. /\ intervals[p] \in Seq(Nat) /\ a \in Nat /\ b \in Nat /\ a <= b
        /\ Within(intervals[p], a, b)
    BY <1>1, Extremes
  <2>. QED  BY <2>1
<1> HIDE DEF a, b
<1>3. M \in Nat /\ M >= b - a /\ M >= minStdDevMs
  <2>1. b - a \in Nat
    BY <1>2
  <2>2. \E m \in {b - a, minStdDevMs} : \A y \in {b - a, minStdDevMs} : m >= y
    BY <2>1, Deviate
  <2>3. M \in {b - a, minStdDevMs} /\ \A y \in {b - a, minStdDevMs} : M >= y
    BY <2>2 DEF Max
  <2>. QED  BY <2>1, <2>3, Deviate
<1>4. t \in Nat /\ n * a <= t /\ t <= n * b
  BY <1>2, SumBounds
<1>5. q \in Nat /\ q <= (a + b) * t - n * (a * b)
  BY <1>2, SquaresBound
<1>6. s \in Int /\ Excess(p) = n * s - t /\ Spread(p) = n * q - t * t
  <2>1. now \in Int /\ lastHeartbeat[p] \in Int
    BY Deviate DEF TypeOK
  <2>. QED  BY <2>1 DEF Silence, Excess, Spread
<1> HIDE DEF n, s, t, q, M
<1> DEFINE w == n * M
           x == n * s - t
<1>7. w \in Nat /\ Deviations * w \in Nat
  BY <1>2, <1>3, Deviate, Product
<1>8. x > Deviations * w
  <2> DEFINE c == Deviations * M
  <2>1. c \in Nat /\ s - (b + c) \in Nat \ {0}
    BY <1>1, <1>2, <1>3, <1>6, Deviate, Product
  <2>2. n * c = Deviations * w
    BY <1>2, <1>3, Deviate
  <2> HIDE DEF c
  <2>3. n * (s - (b + c)) = n * s - n * b - n * c
    BY <1>2, <1>6, <2>1
  <2>4. n * (s - (b + c)) > 0
    BY <1>1, <1>2, <2>1
  <2>5. n * s \in Int /\ n * b \in Nat
    BY <1>2, <1>6, Product
  <2> HIDE DEF w
  <2>. QED  BY <1>4, <1>7, <2>2, <2>3, <2>4, <2>5
<1>9. x > Deviations * n * minStdDevMs
  <2>1. M - minStdDevMs \in Nat
    BY <1>3, Deviate
  <2>2. Deviations * n \in Nat
    BY <1>2, Deviate, Product
  <2>3. (Deviations * n) * (M - minStdDevMs) \in Nat
    BY <2>1, <2>2, Product
  <2>4. (Deviations * n) * (M - minStdDevMs) = Deviations * w - Deviations * n * minStdDevMs
    BY <1>2, <1>3, Deviate
  <2>5. Deviations * n * minStdDevMs \in Nat
    BY <2>2, Deviate, Product
  <2>6. x \in Int
    BY <1>2, <1>4, <1>6
  <2> HIDE DEF x, w
  <2>. QED  BY <1>7, <1>8, <2>3, <2>4, <2>5, <2>6
<1>10. n * q - t * t <= w * w
  <2> DEFINE r == n * (b - a)
  <2>1. n * q - t * t <= r * r
    BY <1>2, <1>4, <1>5, SpreadBound
  <2>2. r \in Nat /\ w - r \in Nat
    <3>1. b - a \in Nat /\ M - (b - a) \in Nat
      BY <1>2, <1>3
    <3>2. w - r = n * (M - (b - a))
      BY <1>2, <1>3
    <3>. QED  BY <1>2, <3>1, <3>2, Product
  <2> HIDE DEF r, w
  <2>3. w * w = r * r + (w - r) * (w - r) + 2 * (r * (w - r))
    BY <1>7, <2>2
  <2>4. (w - r) * (w - r) \in Nat /\ r * (w - r) \in Nat /\ r * r \in Nat
    BY <2>2, Product
  <2>5. n * q - t * t \in Int
    BY <1>2, <1>4, <1>5
  <2>. QED  BY <1>7, <2>1, <2>3, <2>4, <2>5
<1>11. x * x > Deviations * Deviations * (n * q - t * t)
  <2> DEFINE z == Deviations * w
             v == n * q - t * t
  <2>1. v \in Int
    BY <1>2, <1>4, <1>5
  <2>2. x \in Int
    BY <1>2, <1>4, <1>6
  <2>3. v <= w * w /\ x > z /\ z \in Nat
    BY <1>7, <1>8, <1>10
  <2> HIDE DEF x, w, v
  <2>4. Deviations * Deviations * v <= z * z
    <3>1. w * w - v \in Nat /\ Deviations * Deviations \in Nat
      BY <1>7, <2>1, <2>3, Deviate, Product
    <3>2. (Deviations * Deviations) * (w * w - v) \in Nat
      BY <3>1, Product
    <3>3. (Deviations * Deviations) * (w * w - v) = z * z - Deviations * Deviations * v
      BY <1>7, <2>1, Deviate
    <3>4. Deviations * Deviations * v \in Int
      BY <2>1, Deviate
    <3>. QED  BY <2>3, <3>2, <3>3, <3>4
  <2> HIDE DEF z
  <2>5. x * x > z * z
    <3>1. x * x = z * z + (x - z) * (x + z)
      BY <2>2, <2>3
    <3>2. x - z \in Nat \ {0} /\ x + z \in Nat \ {0}
      BY <2>2, <2>3
    <3>3. (x - z) * (x + z) > 0
      BY <3>2
    <3>. QED  BY <2>2, <2>3, <3>1, <3>3
  <2>6. Deviations * Deviations * v \in Int /\ x * x \in Int /\ z * z \in Int
    BY <2>1, <2>2, <2>3, Deviate
  <2>. QED  BY <2>4, <2>5, <2>6 DEF v
<1>. QED  BY <1>1, <1>6, <1>9, <1>11 DEF isSuspected, n

\* When fewer than quorumSize nodes are not silent for long, a check of the
\* suspects takes the write quorum away: each node that would still count is
\* one of them.
THEOREM QuorumLossNoticedHolds == Spec => []QuorumLossNoticed
<1>1. ASSUME TypeOK PROVE QuorumLossNoticed
  <2> DEFINE heard == {p \in Nodes : ~SilentLong(p)}
             counted == liveNodes \ suspected
  <2>1. counted \subseteq heard
    <3> SUFFICES ASSUME NEW p \in liveNodes, p \notin suspected, SilentLong(p) PROVE FALSE
      BY <1>1 DEF TypeOK
    <3>1. isSuspected(p)
      BY <1>1, SilentAreSuspected DEF TypeOK
    <3>. QED  BY <3>1 DEF suspected, SilentLong
  <2>2. IsFiniteSet(heard)
    BY NodesAssumption, FS_Subset
  <2> HIDE DEF heard, counted
  <2>3. Cardinality(counted) <= Cardinality(heard)
    BY <2>1, <2>2, FS_Subset
  <2>4. Cardinality(counted) \in Nat /\ Cardinality(heard) \in Nat
    BY <2>1, <2>2, FS_Subset, FS_CardinalityType
  <2>. QED
    BY <2>3, <2>4, Deviate DEF QuorumLossNoticed, HasWriteQuorum, heard, counted
<1>. QED  BY <1>1, TypeCorrect, PTL

=============================================================================
