-------------------------- MODULE EventSyncProofs --------------------------
(***************************************************************************)
(* Theorems about the nodes that exchange history, for any set of nodes,   *)
(* events, reducer preconditions and clocks, and any bound on the network. *)
(*                                                                         *)
(* The stores are built by loops, modelled as recursive functions.  What   *)
(* a loop computes is proved by induction, which rests on the well-founded *)
(* order of the naturals.                                                  *)
(***************************************************************************)
EXTENDS EventSync, SequenceTheorems, WellFoundedInduction, TLAPS

-----------------------------------------------------------------------------
(* Induction and loops.                                                    *)

LEMMA Least ==
    ASSUME NEW T \in SUBSET Nat, T # {}
    PROVE  \E m \in T : \A n \in T : m <= n
<1> DEFINE R == {ss \in Nat \X Nat : ss[1] < ss[2]}
<1>1. IsWellFoundedOn(R, Nat)
    BY NatLessThanWellFounded DEF OpToRel
<1> HIDE DEF R
<1>2. PICK m \in T : \A n \in T : ~(<<n, m>> \in R)
    BY <1>1, WFMin
<1>3. \A n \in T : ~(n < m)
    BY <1>2 DEF R
<1> QED  BY <1>3

LEMMA Induction ==
    ASSUME NEW S, 0 \in S, \A n \in Nat : n \in S => n + 1 \in S
    PROVE  Nat \subseteq S
<1> SUFFICES ASSUME Nat \ S # {} PROVE FALSE
    OBVIOUS
<1>1. PICK m \in Nat \ S : \A n \in Nat \ S : m <= n
    BY Least
<1>2. m # 0 /\ m - 1 \in Nat /\ ~(m <= m - 1)
    BY <1>1
<1>3. m - 1 \in S
    BY <1>1, <1>2
<1> QED  BY <1>1, <1>2, <1>3

\* f[i] is what a loop that starts with base has made after i of its n turns.
IsRun(f, n, S, base, F) ==
    /\ f \in [0..n -> S]
    /\ f[0] = base
    /\ \A i \in 1..n : f[i] = F[i][f[i - 1]]

LEMMA LoopExists ==
    ASSUME NEW n \in Nat, NEW S, NEW base \in S, NEW F \in [1..n -> [S -> S]]
    PROVE  \E f : IsRun(f, n, S, base, F)
<1> DEFINE Runs(m, f) == f[0] = base /\ \A i \in 1..m : f[i] = F[i][f[i - 1]]
           T == {m \in Nat : m <= n => \E f \in [0..m -> S] : Runs(m, f)}
<1>1. 0 \in T
  <2>1. [i \in 0..0 |-> base] \in [0..0 -> S] /\ Runs(0, [i \in 0..0 |-> base])
      OBVIOUS
  <2> QED  BY <2>1
<1>2. ASSUME NEW m \in Nat, m \in T, m + 1 <= n
      PROVE  m + 1 \in T
  <2>1. PICK f \in [0..m -> S] : Runs(m, f)
      BY <1>2
  <2> DEFINE g == [i \in 0..(m + 1) |-> IF i = m + 1 THEN F[m + 1][f[m]] ELSE f[i]]
  <2>2. F[m + 1][f[m]] \in S
      BY <1>2, <2>1
  <2>3. g \in [0..(m + 1) -> S]
      BY <2>1, <2>2
  <2>4. Runs(m + 1, g)
    <3>1. g[0] = base
        BY <2>1
    <3>2. ASSUME NEW i \in 1..(m + 1) PROVE g[i] = F[i][g[i - 1]]
      <4>1. CASE i = m + 1
          BY <2>1, <4>1
      <4>2. CASE i \in 1..m
          BY <2>1, <4>2
      <4> QED  BY <4>1, <4>2
    <3> QED  BY <3>1, <3>2
  <2> HIDE DEF g, Runs
  <2>5. \E h \in [0..(m + 1) -> S] : Runs(m + 1, h)
      BY <2>3, <2>4
  <2> QED  BY <2>5
<1>3. ASSUME NEW m \in Nat, m \in T PROVE m + 1 \in T
  <2>1. CASE m + 1 <= n
      BY <1>2, <1>3, <2>1
  <2>2. CASE ~(m + 1 <= n)
      BY <2>2
  <2> QED  BY <2>1, <2>2
<1> HIDE DEF T
<1>4. n \in T
    BY <1>1, <1>3, Induction
<1> QED  BY <1>4 DEF T, IsRun

\* Two runs of one loop end alike.
SameTurns(f, g, n) ==
    f[0] = g[0] /\ \A i \in 1..n : f[i - 1] = g[i - 1] => f[i] = g[i]

LEMMA LoopUnique ==
    ASSUME NEW n \in Nat, NEW f, NEW g, SameTurns(f, g, n)
    PROVE  f[n] = g[n]
<1> USE DEF SameTurns
<1> DEFINE T == {m \in Nat : m <= n => f[m] = g[m]}
<1>1. 0 \in T
    OBVIOUS
<1>2. ASSUME NEW m \in Nat, m \in T PROVE m + 1 \in T
  <2>1. CASE m + 1 <= n
    <3>1. m + 1 \in 1..n /\ (m + 1) - 1 = m /\ m <= n
        BY <2>1
    <3>2. f[m] = g[m]
        BY <1>2, <3>1
    <3>3. f[m + 1] = g[m + 1]
        BY <3>1, <3>2
    <3> QED  BY <3>3
  <2>2. CASE ~(m + 1 <= n)
      BY <2>2
  <2> QED  BY <2>1, <2>2
<1> HIDE DEF T
<1>3. n \in T
    BY <1>1, <1>2, Induction
<1> QED  BY <1>3 DEF T

-----------------------------------------------------------------------------
(* Logs.                                                                   *)

Distinct(log) == \A i, k \in DOMAIN log : log[i].id = log[k].id => i = k

Logs == {log \in Seq(Events) : Distinct(log)}

\* old is a prefix of new.
Extends(old, new) ==
    Len(old) <= Len(new) /\ \A i \in DOMAIN old : new[i] = old[i]

LEMMA EventTypes ==
    ASSUME NEW e \in Events
    PROVE  e.id \in Ids /\ e.parents \in Seq(Ids) /\ e.origin \in Nodes
BY EventsAssumption

LEMMA IndexIsLeast ==
    ASSUME NEW log \in Seq(Events), NEW id
    PROVE  /\ id \notin StoredIds(log) => IndexOf(log, id) = 0
           /\ id \in StoredIds(log) => IndexOf(log, id) \in 1..Len(log) /\ log[IndexOf(log, id)].id = id
<1> DEFINE I == {i \in 1..Len(log) : log[i].id = id}
<1>1. IndexOf(log, id) = IF I # {} THEN Min(I) ELSE 0
    BY DEF IndexOf, SelectInSeq
<1>2. I # {} <=> id \in StoredIds(log)
    BY DEF StoredIds
<1>3. ASSUME I # {} PROVE Min(I) \in I
  <2>1. I \in SUBSET Nat
      OBVIOUS
  <2>2. PICK m \in I : \A k \in I : m <= k
      BY <1>3, <2>1, Least
  <2> QED  BY <2>2 DEF Min
<1> QED  BY <1>1, <1>2, <1>3

LEMMA ExtendsTransitive ==
    ASSUME NEW a \in Seq(Events), NEW b \in Seq(Events), NEW c \in Seq(Events),
           Extends(a, b), Extends(b, c)
    PROVE  Extends(a, c)
<1>1. Len(a) \in Nat /\ Len(b) \in Nat /\ Len(c) \in Nat /\ Len(a) <= Len(b) /\ Len(b) <= Len(c)
    BY DEF Extends
<1>2. ASSUME NEW i \in DOMAIN a PROVE c[i] = a[i]
  <2>1. i \in DOMAIN b
      BY <1>1
  <2> QED  BY <2>1 DEF Extends
<1> QED  BY <1>1, <1>2 DEF Extends

LEMMA ExtendsMembers ==
    ASSUME NEW old \in Seq(Events), NEW new \in Seq(Events), Extends(old, new)
    PROVE  ToSet(old) \subseteq ToSet(new) /\ StoredIds(old) \subseteq StoredIds(new)
<1>1. DOMAIN old \subseteq DOMAIN new
    BY DEF Extends
<1> QED  BY <1>1 DEF Extends, ToSet, StoredIds

\* An id names one event.
LEMMA StoredIsMember ==
    ASSUME NEW log \in Seq(Events), NEW e \in Events
    PROVE  e.id \in StoredIds(log) <=> e \in ToSet(log)
<1>1. \A i \in DOMAIN log : log[i] \in Events
    OBVIOUS
<1> QED  BY <1>1, IdsNameEvents DEF StoredIds, ToSet

ParentsFirst(log) ==
    \A i \in DOMAIN log :
        ToSet(log[i].parents) \subseteq {log[k].id : k \in 1..(i - 1)}

LEMMA AppendToLog ==
    ASSUME NEW log \in Logs, NEW e \in Events, e.id \notin StoredIds(log)
    PROVE  /\ Append(log, e) \in Logs
           /\ Len(Append(log, e)) = Len(log) + 1
           /\ Extends(log, Append(log, e))
           /\ ToSet(Append(log, e)) = ToSet(log) \cup {e}
           /\ ParentsFirst(log) /\ ToSet(e.parents) \subseteq StoredIds(log)
                  => ParentsFirst(Append(log, e))
<1> DEFINE new == Append(log, e)
<1>0. log \in Seq(Events) /\ Distinct(log) /\ Len(log) \in Nat /\ DOMAIN log = 1..Len(log)
    BY DEF Logs
<1>1. /\ new \in Seq(Events) /\ Len(new) = Len(log) + 1 /\ DOMAIN new = 1..(Len(log) + 1)
      /\ \A i \in DOMAIN log : new[i] = log[i]
      /\ new[Len(log) + 1] = e
    BY <1>0, AppendProperties
<1> HIDE DEF new
<1>2. Distinct(new)
  <2> SUFFICES ASSUME NEW i \in DOMAIN new, NEW k \in DOMAIN new, new[i].id = new[k].id, i # k
               PROVE  FALSE
      BY DEF Distinct
  <2>1. CASE i \in DOMAIN log /\ k \in DOMAIN log
      BY <1>0, <1>1, <2>1 DEF Distinct
  <2>2. CASE i = Len(log) + 1 /\ k \in DOMAIN log
      BY <1>1, <2>2 DEF StoredIds
  <2>3. CASE k = Len(log) + 1 /\ i \in DOMAIN log
      BY <1>1, <2>3 DEF StoredIds
  <2> QED  BY <1>0, <1>1, <2>1, <2>2, <2>3
<1>3. Extends(log, new)
    BY <1>0, <1>1 DEF Extends
<1>4. ToSet(new) = ToSet(log) \cup {e}
  <2>1. DOMAIN new = DOMAIN log \cup {Len(log) + 1}
      BY <1>0, <1>1
  <2> QED  BY <1>1, <2>1 DEF ToSet
<1>5. ASSUME ParentsFirst(log), ToSet(e.parents) \subseteq StoredIds(log)
      PROVE  ParentsFirst(new)
  <2> SUFFICES ASSUME NEW i \in DOMAIN new
               PROVE  ToSet(new[i].parents) \subseteq {new[k].id : k \in 1..(i - 1)}
      BY DEF ParentsFirst
  <2>1. \A k \in 1..(i - 1) : k \in DOMAIN log /\ new[k] = log[k]
      BY <1>0, <1>1
  <2>2. CASE i \in DOMAIN log
    <3>1. ToSet(log[i].parents) \subseteq {log[k].id : k \in 1..(i - 1)}
        BY <1>5, <2>2 DEF ParentsFirst
    <3> QED  BY <1>1, <2>1, <2>2, <3>1
  <2>3. CASE i = Len(log) + 1
    <3>1. 1..(i - 1) = DOMAIN log
        BY <1>0, <2>3
    <3>2. {new[k].id : k \in DOMAIN log} = StoredIds(log)
        BY <1>1 DEF StoredIds
    <3>3. new[i] = e
        BY <1>1, <2>3
    <3> QED  BY <1>5, <3>1, <3>2, <3>3
  <2> QED  BY <1>0, <1>1, <2>2, <2>3
<1> QED  BY <1>1, <1>2, <1>3, <1>4, <1>5 DEF Logs, new

-----------------------------------------------------------------------------
(* The loop of processSyncMessage.                                         *)

LEMMA AppendUnseenLoop ==
    ASSUME NEW log \in Seq(Events), NEW events \in Seq(Events)
    PROVE  \E f :
               /\ f \in [0..Len(events) -> Seq(Events)]
               /\ f[0] = log
               /\ \A i \in 1..Len(events) :
                      f[i] = IF events[i].id \in StoredIds(f[i - 1])
                                THEN f[i - 1] ELSE Append(f[i - 1], events[i])
               /\ AppendUnseen(log, events) = f[Len(events)]
<1> DEFINE n == Len(events)
           Turn(i, s) == IF events[i].id \in StoredIds(s) THEN s ELSE Append(s, events[i])
           F == [i \in 1..n |-> [s \in Seq(Events) |-> Turn(i, s)]]
           Run(g) == [i \in 0..n |-> IF i = 0 THEN log ELSE Turn(i, g[i - 1])]
<1>0. n \in Nat
    OBVIOUS
<1>1. \A i \in 1..n, s \in Seq(Events) : Turn(i, s) \in Seq(Events)
    OBVIOUS
<1> HIDE DEF Turn
<1>2. F \in [1..n -> [Seq(Events) -> Seq(Events)]]
    BY <1>1
<1>3. \A i \in 1..n, s \in Seq(Events) : F[i][s] = Turn(i, s)
    OBVIOUS
<1> HIDE DEF F, n
<1>4. PICK f : IsRun(f, n, Seq(Events), log, F)
    BY <1>0, <1>2, LoopExists
<1> USE DEF IsRun
<1>5. \A i \in 1..n : f[i] = Turn(i, f[i - 1])
  <2>1. \A i \in 1..n : f[i - 1] \in Seq(Events)
      BY <1>0, <1>4
  <2> QED  BY <1>3, <1>4, <2>1
<1>6. f = Run(f)
  <2>1. \A i \in 0..n : f[i] = Run(f)[i]
      BY <1>0, <1>4, <1>5
  <2> QED  BY <1>4, <2>1
<1> DEFINE g == CHOOSE h : h = Run(h)
<1>7. g = Run(g)
    BY <1>6
<1>8. AppendUnseen(log, events) = g[n]
    BY DEF AppendUnseen, Turn, n
<1> HIDE DEF g
<1>9. \A i \in 0..n : g[i] = IF i = 0 THEN log ELSE Turn(i, g[i - 1])
    BY <1>7
<1>10. SameTurns(f, g, n)
  <2>1. f[0] = g[0]
      BY <1>0, <1>4, <1>9
  <2>2. \A i \in 1..n : g[i] = Turn(i, g[i - 1])
      BY <1>0, <1>9
  <2> QED  BY <1>5, <2>1, <2>2 DEF SameTurns
<1>11. AppendUnseen(log, events) = f[n]
    BY <1>0, <1>8, <1>10, LoopUnique
<1> QED  BY <1>4, <1>5, <1>11 DEF Turn, n

\* A log that grew by some events and kept its order.
GrownBy(old, new, added) ==
    /\ new \in Logs
    /\ Extends(old, new)
    /\ ToSet(new) = ToSet(old) \cup added

\* Each event's parents are stored or come before it in the message.
ParentsWith(log, events) ==
    \A i \in DOMAIN events :
        ToSet(events[i].parents) \subseteq
            StoredIds(log) \cup {events[k].id : k \in 1..(i - 1)}

\* One turn of the loop, after which the first i events of the message are in.
LEMMA AppendUnseenTurn ==
    ASSUME NEW log \in Logs, NEW events \in Seq(Events), NEW i \in 1..Len(events),
           NEW before, NEW done,
           GrownBy(log, before, {events[k] : k \in 1..(i - 1)}),
           ParentsWith(log, events) /\ ParentsFirst(log) => ParentsFirst(before),
           done = IF events[i].id \in StoredIds(before) THEN before ELSE Append(before, events[i])
    PROVE  /\ GrownBy(log, done, {events[k] : k \in 1..i})
           /\ ParentsWith(log, events) /\ ParentsFirst(log) => ParentsFirst(done)
<1>0. events[i] \in Events /\ log \in Seq(Events) /\ before \in Logs /\ before \in Seq(Events)
    BY DEF GrownBy, Logs
<1>1. {events[k] : k \in 1..i} = {events[k] : k \in 1..(i - 1)} \cup {events[i]}
  <2>1. 1..i = (1..(i - 1)) \cup {i}
      OBVIOUS
  <2> QED  BY <2>1
<1>2. CASE events[i].id \in StoredIds(before)
  <2>1. done = before
      BY <1>2
  <2>2. events[i] \in ToSet(before)
      BY <1>0, <1>2, StoredIsMember
  <2> QED  BY <1>1, <2>1, <2>2 DEF GrownBy
<1>3. CASE events[i].id \notin StoredIds(before)
  <2>1. done = Append(before, events[i])
      BY <1>3
  <2>2. /\ done \in Logs
        /\ Extends(before, done)
        /\ ToSet(done) = ToSet(before) \cup {events[i]}
        /\ ParentsFirst(before) /\ ToSet(events[i].parents) \subseteq StoredIds(before)
               => ParentsFirst(done)
      BY <1>0, <1>3, <2>1, AppendToLog
  <2>3. Extends(log, done)
      BY <1>0, <2>2, ExtendsTransitive DEF GrownBy, Logs
  <2>4. ToSet(done) = ToSet(log) \cup {events[k] : k \in 1..i}
      BY <1>1, <2>2 DEF GrownBy
  <2>5. ASSUME ParentsWith(log, events), ParentsFirst(log) PROVE ParentsFirst(done)
    <3>1. ToSet(events[i].parents) \subseteq StoredIds(log) \cup {events[k].id : k \in 1..(i - 1)}
      <4>1. i \in DOMAIN events
          OBVIOUS
      <4> QED  BY <2>5, <4>1 DEF ParentsWith
    <3>2. StoredIds(log) \subseteq StoredIds(before)
        BY <1>0, ExtendsMembers DEF GrownBy
    <3>3. \A k \in 1..(i - 1) : events[k].id \in StoredIds(before)
      <4>1. \A k \in 1..(i - 1) : events[k] \in Events /\ events[k] \in ToSet(before)
          BY DEF GrownBy
      <4> QED  BY <1>0, <4>1, StoredIsMember
    <3> QED  BY <2>2, <2>5, <3>1, <3>2, <3>3
  <2> QED  BY <2>2, <2>3, <2>4, <2>5 DEF GrownBy
<1> QED  BY <1>2, <1>3

\* A store that a message is appended to holds what it held, in its order, and
\* what the message brings; its events stay distinct, and if each event of the
\* message follows its parents, so does each event of the store.
LEMMA AppendUnseenProperties ==
    ASSUME NEW log \in Logs, NEW events \in Seq(Events)
    PROVE  /\ GrownBy(log, AppendUnseen(log, events), ToSet(events))
           /\ ParentsWith(log, events) /\ ParentsFirst(log)
                  => ParentsFirst(AppendUnseen(log, events))
<1> DEFINE n == Len(events)
<1>0. n \in Nat /\ log \in Seq(Events)
    BY DEF Logs
<1>1. PICK f : /\ f[0] = log
               /\ \A i \in 1..n :
                      f[i] = IF events[i].id \in StoredIds(f[i - 1])
                                THEN f[i - 1] ELSE Append(f[i - 1], events[i])
               /\ AppendUnseen(log, events) = f[n]
    BY <1>0, AppendUnseenLoop
<1> DEFINE Good(i) == /\ GrownBy(log, f[i], {events[k] : k \in 1..i})
                      /\ ParentsWith(log, events) /\ ParentsFirst(log) => ParentsFirst(f[i])
           T == {m \in Nat : m <= n => Good(m)}
<1>2. 0 \in T
  <2>1. Extends(log, log) /\ {events[k] : k \in 1..0} = {}
      BY <1>0 DEF Extends
  <2> QED  BY <1>1, <2>1 DEF GrownBy
<1>3. ASSUME NEW m \in Nat, m \in T PROVE m + 1 \in T
  <2>1. CASE m + 1 <= n
    <3>1. m + 1 \in 1..n /\ (m + 1) - 1 = m /\ m <= n
        BY <1>0, <2>1
    <3>2. Good(m)
        BY <1>3, <3>1
    <3>3. f[m + 1] = IF events[m + 1].id \in StoredIds(f[m])
                        THEN f[m] ELSE Append(f[m], events[m + 1])
        BY <1>1, <3>1
    <3>4. Good(m + 1)
        BY <3>1, <3>2, <3>3, AppendUnseenTurn
    <3> QED  BY <3>4
  <2>2. CASE ~(m + 1 <= n)
      BY <2>2
  <2> QED  BY <2>1, <2>2
<1> HIDE DEF T
<1>4. n \in T
    BY <1>0, <1>2, <1>3, Induction
<1>5. Good(n)
    BY <1>0, <1>4 DEF T
<1>6. ToSet(events) = {events[k] : k \in 1..n}
    BY DEF ToSet
<1> QED  BY <1>1, <1>5, <1>6

-----------------------------------------------------------------------------
(* emit, and the loop of merge.                                            *)

EngineStates ==
    [store : Logs, state : Seq(Ids), graph : SUBSET Edges, threw : BOOLEAN]

\* An engine that emitted: its store grew, and if every parent was stored before
\* its children, it still is.
Advanced(old, new) ==
    /\ Extends(old.store, new.store)
    /\ ParentsFirst(old.store) => ParentsFirst(new.store)

LEMMA AdvancedTransitive ==
    ASSUME NEW a \in EngineStates, NEW b \in EngineStates, NEW c \in EngineStates,
           Advanced(a, b), Advanced(b, c)
    PROVE  Advanced(a, c)
<1>1. /\ a.store \in Seq(Events) /\ b.store \in Seq(Events) /\ c.store \in Seq(Events)
      /\ a.state \in Seq(Ids) /\ b.state \in Seq(Ids) /\ c.state \in Seq(Ids)
    BY DEF EngineStates, Logs
<1>2. Extends(a.store, c.store)
    BY <1>1, ExtendsTransitive DEF Advanced
<1> QED  BY <1>2 DEF Advanced

LEMMA AdvancedReflexive ==
    ASSUME NEW a \in EngineStates
    PROVE  Advanced(a, a)
<1>1. a.store \in Seq(Events) /\ Len(a.store) \in Nat
    BY DEF EngineStates, Logs
<1> QED  BY <1>1 DEF Advanced, Extends

LEMMA AddEdgesType ==
    ASSUME NEW E \in SUBSET Edges, NEW parents \in Seq(Ids), NEW child \in Ids
    PROVE  AddEdges(E, parents, child) \in SUBSET Edges
BY DEF AddEdges, Edges

LEMMA EmitOnProperties ==
    ASSUME NEW node \in EngineStates, NEW e \in Events
    PROVE  EmitOn(node, e) \in EngineStates /\ Advanced(node, EmitOn(node, e))
<1>0. /\ e.id \in Ids /\ e.parents \in Seq(Ids)
      /\ node.store \in Logs /\ node.state \in Seq(Ids) /\ node.graph \in SUBSET Edges
      /\ node.store \in Seq(Events) /\ Len(node.store) \in Nat /\ Len(node.state) \in Nat
    BY EventTypes DEF EngineStates, Logs
<1>1. CASE ~EmitAccepted(node, e)
  <2>1. /\ EmitOn(node, e) \in EngineStates
        /\ EmitOn(node, e).store = node.store /\ EmitOn(node, e).state = node.state
      BY <1>1 DEF EmitOn, EngineStates
  <2> QED  BY <2>1, AdvancedReflexive DEF Advanced
<1>2. CASE EmitAccepted(node, e)
  <2> DEFINE log == Append(node.store, e)
             applied == Append(node.state, e.id)
  <2>1. e.id \notin StoredIds(node.store) /\ ToSet(e.parents) \subseteq StoredIds(node.store)
      BY <1>2 DEF EmitAccepted, ToSet
  <2>2. /\ log \in Logs /\ Len(log) = Len(node.store) + 1 /\ Extends(node.store, log)
        /\ ParentsFirst(node.store) => ParentsFirst(log)
      BY <1>0, <2>1, AppendToLog
  <2>3. applied \in Seq(Ids) /\ Len(applied) = Len(node.state) + 1
      BY <1>0, AppendProperties
  <2>4. AddEdges(node.graph, e.parents, e.id) \in SUBSET Edges
      BY <1>0, AddEdgesType
  <2> DEFINE stored == [node EXCEPT !.store = log,
                                    !.graph = AddEdges(node.graph, e.parents, e.id)]
  <2>5. EmitOn(node, e) = IF ReducerThrows(node.state, e)
                             THEN [stored EXCEPT !.threw = TRUE]
                             ELSE [stored EXCEPT !.state = applied]
      BY <1>2 DEF EmitOn, EngineStates
  <2> HIDE DEF log, applied
  <2>6. /\ EmitOn(node, e) \in EngineStates
        /\ EmitOn(node, e).store = log
        /\ EmitOn(node, e).state \in {node.state, applied}
    <3>1. stored \in EngineStates /\ stored.store = log /\ stored.state = node.state
        BY <2>2, <2>4 DEF EngineStates
    <3> HIDE DEF stored
    <3> QED  BY <2>3, <2>5, <3>1 DEF EngineStates
  <2> QED  BY <2>2, <2>6 DEF Advanced
<1> QED  BY <1>1, <1>2

LEMMA MergeIntoLoop ==
    ASSUME NEW node \in EngineStates, NEW events \in Seq(Events)
    PROVE  \E f :
               /\ f \in [0..Len(events) -> EngineStates]
               /\ f[0] = node
               /\ \A i \in 1..Len(events) :
                      f[i] = IF f[i - 1].threw \/ events[i].id \in StoredIds(f[i - 1].store)
                                THEN f[i - 1] ELSE EmitOn(f[i - 1], events[i])
               /\ MergeInto(node, events) = f[Len(events)]
<1> DEFINE n == Len(events)
           Turn(i, s) == IF s.threw \/ events[i].id \in StoredIds(s.store)
                            THEN s ELSE EmitOn(s, events[i])
           F == [i \in 1..n |-> [s \in EngineStates |-> Turn(i, s)]]
           Run(g) == [i \in 0..n |-> IF i = 0 THEN node ELSE Turn(i, g[i - 1])]
<1>0. n \in Nat
    OBVIOUS
<1>1. \A i \in 1..n, s \in EngineStates : Turn(i, s) \in EngineStates
    BY EmitOnProperties
<1> HIDE DEF Turn
<1>2. F \in [1..n -> [EngineStates -> EngineStates]]
    BY <1>1
<1>3. \A i \in 1..n, s \in EngineStates : F[i][s] = Turn(i, s)
    OBVIOUS
<1> HIDE DEF F, n
<1>4. PICK f : IsRun(f, n, EngineStates, node, F)
    BY <1>0, <1>2, LoopExists
<1> USE DEF IsRun
<1>5. \A i \in 1..n : f[i] = Turn(i, f[i - 1])
  <2>1. \A i \in 1..n : f[i - 1] \in EngineStates
      BY <1>0, <1>4
  <2> QED  BY <1>3, <1>4, <2>1
<1>6. f = Run(f)
  <2>1. \A i \in 0..n : f[i] = Run(f)[i]
      BY <1>0, <1>4, <1>5
  <2> QED  BY <1>4, <2>1
<1> DEFINE g == CHOOSE h : h = Run(h)
<1>7. g = Run(g)
    BY <1>6
<1>8. MergeInto(node, events) = g[n]
    BY DEF MergeInto, Turn, n
<1> HIDE DEF g
<1>9. \A i \in 0..n : g[i] = IF i = 0 THEN node ELSE Turn(i, g[i - 1])
    BY <1>7
<1>10. SameTurns(f, g, n)
  <2>1. f[0] = g[0]
      BY <1>0, <1>4, <1>9
  <2>2. \A i \in 1..n : g[i] = Turn(i, g[i - 1])
      BY <1>0, <1>9
  <2> QED  BY <1>5, <2>1, <2>2 DEF SameTurns
<1>11. MergeInto(node, events) = f[n]
    BY <1>0, <1>8, <1>10, LoopUnique
<1> QED  BY <1>4, <1>5, <1>11 DEF Turn, n

\* What merge does to an engine is a sequence of emits, ended by the first
\* that throws.
LEMMA MergeIntoProperties ==
    ASSUME NEW node \in EngineStates, NEW events \in Seq(Events)
    PROVE  /\ MergeInto(node, events) \in EngineStates
           /\ Advanced(node, MergeInto(node, events))
<1> DEFINE n == Len(events)
<1>0. n \in Nat
    OBVIOUS
<1>1. PICK f : /\ f \in [0..n -> EngineStates]
               /\ f[0] = node
               /\ \A i \in 1..n :
                      f[i] = IF f[i - 1].threw \/ events[i].id \in StoredIds(f[i - 1].store)
                                THEN f[i - 1] ELSE EmitOn(f[i - 1], events[i])
               /\ MergeInto(node, events) = f[n]
    BY MergeIntoLoop
<1> DEFINE T == {m \in Nat : m <= n => Advanced(node, f[m])}
<1>2. 0 \in T
    BY <1>1, AdvancedReflexive
<1>3. ASSUME NEW m \in Nat, m \in T PROVE m + 1 \in T
  <2>1. CASE m + 1 <= n
    <3>1. m + 1 \in 1..n /\ (m + 1) - 1 = m /\ m <= n /\ m \in 0..n
        BY <1>0, <2>1
    <3>2. Advanced(node, f[m]) /\ f[m] \in EngineStates /\ events[m + 1] \in Events
        BY <1>1, <1>3, <3>1
    <3>3. f[m + 1] = f[m] \/ f[m + 1] = EmitOn(f[m], events[m + 1])
        BY <1>1, <3>1
    <3>4. f[m + 1] \in EngineStates /\ Advanced(f[m], f[m + 1])
        BY <3>2, <3>3, EmitOnProperties, AdvancedReflexive
    <3>5. Advanced(node, f[m + 1])
        BY <3>2, <3>4, AdvancedTransitive
    <3> QED  BY <3>5
  <2>2. CASE ~(m + 1 <= n)
      BY <2>2
  <2> QED  BY <2>1, <2>2
<1> HIDE DEF T
<1>4. n \in T
    BY <1>0, <1>2, <1>3, Induction
<1>5. Advanced(node, f[n])
    BY <1>0, <1>4 DEF T
<1> QED  BY <1>0, <1>1, <1>5

-----------------------------------------------------------------------------
(* The ranges that are sent.                                               *)

\* What a message from the holder of log carries: events of log, and with each
\* of them everything log holds before it, unless the receiver knows it.
Carries(known, log, events) ==
    /\ ToSet(events) \subseteq ToSet(log)
    /\ \A i \in DOMAIN events, k \in DOMAIN log :
           log[k] = events[i] =>
               \A j \in 1..(k - 1) : log[j] \in known \cup {events[r] : r \in 1..(i - 1)}

\* Everything log holds up to the event id is known.
Covers(known, log, id) ==
    \A i \in DOMAIN log : log[i].id = id => \A k \in 1..i : log[k] \in known

LEMMA RangesCarry ==
    ASSUME NEW log \in Logs, NEW known, NEW p \in 1..(Len(log) + 1), NEW q \in 0..Len(log),
           \A k \in 1..(p - 1) : log[k] \in known
    PROVE  /\ SubSeq(log, p, q) \in Seq(Events)
           /\ Carries(known, log, SubSeq(log, p, q))
           /\ p <= q => SubSeq(log, p, q) # <<>>
<1> DEFINE events == SubSeq(log, p, q)
<1>0. log \in Seq(Events) /\ Len(log) \in Nat /\ DOMAIN log = 1..Len(log)
    BY DEF Logs
<1>1. \A i \in p..q : i \in DOMAIN log /\ log[i] \in Events
    BY <1>0
<1>2. /\ events \in Seq(Events)
      /\ Len(events) = IF p <= q THEN q - p + 1 ELSE 0
      /\ \A i \in 1..(q - p + 1) : events[i] = log[p + i - 1]
    BY <1>1, SubSeqProperties
<1> HIDE DEF events
<1>3. \A i \in DOMAIN events : p + i - 1 \in DOMAIN log /\ events[i] = log[p + i - 1]
    BY <1>0, <1>2
<1>4. ASSUME NEW i \in DOMAIN events, NEW k \in DOMAIN log, log[k] = events[i],
             NEW j \in 1..(k - 1)
      PROVE  log[j] \in known \cup {events[r] : r \in 1..(i - 1)}
  <2>1. k = p + i - 1
      BY <1>3, <1>4 DEF Logs, Distinct
  <2>2. CASE j <= p - 1
      BY <1>0, <2>2
  <2>3. CASE j > p - 1
    <3>1. j - p + 1 \in 1..(i - 1) /\ j - p + 1 \in DOMAIN events
        BY <1>0, <1>2, <2>1, <2>3
    <3>2. events[j - p + 1] = log[j]
        BY <1>0, <1>3, <3>1
    <3> QED  BY <3>1, <3>2
  <2> QED  BY <1>0, <2>2, <2>3
<1>5. ToSet(events) \subseteq ToSet(log)
    BY <1>3 DEF ToSet
<1>6. p <= q => events # <<>>
    BY <1>0, <1>2
<1> QED  BY <1>2, <1>4, <1>5, <1>6 DEF Carries, events

LEMMA NoEventIsNoId ==
    ASSUME NEW log \in Seq(Events)
    PROVE  /\ NoEvent \notin StoredIds(log) /\ NeverSynced \notin StoredIds(log)
           /\ StoredIds(log) \subseteq Ids
<1>1. \A i \in DOMAIN log : log[i].id \in Ids
    BY EventTypes
<1> QED  BY <1>1, CursorAssumption DEF StoredIds

LEMMA EventsRangeType ==
    ASSUME NEW log \in Seq(Events), NEW from, NEW to
    PROVE  EventsRange(log, from, to) \in Seq(Events)
<1>1. IndexOf(log, from) \in 0..Len(log) /\ IndexOf(log, to) \in 0..Len(log) /\ Len(log) \in Nat
    BY IndexIsLeast
<1> DEFINE p == IF IndexOf(log, from) = 0 THEN 1 ELSE IndexOf(log, from)
           q == IF IndexOf(log, to) = 0 THEN Len(log) ELSE IndexOf(log, to)
<1>2. p \in 1..(Len(log) + 1) /\ q \in 0..Len(log) /\ EventsRange(log, from, to) = SubSeq(log, p, q)
    BY <1>1 DEF EventsRange
<1> HIDE DEF p, q
<1>3. \A i \in p..q : log[i] \in Events
    BY <1>1, <1>2
<1> QED  BY <1>1, <1>2, <1>3, SubSeqProperties

\* Everything log holds before the event id is known.
CoversBefore(known, log, id) == \A k \in 1..(IndexOf(log, id) - 1) : log[k] \in known

LEMMA NoEventCovers ==
    ASSUME NEW log \in Logs, NEW known
    PROVE  Covers(known, log, NoEvent) /\ Covers(known, log, NeverSynced)
BY NoEventIsNoId DEF Covers, StoredIds, Logs

LEMMA CoversIsCoversBefore ==
    ASSUME NEW log \in Logs, NEW known, NEW id, Covers(known, log, id)
    PROVE  CoversBefore(known, log, id)
<1>1. log \in Seq(Events) /\ Len(log) \in Nat
    BY DEF Logs
<1>2. \/ IndexOf(log, id) = 0
      \/ IndexOf(log, id) \in 1..Len(log) /\ log[IndexOf(log, id)].id = id
    BY <1>1, IndexIsLeast
<1> QED  BY <1>1, <1>2 DEF Covers, CoversBefore

\* What createSyncMessage and respondToSync put in a message, if the receiver
\* holds what comes before it.
LEMMA EventsRangeCarries ==
    ASSUME NEW log \in Logs, NEW known,
           NEW from \in StoredIds(log) \cup {NoEvent},
           NEW to \in StoredIds(log) \cup {NoEvent},
           CoversBefore(known, log, from)
    PROVE  /\ EventsRange(log, from, to) \in Seq(Events)
           /\ Carries(known, log, EventsRange(log, from, to))
           /\ EventsRange(log, from, to) = <<>> => Covers(known, log, to)
<1>0. log \in Seq(Events) /\ Len(log) \in Nat /\ DOMAIN log = 1..Len(log) /\ Distinct(log)
    BY DEF Logs
<1> DEFINE first == IndexOf(log, from)
           last == IndexOf(log, to)
           p == IF first = 0 THEN 1 ELSE first
           q == IF last = 0 THEN Len(log) ELSE last
<1>1. first \in 0..Len(log)
    BY <1>0, IndexIsLeast
<1>2. /\ to # NoEvent => last \in 1..Len(log) /\ log[last].id = to
      /\ to = NoEvent => last = 0
    BY <1>0, IndexIsLeast, NoEventIsNoId
<1>3. EventsRange(log, from, to) = SubSeq(log, p, q)
    BY DEF EventsRange
<1>4. \A k \in 1..(first - 1) : log[k] \in known
    BY DEF CoversBefore
<1> HIDE DEF first, last
<1>5. p \in 1..(Len(log) + 1) /\ q \in 0..Len(log)
    BY <1>0, <1>1, <1>2
<1>6. \A k \in 1..(p - 1) : log[k] \in known
    BY <1>1, <1>4
<1>7. ASSUME to # NoEvent, p > q PROVE Covers(known, log, to)
  <2>1. q = last /\ last \in 1..Len(log) /\ log[last].id = to
      BY <1>2, <1>7
  <2>2. \A i \in DOMAIN log : log[i].id = to => i = last
      BY <1>0, <2>1 DEF Distinct
  <2>3. \A k \in 1..last : k \in 1..(p - 1)
      BY <1>5, <1>7, <2>1
  <2> QED  BY <1>6, <2>2, <2>3 DEF Covers
<1>8. to = NoEvent => Covers(known, log, to)
    BY NoEventCovers
<1> HIDE DEF p, q
<1>9. /\ SubSeq(log, p, q) \in Seq(Events)
      /\ Carries(known, log, SubSeq(log, p, q))
      /\ p <= q => SubSeq(log, p, q) # <<>>
    BY <1>5, <1>6, RangesCarry
<1>10. EventsRange(log, from, to) = <<>> => p > q
    BY <1>3, <1>5, <1>9
<1> QED  BY <1>3, <1>7, <1>8, <1>9, <1>10

\* More is known and the log has grown: what was covered and carried still is.
LEMMA CoversGrows ==
    ASSUME NEW old \in Logs, NEW new \in Logs, Extends(old, new),
           NEW known, NEW more, known \subseteq more,
           NEW id \in StoredIds(old) \cup {NoEvent, NeverSynced}, Covers(known, old, id)
    PROVE  Covers(more, new, id) /\ id \in StoredIds(new) \cup {NoEvent, NeverSynced}
<1>0. old \in Seq(Events) /\ new \in Seq(Events) /\ Distinct(new)
    BY DEF Logs
<1>1. StoredIds(old) \subseteq StoredIds(new)
    BY <1>0, ExtendsMembers
<1>2. ASSUME NEW i \in DOMAIN new, new[i].id = id, NEW k \in 1..i
      PROVE  new[k] \in more
  <2>1. id \in StoredIds(new)
      BY <1>2 DEF StoredIds
  <2>2. PICK o \in DOMAIN old : old[o].id = id
      BY <1>0, <2>1, NoEventIsNoId DEF StoredIds
  <2>3. o \in DOMAIN new /\ new[o].id = id
      BY <1>0, <2>2 DEF Extends
  <2>4. i = o
      BY <1>0, <1>2, <2>3 DEF Distinct
  <2>5. old[k] \in known /\ k \in DOMAIN old
      BY <1>0, <2>2, <2>4 DEF Covers
  <2> QED  BY <2>5 DEF Extends
<1> QED  BY <1>1, <1>2 DEF Covers

LEMMA CarriesGrows ==
    ASSUME NEW old \in Logs, NEW new \in Logs, Extends(old, new),
           NEW known, NEW more, known \subseteq more,
           NEW events \in Seq(Events), Carries(known, old, events)
    PROVE  Carries(more, new, events)
<1>0. old \in Seq(Events) /\ new \in Seq(Events) /\ Distinct(new)
    BY DEF Logs
<1>1. ToSet(events) \subseteq ToSet(new)
    BY <1>0, ExtendsMembers DEF Carries
<1>2. ASSUME NEW i \in DOMAIN events, NEW k \in DOMAIN new, new[k] = events[i],
             NEW j \in 1..(k - 1)
      PROVE  new[j] \in more \cup {events[r] : r \in 1..(i - 1)}
  <2>1. PICK o \in DOMAIN old : old[o] = events[i]
      BY DEF Carries, ToSet
  <2>2. o \in DOMAIN new /\ new[o] = events[i]
      BY <1>0, <2>1 DEF Extends
  <2>3. k = o
      BY <1>0, <1>2, <2>2 DEF Distinct
  <2>4. j \in DOMAIN old /\ old[j] \in known \cup {events[r] : r \in 1..(i - 1)}
      BY <1>0, <2>1, <2>3 DEF Carries
  <2> QED  BY <2>4 DEF Extends
<1> QED  BY <1>1, <1>2 DEF Carries

-----------------------------------------------------------------------------
(* The inductive invariant.                                                *)

StoresAreLogs == \A n \in Nodes : store[n] \in Logs

\* What holds whatever is pushed: an id is stored once.
LInv == TypeOK /\ StoresAreLogs

CursorsStored ==
    \A n, m \in Nodes : cursor[n][m] \in StoredIds(store[m]) \cup {NoEvent, NeverSynced}

\* Nothing is skipped by a message, however late it arrives: neither by the
\* events it carries nor by the answer a request will get.
MessageOK(msg) ==
    /\ Carries(ToSet(store[msg.to]), store[msg.from], msg.events)
    /\ msg.events = <<>> =>
           /\ msg.upTo \in StoredIds(store[msg.from]) \cup {NoEvent}
           /\ Covers(ToSet(store[msg.to]), store[msg.from], msg.upTo)
    /\ msg.type = "request" =>
           /\ msg.after \in StoredIds(store[msg.to]) \cup {NoEvent}
           /\ Covers(ToSet(store[msg.from]), store[msg.to], msg.after)

MessagesCarry == \A msg \in network : MessageOK(msg)

\* The invariant until a push leaves a gap.
IInv ==
    /\ ~skipped
    /\ LInv
    /\ ParentsPrecede
    /\ CursorsStored
    /\ CursorCoversPrefix
    /\ MessagesCarry

CursorOK(n, m) ==
    /\ cursor[n][m] \in StoredIds(store[m]) \cup {NoEvent, NeverSynced}
    /\ Covers(ToSet(store[n]), store[m], cursor[n][m])

LEMMA CursorsOK ==
    ASSUME ~skipped
    PROVE  (CursorsStored /\ CursorCoversPrefix) <=> \A n, m \in Nodes : CursorOK(n, m)
BY DEF CursorsStored, CursorCoversPrefix, CursorOK, Covers

\* What every step does to the stores and the states.
StoresGrow ==
    /\ store' \in [Nodes -> Seq(Events)]
    /\ state' \in [Nodes -> Seq(Ids)]
    /\ graph' \in [Nodes -> SUBSET Edges]
    /\ \A n \in Nodes :
           /\ store'[n] \in Logs
           /\ Extends(store[n], store'[n])
           /\ ParentsFirst(store'[n])

LEMMA EngineTypes ==
    ASSUME LInv, NEW n \in Nodes
    PROVE  Engine(n) \in EngineStates
BY DEF LInv, TypeOK, StoresAreLogs, Engine, EngineStates

LEMMA MissingEventsType ==
    ASSUME LInv, NEW m \in Nodes, NEW id
    PROVE  MissingEvents(store[m], id) \in Seq(Events)
<1>1. store[m] \in Seq(Events) /\ Len(store[m]) \in Nat
    BY DEF LInv, TypeOK
<1>2. IndexOf(store[m], id) \in 0..Len(store[m])
    BY <1>1, IndexIsLeast
<1>3. \A i \in (IndexOf(store[m], id) + 1)..Len(store[m]) : store[m][i] \in Events
    BY <1>1, <1>2
<1> QED  BY <1>1, <1>2, <1>3, SubSeqProperties DEF MissingEvents

LEMMA EngineState ==
    ASSUME IInv, NEW n \in Nodes
    PROVE  /\ Engine(n) \in EngineStates
           /\ Engine(n).store = store[n] /\ Engine(n).state = state[n]
           /\ ParentsFirst(store[n])
BY DEF IInv, LInv, TypeOK, StoresAreLogs, Engine, EngineStates, ParentsPrecede, ParentsFirst

LEMMA StoresUnchanged ==
    ASSUME IInv, UNCHANGED <<store, state, graph>>
    PROVE  StoresGrow
<1>1. ASSUME NEW n \in Nodes
      PROVE  /\ store'[n] \in Logs /\ Extends(store[n], store'[n])
             /\ ParentsFirst(store'[n])
  <2>1. store[n] \in Logs /\ ParentsFirst(store[n])
      BY EngineState DEF IInv, LInv, StoresAreLogs
  <2>2. Extends(store[n], store[n])
      BY <2>1 DEF Logs, Extends
  <2> QED  BY <2>1, <2>2
<1> QED  BY <1>1 DEF StoresGrow, IInv, LInv, TypeOK

LEMMA BecomesGrows ==
    ASSUME IInv, NEW n \in Nodes, NEW node \in EngineStates,
           Advanced(Engine(n), node), Becomes(n, node)
    PROVE  StoresGrow
<1>0. node.store \in Logs /\ node.store \in Seq(Events) /\ node.state \in Seq(Ids)
      /\ node.graph \in SUBSET Edges
    BY DEF EngineStates, Logs
<1>1. /\ store' = [store EXCEPT ![n] = node.store]
      /\ state' = [state EXCEPT ![n] = node.state]
      /\ graph' = [graph EXCEPT ![n] = node.graph]
    BY DEF Becomes
<1>2. ASSUME NEW m \in Nodes
      PROVE  /\ store'[m] \in Logs /\ Extends(store[m], store'[m])
             /\ ParentsFirst(store'[m])
  <2>0. store \in [Nodes -> Seq(Events)] /\ state \in [Nodes -> Seq(Ids)]
      BY DEF IInv, LInv, TypeOK
  <2>1. CASE m = n
    <3>1. store'[m] = node.store
        BY <1>1, <2>0, <2>1
    <3> QED  BY <1>0, <2>1, <3>1, EngineState DEF Advanced
  <2>2. CASE m # n
    <3>1. store'[m] = store[m] /\ state'[m] = state[m]
        BY <1>1, <2>0, <2>2
    <3>2. store[m] \in Logs /\ ParentsFirst(store[m])
        BY EngineState DEF IInv, LInv, StoresAreLogs
    <3>3. Extends(store[m], store[m])
        BY <3>2 DEF Logs, Extends
    <3> QED  BY <3>1, <3>2, <3>3
  <2> QED  BY <2>1, <2>2
<1> QED  BY <1>0, <1>1, <1>2 DEF StoresGrow, IInv, LInv, TypeOK

LEMMA MessageTypes ==
    ASSUME TypeOK, NEW msg \in network
    PROVE  /\ msg \in Messages
           /\ msg.from \in Nodes /\ msg.to \in Nodes /\ msg.events \in Seq(Events)
           /\ msg.after \in Ids \cup {NoEvent} /\ msg.upTo \in Ids \cup {NoEvent}
BY DEF TypeOK, Messages

LEMMA DeliverGrows ==
    ASSUME IInv, NEW msg \in network, NEW kept, Deliver(msg, kept)
    PROVE  /\ StoresGrow
           /\ CursorAfter(msg) \in StoredIds(store'[msg.from]) \cup {NoEvent}
           /\ Covers(ToSet(store'[msg.to]), store'[msg.from], CursorAfter(msg))
<1> DEFINE from == msg.from
           to == msg.to
           new == AppendUnseen(store[to], msg.events)
<1>0. /\ from \in Nodes /\ to \in Nodes /\ msg.events \in Seq(Events)
      /\ store[from] \in Logs /\ store[to] \in Logs
      /\ ParentsFirst(store[from]) /\ ParentsFirst(store[to])
      /\ MessageOK(msg)
    BY MessageTypes, EngineState DEF IInv, LInv, StoresAreLogs, MessagesCarry
<1>1. /\ GrownBy(store[to], new, ToSet(msg.events))
      /\ ParentsWith(store[to], msg.events) => ParentsFirst(new)
    BY <1>0, AppendUnseenProperties
<1>2. store' = [store EXCEPT ![to] = new] /\ UNCHANGED <<state, graph>>
    BY DEF Deliver
<1> HIDE DEF new, from, to
<1>3. ParentsWith(store[to], msg.events)
  <2> SUFFICES ASSUME NEW i \in DOMAIN msg.events
               PROVE  ToSet(msg.events[i].parents) \subseteq
                          StoredIds(store[to]) \cup {msg.events[k].id : k \in 1..(i - 1)}
      BY DEF ParentsWith
  <2>1. PICK k \in DOMAIN store[from] : store[from][k] = msg.events[i]
      BY <1>0 DEF MessageOK, Carries, ToSet, from
  <2>2. \A j \in 1..(k - 1) :
            store[from][j] \in ToSet(store[to]) \cup {msg.events[r] : r \in 1..(i - 1)}
      BY <1>0, <2>1 DEF MessageOK, Carries, from, to
  <2>3. \A j \in 1..(k - 1) :
            store[from][j].id \in StoredIds(store[to]) \cup {msg.events[r].id : r \in 1..(i - 1)}
      BY <2>2 DEF ToSet, StoredIds
  <2>4. ToSet(msg.events[i].parents) \subseteq {store[from][j].id : j \in 1..(k - 1)}
      BY <1>0, <2>1 DEF ParentsFirst
  <2> QED  BY <2>3, <2>4
<1>4. new \in Logs /\ new \in Seq(Events) /\ Extends(store[to], new) /\ ParentsFirst(new)
    BY <1>1, <1>3 DEF GrownBy, Logs
<1>6. ASSUME NEW m \in Nodes
      PROVE  /\ store'[m] \in Logs /\ Extends(store[m], store'[m])
             /\ ParentsFirst(store'[m])
  <2>0. store \in [Nodes -> Seq(Events)] /\ state \in [Nodes -> Seq(Ids)]
      BY DEF IInv, LInv, TypeOK
  <2>1. CASE m = to
    <3>1. store'[m] = new /\ state' = state
        BY <1>2, <2>0, <2>1
    <3> QED  BY <1>4, <2>1, <3>1
  <2>2. CASE m # to
    <3>1. store'[m] = store[m] /\ state' = state
        BY <1>2, <2>0, <2>2
    <3>2. store[m] \in Logs /\ ParentsFirst(store[m])
        BY EngineState DEF IInv, LInv, StoresAreLogs
    <3>3. Extends(store[m], store[m])
        BY <3>2 DEF Logs, Extends
    <3> QED  BY <3>1, <3>2, <3>3
  <2> QED  BY <2>1, <2>2
<1>7. StoresGrow
    BY <1>2, <1>4, <1>6 DEF StoresGrow, IInv, LInv, TypeOK
<1>8. ToSet(store'[to]) = ToSet(store[to]) \cup ToSet(msg.events)
    BY <1>0, <1>1, <1>2 DEF GrownBy, IInv, LInv, TypeOK, to
<1>9. ASSUME msg.events # <<>>
      PROVE  /\ CursorAfter(msg) \in StoredIds(store[from])
             /\ Covers(ToSet(store'[to]), store[from], CursorAfter(msg))
  <2> DEFINE n == Len(msg.events)
             last == msg.events[n]
  <2>1. n \in DOMAIN msg.events /\ last \in Events /\ CursorAfter(msg) = last.id
      BY <1>0, <1>9 DEF CursorAfter, Last
  <2>2. last \in ToSet(store[from])
      BY <1>0, <2>1 DEF MessageOK, Carries, ToSet, from
  <2>3. ASSUME NEW i \in DOMAIN store[from], store[from][i].id = last.id, NEW k \in 1..i
        PROVE  store[from][k] \in ToSet(store'[to])
    <3>1. store[from][i] \in Events /\ i \in Nat
        BY <1>0 DEF Logs
    <3>2. store[from][i] = msg.events[n]
        BY <2>1, <2>3, <3>1, IdsNameEvents
    <3>3. CASE k = i
        BY <1>8, <2>1, <3>2, <3>3 DEF ToSet
    <3>4. CASE k # i
      <4>1. k \in 1..(i - 1)
          BY <3>1, <3>4
      <4>2. store[from][k] \in ToSet(store[to]) \cup {msg.events[r] : r \in 1..(n - 1)}
          BY <1>0, <2>1, <3>2, <4>1 DEF MessageOK, Carries, from, to
      <4>3. \A r \in 1..(n - 1) : msg.events[r] \in ToSet(msg.events)
          BY <1>0 DEF ToSet
      <4> QED  BY <1>8, <4>2, <4>3
    <3> QED  BY <3>3, <3>4
  <2>4. last.id \in StoredIds(store[from])
      BY <2>2 DEF ToSet, StoredIds
  <2> QED  BY <2>1, <2>3, <2>4 DEF Covers
<1>10. ASSUME msg.events = <<>>
       PROVE  /\ CursorAfter(msg) \in StoredIds(store[from]) \cup {NoEvent}
              /\ Covers(ToSet(store'[to]), store[from], CursorAfter(msg))
  <2>1. /\ CursorAfter(msg) \in StoredIds(store[from]) \cup {NoEvent}
        /\ Covers(ToSet(store[to]), store[from], CursorAfter(msg))
      BY <1>0, <1>10 DEF CursorAfter, MessageOK, from, to
  <2> QED  BY <1>8, <2>1 DEF Covers
<1>11. store'[from] \in Logs /\ Extends(store[from], store'[from])
    BY <1>0, <1>6
<1> QED  BY <1>0, <1>7, <1>9, <1>10, <1>11, CoversGrows, ExtendsMembers DEF Logs, from, to

\* What nodes know of each other, and what messages carry, survives growth.
LEMMA KnowledgeGrows ==
    ASSUME IInv, StoresGrow
    PROVE  /\ \A n, m \in Nodes : CursorOK(n, m) /\ cursor'[n][m] = cursor[n][m] => CursorOK(n, m)'
           /\ \A msg \in Messages : MessageOK(msg) => MessageOK(msg)'
<1>1. ASSUME NEW n \in Nodes
      PROVE  /\ store[n] \in Logs /\ store'[n] \in Logs /\ Extends(store[n], store'[n])
             /\ ToSet(store[n]) \subseteq ToSet(store'[n])
  <2>1. store[n] \in Logs /\ store'[n] \in Logs /\ Extends(store[n], store'[n])
      BY DEF IInv, LInv, StoresAreLogs, StoresGrow
  <2> QED  BY <2>1, ExtendsMembers DEF Logs
<1>2. ASSUME NEW n \in Nodes, NEW m \in Nodes,
             NEW id \in StoredIds(store[m]) \cup {NoEvent, NeverSynced},
             Covers(ToSet(store[n]), store[m], id)
      PROVE  /\ Covers(ToSet(store'[n]), store'[m], id)
             /\ id \in StoredIds(store'[m]) \cup {NoEvent, NeverSynced}
    BY <1>1, <1>2, CoversGrows
<1>3. ASSUME NEW n \in Nodes, NEW m \in Nodes, CursorOK(n, m), cursor'[n][m] = cursor[n][m]
      PROVE  CursorOK(n, m)'
    BY <1>2, <1>3 DEF CursorOK
<1>4. ASSUME NEW msg \in Messages, MessageOK(msg)
      PROVE  MessageOK(msg)'
  <2>0. msg.from \in Nodes /\ msg.to \in Nodes /\ msg.events \in Seq(Events)
      BY DEF Messages
  <2>1. Carries(ToSet(store'[msg.to]), store'[msg.from], msg.events)
      BY <1>1, <1>4, <2>0, CarriesGrows DEF MessageOK
  <2>2. ASSUME msg.type = "request"
        PROVE  /\ msg.after \in StoredIds(store'[msg.to]) \cup {NoEvent}
               /\ Covers(ToSet(store'[msg.from]), store'[msg.to], msg.after)
    <3>1. /\ msg.after \in StoredIds(store[msg.to]) \cup {NoEvent}
          /\ Covers(ToSet(store[msg.from]), store[msg.to], msg.after)
        BY <1>4, <2>2 DEF MessageOK
    <3>2. StoredIds(store[msg.to]) \subseteq StoredIds(store'[msg.to])
        BY <1>1, <2>0, ExtendsMembers DEF Logs
    <3> QED  BY <1>2, <2>0, <3>1, <3>2
  <2>3. ASSUME msg.events = <<>>
        PROVE  /\ msg.upTo \in StoredIds(store'[msg.from]) \cup {NoEvent}
               /\ Covers(ToSet(store'[msg.to]), store'[msg.from], msg.upTo)
    <3>1. /\ msg.upTo \in StoredIds(store[msg.from]) \cup {NoEvent}
          /\ Covers(ToSet(store[msg.to]), store[msg.from], msg.upTo)
        BY <1>4, <2>3 DEF MessageOK
    <3>2. StoredIds(store[msg.from]) \subseteq StoredIds(store'[msg.from])
        BY <1>1, <2>0, ExtendsMembers DEF Logs
    <3> QED  BY <1>2, <2>0, <3>1, <3>2
  <2> QED  BY <1>4, <2>1, <2>2, <2>3 DEF MessageOK
<1> QED  BY <1>3, <1>4

\* What is left to show of a step.
LEMMA StepKeeps ==
    ASSUME IInv, StoresGrow, ~skipped', skipped' \in BOOLEAN,
           cursor' \in [Nodes -> [Nodes -> Ids \cup {NoEvent, NeverSynced}]],
           \A n, m \in Nodes : cursor'[n][m] = cursor[n][m] \/ CursorOK(n, m)',
           \A msg \in network' : msg \in network \/ (msg \in Messages /\ MessageOK(msg)')
    PROVE  IInv'
<1>1. \A n, m \in Nodes : CursorOK(n, m)'
    BY KnowledgeGrows, CursorsOK DEF IInv
<1>2. \A msg \in network' : msg \in Messages /\ MessageOK(msg)'
    BY KnowledgeGrows DEF IInv, LInv, TypeOK, MessagesCarry
<1>3. TypeOK'
    BY <1>2 DEF TypeOK, StoresGrow
<1>4. CursorsStored' /\ CursorCoversPrefix'
    BY <1>1 DEF CursorsStored, CursorCoversPrefix, CursorOK, Covers
<1>6. StoresAreLogs' /\ ParentsPrecede'
    BY DEF StoresAreLogs, ParentsPrecede, ParentsFirst, StoresGrow
<1> QED  BY <1>2, <1>3, <1>4, <1>6 DEF IInv, LInv, MessagesCarry

LEMMA InitIInv == Init => IInv
<1> SUFFICES ASSUME Init PROVE IInv
    OBVIOUS
<1>1. <<>> \in Logs /\ StoredIds(<<>>) = {} /\ <<>> \in Seq(Events) /\ <<>> \in Seq(Ids)
    BY DEF Logs, Distinct, StoredIds
<1>2. TypeOK
    BY <1>1 DEF Init, TypeOK
<1>3. StoresAreLogs /\ ParentsPrecede /\ CursorsStored /\ CursorCoversPrefix /\ MessagesCarry
    BY <1>1 DEF Init, StoresAreLogs, ParentsPrecede, CursorsStored, CursorCoversPrefix, MessagesCarry
<1> QED  BY <1>2, <1>3 DEF IInv, LInv, Init

\* The two calls of createSyncMessage and requestSync, and the answer.
LEMMA SendKeeps ==
    ASSUME IInv, NEW msg \in Messages, MessageOK(msg),
           network' = network \cup {msg}, UNCHANGED <<store, state, graph, cursor>>,
           ~skipped', skipped' \in BOOLEAN
    PROVE  IInv'
<1>1. StoresGrow
    BY StoresUnchanged
<1>2. MessageOK(msg)'
    BY <1>1, KnowledgeGrows
<1>3. cursor' \in [Nodes -> [Nodes -> Ids \cup {NoEvent, NeverSynced}]]
    BY DEF IInv, LInv, TypeOK
<1>4. \A r \in network' : r \in network \/ (r \in Messages /\ MessageOK(r)')
    BY <1>2
<1> QED  BY <1>1, <1>3, <1>4, StepKeeps

LEMMA PushSendsOK ==
    ASSUME IInv, NEW n \in Nodes, NEW m \in Nodes, NEW from, NEW upTo,
           Push(n, m, from, upTo), ~skipped'
    PROVE  IInv'
<1> DEFINE events == EventsRange(store[n], from, upTo)
           msg == [type |-> "sync", from |-> n, to |-> m, after |-> from, upTo |-> upTo,
                   events |-> events]
<1>1. /\ from \in StoredIds(store[n]) \cup {NoEvent}
      /\ upTo \in StoredIds(store[n]) \cup {NoEvent}
      /\ store[n] \in Logs
    BY DEF Push, IInv, LInv, StoresAreLogs
<1>2. CoversBefore(ToSet(store[m]), store[n], from)
  <2>1. ~LeavesGap(n, m, from)
      BY DEF Push
  <2>2. IndexOf(store[n], from) \in 0..Len(store[n]) /\ DOMAIN store[n] = 1..Len(store[n])
        /\ Len(store[n]) \in Nat
      BY <1>1, IndexIsLeast DEF Logs
  <2>3. \A i \in DOMAIN store[n] : i < IndexOf(store[n], from) => store[n][i] \in ToSet(store[m])
      BY <2>1 DEF LeavesGap
  <2> QED  BY <2>2, <2>3 DEF CoversBefore
<1>3. /\ events \in Seq(Events) /\ Carries(ToSet(store[m]), store[n], events)
      /\ events = <<>> => Covers(ToSet(store[m]), store[n], upTo)
    BY <1>1, <1>2, EventsRangeCarries
<1>4. network' = network \cup {msg} /\ UNCHANGED <<store, state, graph, cursor>>
    BY DEF Push, Send
<1>5. skipped' \in BOOLEAN
    BY DEF Push
<1> HIDE DEF events
<1>6. from \in Ids \cup {NoEvent} /\ upTo \in Ids \cup {NoEvent}
    BY <1>1, NoEventIsNoId DEF Logs
<1>7. msg \in Messages
    BY <1>3, <1>6 DEF Messages
<1>8. MessageOK(msg)
    BY <1>1, <1>3 DEF MessageOK
<1> HIDE DEF msg
<1> QED  BY <1>4, <1>5, <1>7, <1>8, SendKeeps

LEMMA RequestSendsOK ==
    ASSUME IInv, NEW n \in Nodes, NEW m \in Nodes, Request(n, m)
    PROVE  IInv'
<1> DEFINE msg == [type |-> "request", from |-> n, to |-> m, after |-> CursorFor(n, m),
                   upTo |-> NoEvent, events |-> <<>>]
<1>1. /\ network' = network \cup {msg} /\ UNCHANGED <<store, state, graph, cursor>>
      /\ ~skipped' /\ skipped' \in BOOLEAN
    BY DEF Request, Send, IInv, LInv, TypeOK
<1>2. CursorOK(n, m) /\ store[m] \in Logs
    BY CursorsOK DEF IInv, LInv, StoresAreLogs
<1>3. /\ CursorFor(n, m) \in StoredIds(store[m]) \cup {NoEvent}
      /\ Covers(ToSet(store[n]), store[m], CursorFor(n, m))
    BY <1>2, NoEventCovers DEF CursorFor, CursorOK
<1>4. CursorFor(n, m) \in Ids \cup {NoEvent}
    BY <1>2, <1>3, NoEventIsNoId DEF Logs
<1>5. msg \in Messages
    BY <1>4 DEF Messages
<1>6. MessageOK(msg)
  <2>1. /\ Carries(ToSet(store[m]), store[n], <<>>)
        /\ Covers(ToSet(store[m]), store[n], NoEvent)
      BY NoEventCovers DEF Carries, ToSet, IInv, LInv, StoresAreLogs
  <2> QED  BY <1>3, <2>1 DEF MessageOK
<1> HIDE DEF msg
<1> QED  BY <1>1, <1>5, <1>6, SendKeeps

LEMMA DeliverOK ==
    ASSUME IInv, NEW msg \in network, NEW kept \in SUBSET network, Deliver(msg, kept)
    PROVE  IInv'
<1>0. /\ msg \in Messages /\ msg.from \in Nodes /\ msg.to \in Nodes
      /\ msg.after \in Ids \cup {NoEvent} /\ MessageOK(msg)
    BY MessageTypes DEF IInv, LInv, MessagesCarry
<1>1. /\ StoresGrow
      /\ CursorAfter(msg) \in StoredIds(store'[msg.from]) \cup {NoEvent}
      /\ Covers(ToSet(store'[msg.to]), store'[msg.from], CursorAfter(msg))
    BY DeliverGrows
<1>2. /\ cursor' = [cursor EXCEPT ![msg.to][msg.from] = CursorAfter(msg)]
      /\ ~skipped' /\ skipped' \in BOOLEAN
    BY DEF Deliver, IInv, LInv, TypeOK
<1>3. CursorAfter(msg) \in Ids \cup {NoEvent}
    BY <1>0, <1>1, NoEventIsNoId DEF StoresGrow
<1>4. /\ cursor \in [Nodes -> [Nodes -> Ids \cup {NoEvent, NeverSynced}]]
      /\ cursor' \in [Nodes -> [Nodes -> Ids \cup {NoEvent, NeverSynced}]]
    BY <1>0, <1>2, <1>3 DEF IInv, LInv, TypeOK
<1>5. ASSUME NEW n \in Nodes, NEW m \in Nodes, cursor'[n][m] # cursor[n][m]
      PROVE  CursorOK(n, m)'
  <2>1. n = msg.to /\ m = msg.from /\ cursor'[n][m] = CursorAfter(msg)
      BY <1>0, <1>2, <1>4, <1>5
  <2> QED  BY <1>1, <2>1 DEF CursorOK
<1>6. ASSUME msg.type = "request"
      PROVE  Response(msg) \in Messages /\ MessageOK(Response(msg))
  <2> DEFINE events == EventsRange(store[msg.to], msg.after, NoEvent)
  <2>1. /\ msg.after \in StoredIds(store[msg.to]) \cup {NoEvent}
        /\ Covers(ToSet(store[msg.from]), store[msg.to], msg.after)
      BY <1>0, <1>6 DEF MessageOK
  <2>2. events \in Seq(Events) /\ Carries(ToSet(store[msg.from]), store[msg.to], events)
      BY <1>0, <2>1, CoversIsCoversBefore, EventsRangeCarries DEF IInv, LInv, StoresAreLogs
  <2> HIDE DEF events
  <2>3. Response(msg) = [type |-> "response", from |-> msg.to, to |-> msg.from,
                         after |-> msg.after, upTo |-> NoEvent, events |-> events]
      BY DEF Response, events
  <2>4. Covers(ToSet(store[msg.from]), store[msg.to], NoEvent)
      BY <1>0, NoEventCovers DEF IInv, LInv, StoresAreLogs
  <2> QED  BY <1>0, <2>2, <2>3, <2>4 DEF MessageOK, Messages
<1>7. \A r \in network' : r \in network \/ (r = Response(msg) /\ msg.type = "request")
    BY DEF Deliver
<1>8. \A r \in network' : r \in network \/ (r \in Messages /\ MessageOK(r)')
    BY <1>1, <1>6, <1>7, KnowledgeGrows
<1> QED  BY <1>1, <1>2, <1>4, <1>5, <1>8, StepKeeps

LEMMA EmitsAdvance ==
    ASSUME IInv, NEW n \in Nodes,
           (\E e \in Events : Emit(n, e)) \/ (\E m \in Nodes : Merge(n, m))
    PROVE  IInv' /\ StoresGrow
<1>1. ASSUME NEW e \in Events, Emit(n, e) PROVE StoresGrow
    BY <1>1, EngineState, EmitOnProperties, BecomesGrows DEF Emit
<1>2. ASSUME NEW m \in Nodes, Merge(n, m) PROVE StoresGrow
  <2>1. MissingEvents(store[m], CursorFor(n, m)) \in Seq(Events)
      BY MissingEventsType DEF IInv
  <2> QED  BY <1>2, <2>1, EngineState, MergeIntoProperties, BecomesGrows DEF Merge
<1>3. StoresGrow /\ UNCHANGED <<cursor, network, skipped>>
    BY <1>1, <1>2 DEF Emit, Merge
<1> QED  BY <1>3, StepKeeps DEF IInv, LInv, TypeOK

LEMMA ClearOK ==
    ASSUME IInv, NEW n \in Nodes, ClearSyncStates(n)
    PROVE  IInv'
<1>1. cursor' = [cursor EXCEPT ![n] = [m \in Nodes |-> NeverSynced]]
      /\ UNCHANGED <<store, state, graph, network, skipped>>
    BY DEF ClearSyncStates
<1>2. StoresGrow
    BY <1>1, StoresUnchanged
<1>3. cursor \in [Nodes -> [Nodes -> Ids \cup {NoEvent, NeverSynced}]]
    BY DEF IInv, LInv, TypeOK
<1>4. cursor' \in [Nodes -> [Nodes -> Ids \cup {NoEvent, NeverSynced}]]
    BY <1>1, <1>3
<1>5. ASSUME NEW k \in Nodes, NEW m \in Nodes, cursor'[k][m] # cursor[k][m]
      PROVE  CursorOK(k, m)'
  <2>1. cursor'[k][m] = NeverSynced
      BY <1>1, <1>3, <1>5
  <2>2. store'[m] \in Logs
      BY <1>2 DEF StoresGrow
  <2> QED  BY <2>1, <2>2, NoEventCovers DEF CursorOK
<1> QED  BY <1>1, <1>2, <1>4, <1>5, StepKeeps DEF IInv, LInv, TypeOK

LEMMA NextIInv ==
    ASSUME IInv, [Next]_vars, ~skipped'
    PROVE  IInv'
<1>1. ASSUME NEW n \in Nodes, NEW e \in Events, Emit(n, e) PROVE IInv'
    BY <1>1, EmitsAdvance
<1>2. ASSUME NEW n \in Nodes, NEW m \in Nodes, Request(n, m) PROVE IInv'
    BY <1>2, RequestSendsOK
<1>3. ASSUME NEW n \in Nodes, NEW m \in Nodes, Merge(n, m) PROVE IInv'
    BY <1>3, EmitsAdvance
<1>4. ASSUME NEW n \in Nodes, NEW m \in Nodes, NEW from, NEW upTo, Push(n, m, from, upTo)
      PROVE  IInv'
    BY <1>4, PushSendsOK
<1>5. ASSUME NEW msg \in network, Receive(msg) PROVE IInv'
  <2>1. ASSUME NEW kept \in SUBSET network, Deliver(msg, kept) PROVE IInv'
      BY <2>1, DeliverOK
  <2> QED  BY <1>5, <2>1 DEF Receive
<1>6. ASSUME NEW msg \in network, Lose(msg) PROVE IInv'
  <2>1. /\ StoresGrow /\ network' \subseteq network /\ cursor' = cursor
        /\ skipped' \in BOOLEAN
      BY <1>6, StoresUnchanged DEF Lose, IInv, LInv, TypeOK
  <2> QED  BY <2>1, StepKeeps DEF IInv, LInv, TypeOK
<1>7. ASSUME NEW n \in Nodes, ClearSyncStates(n) PROVE IInv'
    BY <1>7, ClearOK
<1>8. CASE UNCHANGED vars
  <2>1. /\ StoresGrow /\ network' = network /\ cursor' = cursor
        /\ skipped' \in BOOLEAN
      BY <1>8, StoresUnchanged DEF vars, IInv, LInv, TypeOK
  <2> QED  BY <2>1, StepKeeps DEF IInv, LInv, TypeOK
<1> QED  BY <1>1, <1>2, <1>3, <1>4, <1>5, <1>6, <1>7, <1>8 DEF Next

\* Whatever is pushed, the types are kept and an id is stored once.
LEMMA SendKeepsLogs ==
    ASSUME LInv, NEW msg \in Messages, network' = network \cup {msg},
           UNCHANGED <<store, state, graph, cursor>>, skipped' \in BOOLEAN
    PROVE  LInv'
BY DEF LInv, TypeOK, StoresAreLogs

LEMMA BecomesKeepsLogs ==
    ASSUME LInv, NEW n \in Nodes, NEW node \in EngineStates, Becomes(n, node),
           UNCHANGED <<cursor, network, skipped>>
    PROVE  LInv'
<1>1. node.store \in Logs /\ node.store \in Seq(Events) /\ node.state \in Seq(Ids)
      /\ node.graph \in SUBSET Edges
    BY DEF EngineStates, Logs
<1>2. TypeOK'
    BY <1>1 DEF Becomes, LInv, TypeOK
<1>3. ASSUME NEW k \in Nodes PROVE store'[k] \in Logs
  <2>1. store'[k] = IF k = n THEN node.store ELSE store[k]
      BY DEF Becomes, LInv, TypeOK
  <2> QED  BY <1>1, <2>1 DEF LInv, StoresAreLogs
<1> QED  BY <1>2, <1>3 DEF LInv, StoresAreLogs

LEMMA DeliverKeepsLogs ==
    ASSUME LInv, NEW msg \in network, NEW kept \in SUBSET network, Deliver(msg, kept)
    PROVE  LInv'
<1>1. /\ msg \in Messages /\ msg.from \in Nodes /\ msg.to \in Nodes
      /\ msg.events \in Seq(Events)
      /\ msg.after \in Ids \cup {NoEvent} /\ msg.upTo \in Ids \cup {NoEvent}
    BY MessageTypes DEF LInv
<1> DEFINE new == AppendUnseen(store[msg.to], msg.events)
<1>2. new \in Logs /\ new \in Seq(Events)
    BY <1>1, AppendUnseenProperties DEF LInv, StoresAreLogs, GrownBy, Logs
<1>3. CursorAfter(msg) \in Ids \cup {NoEvent}
  <2>1. msg.events # <<>> => msg.events[Len(msg.events)] \in Events
      BY <1>1
  <2> QED  BY <1>1, <2>1, EventTypes DEF CursorAfter, Last
<1>4. Response(msg) \in Messages
  <2>1. EventsRange(store[msg.to], msg.after, NoEvent) \in Seq(Events)
      BY <1>1, EventsRangeType DEF LInv, TypeOK
  <2> QED  BY <1>1, <2>1 DEF Response, Messages
<1>5. /\ store' = [store EXCEPT ![msg.to] = new]
      /\ cursor' = [cursor EXCEPT ![msg.to][msg.from] = CursorAfter(msg)]
      /\ network' \subseteq network \cup {Response(msg)}
      /\ UNCHANGED <<state, graph, skipped>>
    BY DEF Deliver
<1> HIDE DEF new
<1>6. TypeOK'
    BY <1>1, <1>2, <1>3, <1>4, <1>5 DEF LInv, TypeOK
<1>7. StoresAreLogs'
  <2>1. ASSUME NEW k \in Nodes PROVE store'[k] \in Logs
    <3>1. store'[k] = IF k = msg.to THEN new ELSE store[k]
        BY <1>1, <1>5 DEF LInv, TypeOK
    <3> QED  BY <1>2, <3>1 DEF LInv, StoresAreLogs
  <2> QED  BY <2>1 DEF StoresAreLogs
<1> QED  BY <1>6, <1>7 DEF LInv

LEMMA NextLInv ==
    ASSUME LInv, [Next]_vars
    PROVE  LInv'
<1>1. ASSUME NEW n \in Nodes, NEW e \in Events, Emit(n, e) PROVE LInv'
    BY <1>1, EngineTypes, EmitOnProperties, BecomesKeepsLogs DEF Emit
<1>2. ASSUME NEW n \in Nodes, NEW m \in Nodes, Request(n, m) PROVE LInv'
  <2> DEFINE msg == [type |-> "request", from |-> n, to |-> m, after |-> CursorFor(n, m),
                     upTo |-> NoEvent, events |-> <<>>]
  <2>1. /\ network' = network \cup {msg} /\ UNCHANGED <<store, state, graph, cursor>>
        /\ skipped' \in BOOLEAN
      BY <1>2 DEF Request, Send, LInv, TypeOK
  <2>2. CursorFor(n, m) \in Ids \cup {NoEvent}
      BY DEF CursorFor, LInv, TypeOK
  <2>3. msg \in Messages
      BY <2>2 DEF Messages
  <2> HIDE DEF msg
  <2> QED  BY <2>1, <2>3, SendKeepsLogs
<1>3. ASSUME NEW n \in Nodes, NEW m \in Nodes, Merge(n, m) PROVE LInv'
    BY <1>3, EngineTypes, MissingEventsType, MergeIntoProperties, BecomesKeepsLogs DEF Merge
<1>4. ASSUME NEW n \in Nodes, NEW m \in Nodes, NEW from, NEW upTo, Push(n, m, from, upTo)
      PROVE  LInv'
  <2> DEFINE events == EventsRange(store[n], from, upTo)
             msg == [type |-> "sync", from |-> n, to |-> m, after |-> from, upTo |-> upTo,
                     events |-> events]
  <2>1. /\ network' = network \cup {msg} /\ UNCHANGED <<store, state, graph, cursor>>
        /\ skipped' \in BOOLEAN
      BY <1>4 DEF Push, Send
  <2>2. events \in Seq(Events) /\ store[n] \in Seq(Events)
      BY EventsRangeType DEF LInv, TypeOK
  <2>3. from \in Ids \cup {NoEvent} /\ upTo \in Ids \cup {NoEvent}
      BY <1>4, <2>2, NoEventIsNoId DEF Push
  <2> HIDE DEF events
  <2>4. msg \in Messages
      BY <2>2, <2>3 DEF Messages
  <2> HIDE DEF msg
  <2> QED  BY <2>1, <2>4, SendKeepsLogs
<1>5. ASSUME NEW msg \in network, Receive(msg) PROVE LInv'
    BY <1>5, DeliverKeepsLogs DEF Receive
<1>6. ASSUME NEW msg \in network, Lose(msg) PROVE LInv'
    BY <1>6 DEF Lose, LInv, TypeOK, StoresAreLogs
<1>7. ASSUME NEW n \in Nodes, ClearSyncStates(n) PROVE LInv'
    BY <1>7 DEF ClearSyncStates, LInv, TypeOK, StoresAreLogs
<1>8. CASE UNCHANGED vars
    BY <1>8 DEF vars, LInv, TypeOK, StoresAreLogs
<1> QED  BY <1>1, <1>2, <1>3, <1>4, <1>5, <1>6, <1>7, <1>8 DEF Next

LEMMA LogInvariant == Spec => []LInv
<1>1. Init => LInv
    BY InitIInv DEF IInv
<1>2. LInv /\ [Next]_vars => LInv'
    BY NextLInv
<1> QED  BY <1>1, <1>2, PTL DEF Spec

\* A gap is never forgotten.
LEMMA Invariant == Spec => [](skipped \/ IInv)
<1>1. Init => skipped \/ IInv
    BY InitIInv
<1>2. (skipped \/ IInv) /\ [Next]_vars => (skipped \/ IInv)'
  <2>1. skipped /\ [Next]_vars => skipped'
      BY DEF Next, vars, Emit, Request, Merge, Push, Receive, Deliver, Lose, ClearSyncStates
  <2> QED  BY <2>1, NextIInv
<1> QED  BY <1>1, <1>2, PTL DEF Spec

-----------------------------------------------------------------------------
(* The merge that sorts.                                                   *)

InOrder(s) == \A i, k \in DOMAIN s : i < k => Precedes(s[i], s[k])

\* By time, then by id: a strict total order of the events.
LEMMA PrecedesIsOrder ==
    ASSUME NEW a \in Events, NEW b \in Events, NEW c \in Events
    PROVE  /\ ~Precedes(a, a)
           /\ Precedes(a, b) /\ Precedes(b, c) => Precedes(a, c)
           /\ a # b => Precedes(a, b) \/ Precedes(b, a)
<1>1. a.id \in Ids /\ b.id \in Ids /\ c.id \in Ids
    BY EventTypes
<1>2. /\ Timestamp[a.id] \in Nat /\ Timestamp[b.id] \in Nat /\ Timestamp[c.id] \in Nat
      /\ Rank[a.id] \in Nat /\ Rank[b.id] \in Nat /\ Rank[c.id] \in Nat
    BY <1>1, TimestampAssumption, RankAssumption
<1>3. a # b => Rank[a.id] # Rank[b.id]
    BY <1>1, RankAssumption, IdsNameEvents
<1> QED  BY <1>2, <1>3 DEF Precedes

Inserted(s, e, p) == SubSeq(s, 1, p - 1) \o <<e>> \o SubSeq(s, p, Len(s))

\* Where InsertInOrder puts an event: behind all that precede it.
LEMMA InsertPlace ==
    ASSUME NEW s \in Seq(Events), InOrder(s), NEW e \in Events, e \notin ToSet(s)
    PROVE  \E p \in 1..(Len(s) + 1) :
               /\ InsertInOrder(s, e) = Inserted(s, e, p)
               /\ \A i \in 1..(p - 1) : Precedes(s[i], e)
               /\ \A i \in p..Len(s) : Precedes(e, s[i])
<1> DEFINE I == {i \in 1..Len(s) : Precedes(e, s[i])}
           later == SelectInSeq(s, LAMBDA x : Precedes(e, x))
           p == IF later = 0 THEN Len(s) + 1 ELSE later
<1>0. /\ Len(s) \in Nat /\ DOMAIN s = 1..Len(s)
      /\ \A i \in 1..Len(s) : s[i] \in Events /\ s[i] # e
    BY DEF ToSet
<1>1. later = IF I # {} THEN Min(I) ELSE 0
    BY DEF SelectInSeq
<1>2. InsertInOrder(s, e) = Inserted(s, e, p)
    BY DEF InsertInOrder, Inserted
<1> HIDE DEF later
<1>3. \A i \in 1..Len(s) : i \notin I => Precedes(s[i], e)
    BY <1>0, PrecedesIsOrder
<1>4. CASE I = {}
  <2>1. p = Len(s) + 1
      BY <1>1, <1>4
  <2>2. /\ p \in 1..(Len(s) + 1)
        /\ \A i \in 1..(p - 1) : Precedes(s[i], e)
        /\ \A i \in p..Len(s) : Precedes(e, s[i])
      BY <1>0, <1>3, <1>4, <2>1
  <2> HIDE DEF p
  <2> QED  BY <1>2, <2>2
<1>5. CASE I # {}
  <2>1. PICK m \in I : \A k \in I : m <= k
    <3>1. I \in SUBSET Nat
        OBVIOUS
    <3> QED  BY <1>5, <3>1, Least
  <2>2. Min(I) = m
      BY <2>1 DEF Min
  <2>3. p = m /\ m \in 1..Len(s) /\ Precedes(e, s[m])
      BY <1>1, <1>5, <2>1, <2>2
  <2>4. \A i \in 1..(m - 1) : Precedes(s[i], e)
    <3>1. \A i \in 1..(m - 1) : i \in 1..Len(s) /\ ~(m <= i)
        BY <1>0, <2>3
    <3> QED  BY <1>3, <2>1, <3>1
  <2>5. \A i \in m..Len(s) : Precedes(e, s[i])
    <3> SUFFICES ASSUME NEW i \in m..Len(s), i # m PROVE Precedes(e, s[i])
        BY <2>3
    <3>1. Precedes(s[m], s[i]) /\ s[i] \in Events /\ s[m] \in Events
        BY <1>0, <2>3 DEF InOrder
    <3> QED  BY <2>3, <3>1, PrecedesIsOrder
  <2> HIDE DEF p
  <2> QED  BY <1>0, <1>2, <2>3, <2>4, <2>5
<1> QED  BY <1>4, <1>5

\* A sequence with one element more in the middle.
IsInserted(r, s, e, p) ==
    /\ r \in Seq(Events) /\ Len(r) = Len(s) + 1
    /\ \A i \in 1..(p - 1) : r[i] = s[i]
    /\ r[p] = e
    /\ \A i \in (p + 1)..(Len(s) + 1) : r[i] = s[i - 1]

LEMMA InsertedAt ==
    ASSUME NEW s \in Seq(Events), NEW e \in Events, NEW p \in 1..(Len(s) + 1)
    PROVE  IsInserted(Inserted(s, e, p), s, e, p)
<1> DEFINE r == Inserted(s, e, p)
           a == SubSeq(s, 1, p - 1)
           b == SubSeq(s, p, Len(s))
<1>0. Len(s) \in Nat /\ p \in Nat
    OBVIOUS
<1>1. /\ a \in Seq(Events) /\ Len(a) = p - 1
      /\ \A i \in 1..(p - 1) : a[i] = s[i]
    BY <1>0, SubSeqProperties
<1>2. /\ b \in Seq(Events) /\ Len(b) = Len(s) - p + 1
      /\ \A i \in 1..(Len(s) - p + 1) : b[i] = s[p + i - 1]
    BY <1>0, SubSeqProperties
<1> DEFINE c == a \o <<e>>
<1>3. r = c \o b
    BY DEF Inserted
<1> HIDE DEF a, b, r
<1>4. /\ c \in Seq(Events) /\ Len(c) = p
      /\ \A i \in 1..(p - 1) : c[i] = s[i]
      /\ c[p] = e
    BY <1>0, <1>1
<1> HIDE DEF c
<1>5. /\ r \in Seq(Events) /\ Len(r) = Len(s) + 1
      /\ \A i \in 1..(Len(s) + 1) : r[i] = IF i <= p THEN c[i] ELSE b[i - p]
  <2>1. Len(c) + Len(b) = Len(s) + 1
      BY <1>0, <1>2, <1>4
  <2>2. /\ c \o b \in Seq(Events) /\ Len(c \o b) = Len(c) + Len(b)
        /\ \A i \in 1..(Len(c) + Len(b)) :
               (c \o b)[i] = IF i <= Len(c) THEN c[i] ELSE b[i - Len(c)]
    <3>1. b \in Seq(Events) /\ c \in Seq(Events)
        BY <1>2, <1>4
    <3> QED  BY <3>1, ConcatProperties
  <2> QED  BY <1>3, <1>4, <2>1, <2>2
<1>6. /\ \A i \in 1..p : r[i] = c[i]
      /\ \A i \in (p + 1)..(Len(s) + 1) : r[i] = b[i - p]
    BY <1>0, <1>5
<1>7. \A i \in (p + 1)..(Len(s) + 1) : b[i - p] = s[i - 1]
  <2> SUFFICES ASSUME NEW i \in (p + 1)..(Len(s) + 1) PROVE b[i - p] = s[i - 1]
      OBVIOUS
  <2>1. i - p \in 1..(Len(s) - p + 1) /\ p + (i - p) - 1 = i - 1
      BY <1>0
  <2> QED  BY <1>2, <2>1
<1>8. (\A i \in 1..(p - 1) : r[i] = s[i]) /\ r[p] = e
    BY <1>0, <1>4, <1>6
<1> QED  BY <1>5, <1>6, <1>7, <1>8 DEF IsInserted, r

LEMMA InsertType ==
    ASSUME NEW s \in Seq(Events), NEW e \in Events
    PROVE  InsertInOrder(s, e) \in Seq(Events)
<1> DEFINE I == {i \in 1..Len(s) : Precedes(e, s[i])}
           later == SelectInSeq(s, LAMBDA x : Precedes(e, x))
           p == IF later = 0 THEN Len(s) + 1 ELSE later
<1>1. later = IF I # {} THEN Min(I) ELSE 0
    BY DEF SelectInSeq
<1>2. I # {} => Min(I) \in I
  <2> SUFFICES ASSUME I # {} PROVE Min(I) \in I
      OBVIOUS
  <2>1. I \in SUBSET Nat
      OBVIOUS
  <2>2. PICK m \in I : \A k \in I : m <= k
      BY <2>1, Least
  <2> QED  BY <2>2 DEF Min
<1>3. p \in 1..(Len(s) + 1)
    BY <1>1, <1>2
<1>4. InsertInOrder(s, e) = Inserted(s, e, p)
    BY DEF InsertInOrder, Inserted
<1> HIDE DEF p
<1> QED  BY <1>3, <1>4, InsertedAt DEF IsInserted

LEMMA InsertKeepsOrder ==
    ASSUME NEW s \in Seq(Events), InOrder(s), NEW e \in Events, e \notin ToSet(s)
    PROVE  /\ InsertInOrder(s, e) \in Seq(Events)
           /\ InOrder(InsertInOrder(s, e))
           /\ ToSet(InsertInOrder(s, e)) = ToSet(s) \cup {e}
<1> DEFINE r == InsertInOrder(s, e)
<1>0. Len(s) \in Nat /\ DOMAIN s = 1..Len(s)
    OBVIOUS
<1>1. PICK p \in 1..(Len(s) + 1) :
             /\ r = Inserted(s, e, p)
             /\ \A i \in 1..(p - 1) : Precedes(s[i], e)
             /\ \A i \in p..Len(s) : Precedes(e, s[i])
    BY InsertPlace
<1> HIDE DEF r
<1>2. /\ r \in Seq(Events) /\ Len(r) = Len(s) + 1
      /\ \A i \in 1..(p - 1) : r[i] = s[i]
      /\ r[p] = e
      /\ \A i \in (p + 1)..(Len(s) + 1) : r[i] = s[i - 1]
  <2>1. IsInserted(r, s, e, p)
      BY <1>1, InsertedAt
  <2> QED  BY <2>1 DEF IsInserted
<1>3. ASSUME NEW i \in DOMAIN r, NEW k \in DOMAIN r, i < k
      PROVE  Precedes(r[i], r[k])
  <2>0. i \in 1..(Len(s) + 1) /\ k \in 1..(Len(s) + 1)
      BY <1>2, <1>3
  <2>1. CASE k < p
    <3>1. i \in 1..(p - 1) /\ k \in 1..(p - 1) /\ i \in 1..Len(s) /\ k \in 1..Len(s)
        BY <1>0, <1>3, <2>0, <2>1
    <3> QED  BY <1>0, <1>2, <1>3, <3>1 DEF InOrder
  <2>2. CASE k = p
    <3>1. i \in 1..(p - 1)
        BY <1>3, <2>0, <2>2
    <3> QED  BY <1>1, <1>2, <2>2, <3>1
  <2>3. CASE k > p /\ i = p
    <3>1. k \in (p + 1)..(Len(s) + 1) /\ k - 1 \in p..Len(s)
        BY <1>0, <2>0, <2>3
    <3> QED  BY <1>1, <1>2, <2>3, <3>1
  <2>4. CASE k > p /\ i < p
    <3>1. k \in (p + 1)..(Len(s) + 1) /\ i \in 1..(p - 1)
        BY <1>0, <2>0, <2>4
    <3>2. i \in 1..Len(s) /\ k - 1 \in 1..Len(s) /\ i < k - 1
        BY <1>0, <2>0, <2>4
    <3> QED  BY <1>0, <1>2, <3>1, <3>2 DEF InOrder
  <2>5. CASE k > p /\ i > p
    <3>1. k \in (p + 1)..(Len(s) + 1) /\ i \in (p + 1)..(Len(s) + 1)
        BY <1>0, <2>0, <2>5
    <3>2. i - 1 \in 1..Len(s) /\ k - 1 \in 1..Len(s) /\ i - 1 < k - 1
        BY <1>0, <1>3, <2>0, <2>5
    <3> QED  BY <1>0, <1>2, <3>1, <3>2 DEF InOrder
  <2> QED  BY <2>0, <2>1, <2>2, <2>3, <2>4, <2>5
<1>4. ToSet(r) \subseteq ToSet(s) \cup {e}
  <2> SUFFICES ASSUME NEW i \in 1..(Len(s) + 1) PROVE r[i] \in ToSet(s) \cup {e}
      BY <1>2 DEF ToSet
  <2>1. CASE i < p
    <3>1. i \in 1..(p - 1) /\ i \in 1..Len(s)
        BY <2>1
    <3> QED  BY <1>0, <1>2, <3>1 DEF ToSet
  <2>2. CASE i = p
      BY <1>2, <2>2
  <2>3. CASE i > p
    <3>1. i \in (p + 1)..(Len(s) + 1) /\ i - 1 \in 1..Len(s)
        BY <1>0, <2>3
    <3> QED  BY <1>0, <1>2, <3>1 DEF ToSet
  <2> QED  BY <2>1, <2>2, <2>3
<1>5. ToSet(s) \cup {e} \subseteq ToSet(r)
  <2>1. ASSUME NEW i \in 1..Len(s) PROVE s[i] \in ToSet(r)
    <3>1. CASE i < p
      <4>1. i \in 1..(p - 1) /\ i \in DOMAIN r
          BY <1>0, <1>2, <3>1
      <4> QED  BY <1>2, <4>1 DEF ToSet
    <3>2. CASE i >= p
      <4>1. i + 1 \in (p + 1)..(Len(s) + 1) /\ i + 1 \in DOMAIN r /\ (i + 1) - 1 = i
          BY <1>0, <1>2, <3>2
      <4> QED  BY <1>2, <4>1 DEF ToSet
    <3> QED  BY <3>1, <3>2
  <2>2. p \in DOMAIN r
      BY <1>2
  <2> QED  BY <1>0, <1>2, <2>1, <2>2 DEF ToSet
<1> QED  BY <1>2, <1>3, <1>4, <1>5 DEF InOrder, r

\* Sorting loses nothing and adds nothing.
LEMMA CausalOrderLoop ==
    ASSUME NEW events \in Seq(Events)
    PROVE  \E f :
               /\ f \in [0..Len(events) -> Seq(Events)]
               /\ f[0] = <<>>
               /\ \A i \in 1..Len(events) : f[i] = InsertInOrder(f[i - 1], events[i])
               /\ causalOrder(events) = f[Len(events)]
<1> DEFINE n == Len(events)
           Turn(i, s) == InsertInOrder(s, events[i])
           F == [i \in 1..n |-> [s \in Seq(Events) |-> Turn(i, s)]]
           Run(g) == [i \in 0..n |-> IF i = 0 THEN <<>> ELSE Turn(i, g[i - 1])]
<1>0. n \in Nat /\ <<>> \in Seq(Events)
    OBVIOUS
<1>1. \A i \in 1..n, s \in Seq(Events) : Turn(i, s) \in Seq(Events)
    BY InsertType
<1> HIDE DEF Turn
<1>2. F \in [1..n -> [Seq(Events) -> Seq(Events)]]
    BY <1>1
<1>3. \A i \in 1..n, s \in Seq(Events) : F[i][s] = Turn(i, s)
    OBVIOUS
<1> HIDE DEF F, n
<1>4. PICK f : IsRun(f, n, Seq(Events), <<>>, F)
    BY <1>0, <1>2, LoopExists
<1> USE DEF IsRun
<1>5. \A i \in 1..n : f[i] = Turn(i, f[i - 1])
  <2>1. \A i \in 1..n : f[i - 1] \in Seq(Events)
      BY <1>0, <1>4
  <2> QED  BY <1>3, <1>4, <2>1
<1>6. f = Run(f)
  <2>1. \A i \in 0..n : f[i] = Run(f)[i]
      BY <1>0, <1>4, <1>5
  <2> QED  BY <1>4, <2>1
<1> DEFINE g == CHOOSE h : h = Run(h)
<1>7. g = Run(g)
    BY <1>6
<1>8. causalOrder(events) = g[n]
    BY DEF causalOrder, Turn, n
<1> HIDE DEF g
<1>9. \A i \in 0..n : g[i] = IF i = 0 THEN <<>> ELSE Turn(i, g[i - 1])
    BY <1>7
<1>10. SameTurns(f, g, n)
  <2>1. f[0] = g[0]
      BY <1>0, <1>4, <1>9
  <2>2. \A i \in 1..n : g[i] = Turn(i, g[i - 1])
      BY <1>0, <1>9
  <2> QED  BY <1>5, <2>1, <2>2 DEF SameTurns
<1>11. causalOrder(events) = f[n]
    BY <1>0, <1>8, <1>10, LoopUnique
<1> QED  BY <1>4, <1>5, <1>11 DEF Turn, n

LEMMA CausalOrderProperties ==
    ASSUME NEW log \in Logs
    PROVE  /\ causalOrder(log) \in Seq(Events)
           /\ InOrder(causalOrder(log))
           /\ ToSet(causalOrder(log)) = ToSet(log)
<1> DEFINE n == Len(log)
<1>0. log \in Seq(Events) /\ Distinct(log) /\ n \in Nat /\ DOMAIN log = 1..n
    BY DEF Logs
<1>1. PICK f : /\ f[0] = <<>>
               /\ \A i \in 1..n : f[i] = InsertInOrder(f[i - 1], log[i])
               /\ causalOrder(log) = f[n]
    BY <1>0, CausalOrderLoop
<1> DEFINE Good(i) == /\ f[i] \in Seq(Events) /\ InOrder(f[i])
                      /\ ToSet(f[i]) = {log[k] : k \in 1..i}
           T == {m \in Nat : m <= n => Good(m)}
<1>2. 0 \in T
  <2>1. <<>> \in Seq(Events) /\ InOrder(<<>>) /\ ToSet(<<>>) = {} /\ {log[k] : k \in 1..0} = {}
      BY DEF InOrder, ToSet
  <2> QED  BY <1>1, <2>1
<1>3. ASSUME NEW m \in Nat, m \in T PROVE m + 1 \in T
  <2>1. CASE m + 1 <= n
    <3>1. m + 1 \in 1..n /\ (m + 1) - 1 = m /\ m <= n
        BY <1>0, <2>1
    <3>2. Good(m) /\ f[m + 1] = InsertInOrder(f[m], log[m + 1]) /\ log[m + 1] \in Events
        BY <1>0, <1>1, <1>3, <3>1
    <3>3. log[m + 1] \notin {log[k] : k \in 1..m}
      <4>1. \A k \in 1..m : k \in 1..n /\ k # m + 1
          BY <1>0, <3>1
      <4> QED  BY <1>0, <3>1, <4>1 DEF Distinct
    <3>4. {log[k] : k \in 1..(m + 1)} = {log[k] : k \in 1..m} \cup {log[m + 1]}
      <4>1. 1..(m + 1) = (1..m) \cup {m + 1}
          OBVIOUS
      <4> QED  BY <4>1
    <3>5. Good(m + 1)
        BY <3>2, <3>3, <3>4, InsertKeepsOrder
    <3> QED  BY <3>5
  <2>2. CASE ~(m + 1 <= n)
      BY <2>2
  <2> QED  BY <2>1, <2>2
<1> HIDE DEF T
<1>4. n \in T
    BY <1>0, <1>2, <1>3, Induction
<1>5. Good(n)
    BY <1>0, <1>4 DEF T
<1>6. ToSet(log) = {log[k] : k \in 1..n}
    BY <1>0 DEF ToSet
<1> QED  BY <1>1, <1>5, <1>6

\* Of the sequences with the same members, one is in order.
LEMMA InOrderExtends ==
    ASSUME NEW a \in Seq(Events), NEW b \in Seq(Events),
           InOrder(a), InOrder(b), ToSet(a) = ToSet(b)
    PROVE  Extends(a, b)
<1> DEFINE Differs == {i \in 1..Len(a) : i > Len(b) \/ a[i] # b[i]}
<1>0. /\ Len(a) \in Nat /\ Len(b) \in Nat /\ DOMAIN a = 1..Len(a) /\ DOMAIN b = 1..Len(b)
      /\ \A i \in 1..Len(a) : a[i] \in Events
      /\ \A i \in 1..Len(b) : b[i] \in Events
    OBVIOUS
<1>1. Differs = {}
  <2> SUFFICES ASSUME Differs # {} PROVE FALSE
      OBVIOUS
  <2>1. PICK m \in Differs : \A k \in Differs : m <= k
    <3>1. Differs \in SUBSET Nat
        BY <1>0
    <3> QED  BY <3>1, Least
  <2>2. m \in 1..Len(a) /\ (m > Len(b) \/ a[m] # b[m])
      BY <2>1
  <2>3. \A k \in 1..(m - 1) : k <= Len(b) /\ a[k] = b[k]
    <3> SUFFICES ASSUME NEW k \in 1..(m - 1), ~(k <= Len(b) /\ a[k] = b[k]) PROVE FALSE
        OBVIOUS
    <3>1. k \in Differs /\ ~(m <= k)
        BY <1>0, <2>2
    <3> QED  BY <2>1, <3>1
  <2> HIDE DEF Differs
  <2>4. PICK j \in 1..Len(b) : b[j] = a[m]
      BY <1>0, <2>2 DEF ToSet
  <2>5. ~(j < m)
    <3> SUFFICES ASSUME j < m PROVE FALSE
        OBVIOUS
    <3>1. j \in 1..(m - 1) /\ j \in 1..Len(a)
        BY <1>0, <2>2, <2>4
    <3>2. a[j] = a[m] /\ Precedes(a[j], a[m])
        BY <1>0, <2>2, <2>3, <2>4, <3>1 DEF InOrder
    <3> QED  BY <1>0, <2>2, <3>2, PrecedesIsOrder
  <2>6. m \in 1..Len(b) /\ m < j /\ a[m] # b[m]
      BY <1>0, <2>2, <2>4, <2>5
  <2>7. Precedes(b[m], a[m])
      BY <1>0, <2>4, <2>6 DEF InOrder
  <2>8. PICK l \in 1..Len(a) : a[l] = b[m]
      BY <1>0, <2>6 DEF ToSet
  <2>9. ~(l < m)
    <3> SUFFICES ASSUME l < m PROVE FALSE
        OBVIOUS
    <3>1. l \in 1..(m - 1) /\ l \in 1..Len(b)
        BY <1>0, <2>6, <2>8
    <3>2. b[l] = b[m] /\ Precedes(b[l], b[m])
        BY <1>0, <2>3, <2>6, <2>8, <3>1 DEF InOrder
    <3> QED  BY <1>0, <2>6, <3>2, PrecedesIsOrder
  <2>10. m < l
      BY <2>2, <2>6, <2>8, <2>9
  <2>11. Precedes(a[m], b[m])
      BY <1>0, <2>2, <2>8, <2>10 DEF InOrder
  <2> QED  BY <1>0, <2>2, <2>6, <2>7, <2>11, PrecedesIsOrder
<1>2. \A i \in 1..Len(a) : i <= Len(b) /\ a[i] = b[i]
    BY <1>0, <1>1
<1>3. Len(a) <= Len(b)
  <2>1. CASE Len(a) = 0
      BY <1>0, <2>1
  <2>2. CASE Len(a) # 0
    <3>1. Len(a) \in 1..Len(a)
        BY <1>0, <2>2
    <3> QED  BY <1>2, <3>1
  <2> QED  BY <2>1, <2>2
<1> QED  BY <1>0, <1>2, <1>3 DEF Extends

LEMMA OneOrder ==
    ASSUME NEW a \in Seq(Events), NEW b \in Seq(Events),
           InOrder(a), InOrder(b), ToSet(a) = ToSet(b)
    PROVE  a = b
<1>1. Extends(a, b) /\ Extends(b, a)
    BY InOrderExtends
<1>2. Len(a) = Len(b)
    BY <1>1 DEF Extends
<1>3. \A i \in 1..Len(a) : a[i] = b[i]
    BY <1>1 DEF Extends
<1> QED  BY <1>2, <1>3, SeqEqual

-----------------------------------------------------------------------------
(* Theorems.                                                               *)

\* Stores, states, graphs, cursors and messages keep their types.
THEOREM TypeCorrect == Spec => []TypeOK
BY LogInvariant, PTL DEF LInv

\* A cursor never skips: whatever answers were lost, late or repeated, a node
\* holds all that its peer stored up to the event it asks to continue from,
\* unless a push began past what its receiver had.
THEOREM CursorCoversPrefixHolds == Spec => []CursorCoversPrefix
<1>1. skipped \/ IInv => CursorCoversPrefix
    BY DEF IInv, CursorCoversPrefix
<1> QED  BY <1>1, Invariant, PTL

\* Until then every store lists parents before their children,
\* processSyncMessage's unchecked appends included.
THEOREM ParentsPrecedeHolds == Spec => []ParentsPrecede
<1>1. skipped \/ IInv => ParentsPrecede
    BY DEF IInv, ParentsPrecede
<1> QED  BY <1>1, Invariant, PTL

\* Two nodes that store the same events merge to one state and one list of
\* conflicts, in whatever order the events came in: their clocks and the order
\* of ids decide, and no two events tie.
THEOREM MergesConvergeHolds == Spec => []MergesConverge
<1>1. ASSUME StoresAreLogs PROVE MergesConverge
  <2> SUFFICES ASSUME NEW n \in Nodes, NEW m \in Nodes, ToSet(store[n]) = ToSet(store[m])
               PROVE  MergeSemantics(<<>>, store[n]) = MergeSemantics(<<>>, store[m])
      BY DEF MergesConverge
  <2>1. causalOrder(store[n]) = causalOrder(store[m])
      BY <1>1, CausalOrderProperties, OneOrder DEF StoresAreLogs
  <2> QED  BY <2>1 DEF MergeSemantics
<1>2. LInv => MergesConverge
    BY <1>1 DEF LInv
<1> QED  BY <1>2, LogInvariant, PTL

=============================================================================
