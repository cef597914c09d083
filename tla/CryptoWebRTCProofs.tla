------------------------- MODULE CryptoWebRTCProofs -------------------------
(***************************************************************************)
(* Proofs about CryptoWebRTC, for every set of nodes and every bound.      *)
(***************************************************************************)
EXTENDS CryptoWebRTC, TLAPS

LEMMA IdFacts == /\ NoConn \notin Ids
                 /\ \A i \in Ids : i \in Nat /\ i > 0
BY MaxConnsAssumption DEF Ids, NoConn

LEMMA ObjectFacts ==
    ASSUME TypeOK
    PROVE  /\ Objects = 1..Len(conns)
           /\ \A i \in Objects : conns[i] \in Connections /\ i \in Ids
           /\ NoConn \notin Objects
<1>1. conns \in Seq(Connections) /\ Objects \subseteq Ids
  BY DEF TypeOK
<1>2. Objects = 1..Len(conns)
  BY <1>1 DEF Objects
<1>3. \A i \in Objects : conns[i] \in Connections
  BY <1>1, <1>2
<1>. QED  BY <1>1, <1>2, <1>3, IdFacts

\* What a step that changes one object leaves of the others.
LEMMA UpdateFacts ==
    ASSUME TypeOK, NEW k \in Objects, NEW r \in Connections,
           conns' = [conns EXCEPT ![k] = r]
    PROVE  /\ conns' \in Seq(Connections)
           /\ Objects' = Objects
           /\ conns'[k] = r
           /\ \A x \in Objects : x # k => conns'[x] = conns[x]
<1>1. conns \in Seq(Connections) /\ k \in 1..Len(conns)
  BY ObjectFacts DEF TypeOK
<1>2. conns' \in Seq(Connections) /\ Len(conns') = Len(conns)
  BY <1>1
<1>3. Objects' = Objects
  BY DEF Objects
<1>. QED  BY <1>1, <1>2, <1>3 DEF Objects

\* What the creation of an object leaves of the others.
LEMMA CreateFacts ==
    ASSUME TypeOK, NEW n \in Nodes, NEW m \in Nodes, NEW b \in BOOLEAN,
           NEW link \in Objects \cup {NoConn}, Create(n, m, b, link)
    PROVE  LET i == Len(conns) + 1
           IN  /\ conns' \in Seq(Connections)
               /\ i \in Ids /\ i \notin Objects
               /\ Objects' = Objects \cup {i}
               /\ conns'[i] = NewConnection(n, m, b, link)
               /\ \A x \in Objects : conns'[x] = conns[x] /\ x < i
<1> DEFINE i == Len(conns) + 1
<1> DEFINE r == NewConnection(n, m, b, link)
<1>1. conns \in Seq(Connections) /\ Objects = 1..Len(conns) /\ Objects \subseteq Ids
  BY ObjectFacts DEF TypeOK
<1>2. r \in Connections
  <2>1. link \in Ids \cup {NoConn}
    BY <1>1
  <2>2. ClosePending(n, m) \in BOOLEAN
    BY DEF ClosePending
  <2>. QED  BY <2>1, <2>2 DEF NewConnection, Connections
<1>3. conns' = Append(conns, r) /\ i \in Ids
  BY DEF Create
<1>4. conns' \in Seq(Connections) /\ Len(conns') = i /\ Len(conns) \in Nat
  BY <1>1, <1>2, <1>3
<1>5. Objects' = 1..i
  BY <1>4 DEF Objects
<1>6. conns'[i] = r /\ \A x \in Objects : conns'[x] = conns[x] /\ x < i
  BY <1>1, <1>2, <1>3, <1>4
<1>7. i \notin Objects /\ Objects' = Objects \cup {i}
  BY <1>1, <1>4, <1>5
<1>. QED  BY <1>3, <1>4, <1>6, <1>7

\* What the endings keep of an object.
LEMMA EndKeeps ==
    ASSUME NEW conn \in Connections
    PROVE  LET d == Destroyed(conn)
               c == [conn EXCEPT !.status = "closed"]
           IN  /\ \A r \in {d, c} :
                      /\ r \in Connections
                      /\ r.owner = conn.owner /\ r.peer = conn.peer
                      /\ r.initiator = conn.initiator /\ r.replaces = conn.replaces
                      /\ ~Unclosed(r.status)
               /\ d.status = "closed" => conn.status = "closed"
               /\ conn.status = "closed" => d.status = "closed"
               /\ c.status = "closed"
BY DEF Destroyed, Connections, Unclosed

LEMMA CreateOK ==
    ASSUME TypeOK, NEW n \in Nodes, NEW m \in Nodes, NEW b \in BOOLEAN,
           NEW link \in Objects \cup {NoConn}, Create(n, m, b, link)
    PROVE  TypeOK'
<1> DEFINE i == Len(conns) + 1
<1>1. /\ conns' \in Seq(Connections) /\ i \in Ids /\ i \notin Objects
      /\ Objects' = Objects \cup {i}
  BY CreateFacts
<1>2. pool' \in [Nodes -> [Nodes -> Objects' \cup {NoConn}]]
  <2>1. pool \in [Nodes -> [Nodes -> Objects' \cup {NoConn}]]
    BY <1>1 DEF TypeOK
  <2>2. pool' = [pool EXCEPT ![n][m] = i]
    BY DEF Create
  <2>. QED  BY <1>1, <2>1, <2>2
<1>3. /\ signals' \subseteq Objects' /\ Objects' \subseteq Ids
      /\ hellos' \subseteq Objects' /\ failed' \subseteq Objects'
  BY <1>1 DEF Create, TypeOK
<1>. QED  BY <1>1, <1>2, <1>3 DEF TypeOK

LEMMA ConnectOK ==
    ASSUME TypeOK, NEW n \in Nodes, NEW m \in Nodes, connect(n, m)
    PROVE  TypeOK'
BY CreateOK DEF connect

LEMMA AcceptIsCreate ==
    ASSUME TypeOK, NEW s \in Objects, Accept(s)
    PROVE  LET n == conns[s].peer
               m == conns[s].owner
               link == IF conns[s].initiator THEN s ELSE NoConn
           IN  /\ n \in Nodes /\ m \in Nodes /\ link \in Objects \cup {NoConn}
               /\ pool[n][m] = NoConn
               /\ Create(n, m, FALSE, link)
BY ObjectFacts DEF Accept, Connections

LEMMA AcceptOK ==
    ASSUME TypeOK, NEW s \in Objects, Accept(s)
    PROVE  TypeOK'
BY AcceptIsCreate, CreateOK

LEMMA AnswerIsUpdate ==
    ASSUME TypeOK, NEW s \in Objects, Answer(s)
    PROVE  LET k == pool[conns[s].peer][conns[s].owner]
               r == [conns[k] EXCEPT !.link = s]
           IN  /\ k \in Objects
               /\ r \in Connections
               /\ conns' = [conns EXCEPT ![k] = r]
               /\ conns[k].initiator /\ conns[k].link = NoConn
               /\ conns[k].status = "new" /\ conns[s].link = k
<1> DEFINE k == pool[conns[s].peer][conns[s].owner]
<1>1. k \in Objects
  <2>1. conns[s] \in Connections
    BY ObjectFacts
  <2>2. conns[s].peer \in Nodes /\ conns[s].owner \in Nodes
    BY <2>1 DEF Connections
  <2>3. k \in Objects \cup {NoConn}
    BY <2>2 DEF TypeOK
  <2>. QED  BY <2>3 DEF Answer
<1>2. conns[k] \in Connections /\ s \in Ids
  BY <1>1, ObjectFacts
<1>. QED  BY <1>1, <1>2 DEF Answer, Connections

LEMMA AnswerOK ==
    ASSUME TypeOK, NEW s \in Objects, Answer(s)
    PROVE  TypeOK'
<1>1. conns' \in Seq(Connections) /\ Objects' = Objects
  BY AnswerIsUpdate, UpdateFacts
<1>. QED  BY <1>1 DEF TypeOK, Answer

LEMMA DisconnectIsUpdate ==
    ASSUME TypeOK, NEW n \in Nodes, NEW m \in Nodes, disconnect(n, m)
    PROVE  LET k == pool[n][m]
           IN  /\ k \in Objects
               /\ Destroyed(conns[k]) \in Connections
               /\ conns' = [conns EXCEPT ![k] = Destroyed(conns[k])]
<1> DEFINE k == pool[n][m]
<1>1. k \in Objects
  BY DEF disconnect, TypeOK
<1>. QED  BY <1>1, ObjectFacts, EndKeeps DEF disconnect

LEMMA DisconnectOK ==
    ASSUME TypeOK, NEW n \in Nodes, NEW m \in Nodes, disconnect(n, m)
    PROVE  TypeOK'
<1>1. conns' \in Seq(Connections) /\ Objects' = Objects
  BY DisconnectIsUpdate, UpdateFacts
<1>. QED  BY <1>1 DEF TypeOK, disconnect

LEMMA DisconnectAllFacts ==
    ASSUME TypeOK, NEW n \in Nodes, disconnectAll(n)
    PROVE  /\ conns' \in Seq(Connections)
           /\ Objects' = Objects
           /\ \A x \in Objects :
                  conns'[x] = IF \E m \in Nodes : pool[n][m] = x
                                 THEN Destroyed(conns[x]) ELSE conns[x]
<1> DEFINE pooled == {pool[n][m] : m \in PeersOf(n)}
<1> DEFINE f(i) == IF i \in pooled THEN Destroyed(conns[i]) ELSE conns[i]
<1>1. conns' = [i \in Objects |-> f(i)]
  BY DEF disconnectAll
<1>2. Objects = 1..Len(conns) /\ \A i \in Objects : conns[i] \in Connections
  BY ObjectFacts
<1>3. \A i \in Objects : f(i) \in Connections
  BY <1>2, EndKeeps
<1>4. Len(conns) \in Nat
  BY DEF TypeOK
<1>5. conns' \in Seq(Connections)
  <2> HIDE DEF f
  <2>1. conns' \in [1..Len(conns) -> Connections]
    BY <1>1, <1>2, <1>3
  <2>. QED  BY <1>4, <2>1
<1>6. Objects' = Objects
  BY <1>1 DEF Objects
<1>7. \A x \in Objects : x \in pooled <=> \E m \in Nodes : pool[n][m] = x
  BY ObjectFacts DEF PeersOf
<1>. QED  BY <1>1, <1>5, <1>6, <1>7

LEMMA DisconnectAllOK ==
    ASSUME TypeOK, NEW n \in Nodes, disconnectAll(n)
    PROVE  TypeOK'
<1>1. conns' \in Seq(Connections) /\ Objects' = Objects
  BY DisconnectAllFacts
<1>2. pool' \in [Nodes -> [Nodes -> Objects \cup {NoConn}]]
  BY DEF disconnectAll, TypeOK
<1>. QED  BY <1>1, <1>2 DEF TypeOK, disconnectAll

LEMMA CloseOK ==
    ASSUME TypeOK, NEW i \in Objects, Close(i)
    PROVE  TypeOK'
<1> DEFINE r == [conns[i] EXCEPT !.status = "closed"]
<1>1. r \in Connections /\ conns' = [conns EXCEPT ![i] = r]
  BY ObjectFacts, EndKeeps DEF Close
<1>2. conns' \in Seq(Connections) /\ Objects' = Objects
  BY <1>1, UpdateFacts
<1>3. pool' \in [Nodes -> [Nodes -> Objects \cup {NoConn}]]
  BY DEF TypeOK, Close
<1>. QED  BY <1>2, <1>3 DEF TypeOK, Close

LEMMA OpenOK ==
    ASSUME TypeOK, NEW i \in Objects, Open(i)
    PROVE  TypeOK'
<1> DEFINE r == [conns[i] EXCEPT !.status = "open"]
<1>1. r \in Connections /\ conns' = [conns EXCEPT ![i] = r]
  BY ObjectFacts DEF Connections, Open
<1>2. conns' \in Seq(Connections) /\ Objects' = Objects
  BY <1>1, UpdateFacts
<1>. QED  BY <1>2 DEF TypeOK, Open

LEMMA HandleOK ==
    ASSUME TypeOK, NEW i \in Objects, HandleStep1(i)
    PROVE  TypeOK'
<1>1. conns' = conns /\ Objects' = Objects
  BY DEF HandleStep1, Objects
<1>. QED  BY <1>1 DEF TypeOK, HandleStep1

\* Next, with the quantifiers opened once.
LEMMA NextCases ==
    ASSUME [Next]_vars
    PROVE  \/ \E n, m \in Nodes : connect(n, m) \/ disconnect(n, m)
           \/ \E n \in Nodes : disconnectAll(n)
           \/ \E i \in Objects : Accept(i) \/ Answer(i) \/ Close(i) \/ Open(i)
           \/ \E i \in Objects : HandleStep1(i)
           \/ UNCHANGED <<conns, pool, hellos, failed>> /\ signals' \subseteq signals
BY DEF Next, LoseSignals, vars

LEMMA TypeStep ==
    ASSUME TypeOK, [Next]_vars
    PROVE  TypeOK'
<1>1. CASE UNCHANGED <<conns, pool, hellos, failed>> /\ signals' \subseteq signals
  BY <1>1 DEF TypeOK, Objects
<1>. QED  BY <1>1, NextCases, ConnectOK, DisconnectOK, DisconnectAllOK,
             AcceptOK, AnswerOK, CloseOK, OpenOK, HandleOK

LEMMA TypeInit == Init => TypeOK
<1> SUFFICES ASSUME Init PROVE TypeOK
  OBVIOUS
<1>1. Objects = {}
  BY DEF Init, Objects
<1>. QED  BY <1>1 DEF Init, TypeOK, Objects

\* Connections and pools keep their types; a pool, the signals and the messages
\* under way only ever name objects that were created.
THEOREM TypeCorrect == Spec => []TypeOK
<1>1. TypeOK /\ [Next]_vars => TypeOK'
  BY TypeStep
<1>. QED  BY <1>1, TypeInit, PTL DEF Spec

-----------------------------------------------------------------------------
(* The pool.  It holds the newest object of a peer or none, so a close event *)
(* that deletes another object's entry belongs to an older one, whose close  *)
(* was still to come when the newer one was created.                         *)

SamePeer(i, k) == conns[i].owner = conns[k].owner /\ conns[i].peer = conns[k].peer

PoolNewest ==
    \A n, m \in Nodes : pool[n][m] # NoConn =>
        /\ conns[pool[n][m]].owner = n /\ conns[pool[n][m]].peer = m
        /\ Unclosed(conns[pool[n][m]].status)
        /\ \A i \in Objects :
               conns[i].owner = n /\ conns[i].peer = m => i <= pool[n][m]

LateReplaces ==
    \A i, k \in Objects :
        i < k /\ SamePeer(i, k) /\ conns[i].status # "closed" => conns[k].replaces

PoolInv == PoolNewest /\ LateReplaces /\ OnlyReplacedLost

LEMMA PoolFacts ==
    ASSUME TypeOK
    PROVE  /\ \A n, m \in Nodes : pool[n][m] \in Objects \cup {NoConn}
           /\ \A i \in Objects : conns[i].owner \in Nodes /\ conns[i].peer \in Nodes
           /\ \A i \in Objects : i \in Nat /\ i # NoConn
           /\ pool \in [Nodes -> [Nodes -> Objects \cup {NoConn}]]
<1>1. \A i \in Objects : conns[i] \in Connections /\ i \in Ids
  BY ObjectFacts
<1>2. \A i \in Objects : conns[i].owner \in Nodes /\ conns[i].peer \in Nodes
  BY <1>1 DEF Connections
<1>. QED  BY <1>1, <1>2, IdFacts DEF TypeOK

\* A step that ends nothing and leaves the pool alone.
LEMMA PoolKept ==
    ASSUME TypeOK, PoolInv, Objects' = Objects, pool' = pool,
           \A x \in Objects :
               /\ conns'[x].owner = conns[x].owner /\ conns'[x].peer = conns[x].peer
               /\ conns'[x].replaces = conns[x].replaces
               /\ Unclosed(conns'[x].status) <=> Unclosed(conns[x].status)
               /\ conns'[x].status = "closed" <=> conns[x].status = "closed"
    PROVE  PoolInv'
<1>1. \A i, k \in Objects : SamePeer(i, k)' <=> SamePeer(i, k)
  BY DEF SamePeer
<1>2. PoolNewest'
  <2> SUFFICES ASSUME NEW n \in Nodes, NEW m \in Nodes, pool[n][m] # NoConn
               PROVE  /\ conns'[pool[n][m]].owner = n /\ conns'[pool[n][m]].peer = m
                      /\ Unclosed(conns'[pool[n][m]].status)
                      /\ \A i \in Objects :
                             conns'[i].owner = n /\ conns'[i].peer = m => i <= pool[n][m]
    BY DEF PoolNewest
  <2>1. pool[n][m] \in Objects
    BY PoolFacts
  <2>2. /\ conns[pool[n][m]].owner = n /\ conns[pool[n][m]].peer = m
        /\ Unclosed(conns[pool[n][m]].status)
        /\ \A i \in Objects :
               conns[i].owner = n /\ conns[i].peer = m => i <= pool[n][m]
    BY DEF PoolInv, PoolNewest
  <2>. QED  BY <2>1, <2>2
<1>3. LateReplaces'
  BY <1>1 DEF PoolInv, LateReplaces
<1>4. OnlyReplacedLost'
  BY DEF PoolInv, OnlyReplacedLost
<1>. QED  BY <1>2, <1>3, <1>4 DEF PoolInv

LEMMA CreatePool ==
    ASSUME TypeOK, PoolInv, NEW n \in Nodes, NEW m \in Nodes, NEW b \in BOOLEAN,
           NEW link \in Objects \cup {NoConn}, Create(n, m, b, link), pool[n][m] = NoConn
    PROVE  PoolInv'
<1>1. PICK i \in Ids :
          /\ i \notin Objects /\ i = Len(conns) + 1
          /\ Objects' = Objects \cup {i}
          /\ conns'[i] = NewConnection(n, m, b, link)
          /\ \A x \in Objects : conns'[x] = conns[x] /\ x < i
  BY CreateFacts
<1>2. /\ conns'[i].owner = n /\ conns'[i].peer = m /\ conns'[i].status = "new"
      /\ conns'[i].replaces <=> ClosePending(n, m)
  BY <1>1 DEF NewConnection
<1>3. pool' = [pool EXCEPT ![n][m] = i]
  BY <1>1 DEF Create
<1>4. i \in Nat /\ i # NoConn
  BY IdFacts
<1>5. /\ pool'[n][m] = i
      /\ \A p, q \in Nodes : p # n \/ q # m => pool'[p][q] = pool[p][q]
  BY <1>3, PoolFacts
<1>6. \A x, y \in Objects : SamePeer(x, y)' <=> SamePeer(x, y)
  BY <1>1 DEF SamePeer
<1>7. PoolNewest'
  <2> SUFFICES ASSUME NEW p \in Nodes, NEW q \in Nodes, pool'[p][q] # NoConn
               PROVE  /\ conns'[pool'[p][q]].owner = p /\ conns'[pool'[p][q]].peer = q
                      /\ Unclosed(conns'[pool'[p][q]].status)
                      /\ \A x \in Objects' :
                             conns'[x].owner = p /\ conns'[x].peer = q => x <= pool'[p][q]
    BY DEF PoolNewest
  <2>1. CASE p = n /\ q = m
    <3>1. \A x \in Objects' : x <= i
      BY <1>1, <1>4, PoolFacts
    <3>. QED  BY <1>2, <1>5, <2>1, <3>1 DEF Unclosed
  <2>2. CASE p # n \/ q # m
    <3>1. pool'[p][q] = pool[p][q] /\ pool[p][q] \in Objects
      BY <1>5, <2>2, PoolFacts
    <3>2. /\ conns[pool[p][q]].owner = p /\ conns[pool[p][q]].peer = q
          /\ Unclosed(conns[pool[p][q]].status)
          /\ \A x \in Objects :
                 conns[x].owner = p /\ conns[x].peer = q => x <= pool[p][q]
      BY <3>1, PoolFacts DEF PoolInv, PoolNewest
    <3>3. conns'[pool[p][q]] = conns[pool[p][q]]
      BY <1>1, <3>1
    <3>. QED  BY <1>1, <1>2, <2>2, <3>1, <3>2, <3>3
  <2>. QED  BY <2>1, <2>2
<1>8. LateReplaces'
  <2> SUFFICES ASSUME NEW x \in Objects', NEW k \in Objects',
                      x < k, SamePeer(x, k)', conns'[x].status # "closed"
               PROVE  conns'[k].replaces
    BY DEF LateReplaces
  <2>1. x \in Objects
    BY <1>1, <1>4, PoolFacts
  <2>2. CASE k = i
    <3>1. conns[x].owner = n /\ conns[x].peer = m /\ conns[x].status # "closed"
      BY <1>1, <1>2, <2>1, <2>2 DEF SamePeer
    <3>. QED  BY <1>2, <2>1, <2>2, <3>1 DEF ClosePending
  <2>3. CASE k \in Objects
    BY <1>1, <1>6, <2>1, <2>3 DEF PoolInv, LateReplaces
  <2>. QED  BY <1>1, <2>2, <2>3
<1>9. OnlyReplacedLost'
  <2> SUFFICES ASSUME NEW x \in Objects', Unclosed(conns'[x].status),
                      pool'[conns'[x].owner][conns'[x].peer] # x
               PROVE  conns'[x].replaces
    BY DEF OnlyReplacedLost
  <2>1. x # i
    BY <1>2, <1>5
  <2>2. x \in Objects /\ conns'[x] = conns[x]
    BY <1>1, <2>1
  <2>3. pool[conns[x].owner][conns[x].peer] # x
    BY <1>5, <2>2, PoolFacts
  <2>. QED  BY <2>2, <2>3 DEF PoolInv, OnlyReplacedLost
<1>. QED  BY <1>7, <1>8, <1>9 DEF PoolInv

\* A step that ends objects, those among them that leave the pool.
LEMMA EndPool ==
    ASSUME TypeOK, PoolInv, Objects' = Objects,
           pool' \in [Nodes -> [Nodes -> Objects \cup {NoConn}]],
           \A n, m \in Nodes : pool'[n][m] \in {pool[n][m], NoConn},
           \A x \in Objects :
               /\ conns'[x].owner = conns[x].owner /\ conns'[x].peer = conns[x].peer
               /\ conns'[x].replaces = conns[x].replaces
               /\ Unclosed(conns'[x].status) => conns'[x].status = conns[x].status
               /\ conns[x].status = "closed" => conns'[x].status = "closed",
           \A x \in Objects : ~Unclosed(conns'[x].status) =>
               pool'[conns[x].owner][conns[x].peer] # x,
           \A x \in Objects :
               /\ Unclosed(conns'[x].status)
               /\ pool'[conns[x].owner][conns[x].peer] # pool[conns[x].owner][conns[x].peer]
               /\ pool[conns[x].owner][conns[x].peer] = x
               => conns[x].replaces
    PROVE  PoolInv'
<1>1. \A i, k \in Objects : SamePeer(i, k)' <=> SamePeer(i, k)
  BY DEF SamePeer
<1>2. PoolNewest'
  <2> SUFFICES ASSUME NEW n \in Nodes, NEW m \in Nodes, pool'[n][m] # NoConn
               PROVE  /\ conns'[pool'[n][m]].owner = n /\ conns'[pool'[n][m]].peer = m
                      /\ Unclosed(conns'[pool'[n][m]].status)
                      /\ \A i \in Objects :
                             conns'[i].owner = n /\ conns'[i].peer = m => i <= pool'[n][m]
    BY DEF PoolNewest
  <2>1. pool'[n][m] = pool[n][m] /\ pool[n][m] \in Objects
    BY PoolFacts
  <2>2. /\ conns[pool[n][m]].owner = n /\ conns[pool[n][m]].peer = m
        /\ \A i \in Objects :
               conns[i].owner = n /\ conns[i].peer = m => i <= pool[n][m]
    BY <2>1, PoolFacts DEF PoolInv, PoolNewest
  <2>. QED  BY <2>1, <2>2
<1>3. LateReplaces'
  BY <1>1 DEF PoolInv, LateReplaces
<1>4. OnlyReplacedLost'
  BY DEF PoolInv, OnlyReplacedLost
<1>. QED  BY <1>2, <1>3, <1>4 DEF PoolInv

\* One object of the pool is replaced by a record that is as unclosed.
LEMMA UpdatePool ==
    ASSUME TypeOK, PoolInv, NEW k \in Objects, NEW r \in Connections,
           conns' = [conns EXCEPT ![k] = r], UNCHANGED pool,
           r.owner = conns[k].owner, r.peer = conns[k].peer,
           r.replaces = conns[k].replaces,
           Unclosed(r.status) <=> Unclosed(conns[k].status),
           r.status = "closed" <=> conns[k].status = "closed"
    PROVE  PoolInv'
<1>1. /\ Objects' = Objects /\ conns'[k] = r
      /\ \A x \in Objects : x # k => conns'[x] = conns[x]
  BY UpdateFacts
<1>. QED  BY <1>1, PoolKept

\* The objects of the pair that Close or disconnect takes from the pool.
LEMMA EndOnePool ==
    ASSUME TypeOK, PoolInv, NEW k \in Objects, NEW r \in Connections,
           conns' = [conns EXCEPT ![k] = r],
           pool' = [pool EXCEPT ![conns[k].owner][conns[k].peer] = NoConn],
           r.owner = conns[k].owner, r.peer = conns[k].peer,
           r.replaces = conns[k].replaces, ~Unclosed(r.status),
           conns[k].status = "closed" => r.status = "closed",
           conns[k].status # "closed"
    PROVE  PoolInv'
<1>1. /\ Objects' = Objects /\ conns'[k] = r
      /\ \A x \in Objects : x # k => conns'[x] = conns[x]
  BY UpdateFacts
<1>2. /\ pool' \in [Nodes -> [Nodes -> Objects \cup {NoConn}]]
      /\ pool'[conns[k].owner][conns[k].peer] = NoConn
      /\ \A n, m \in Nodes :
             n # conns[k].owner \/ m # conns[k].peer => pool'[n][m] = pool[n][m]
  BY PoolFacts
<1>3. \A n, m \in Nodes : pool'[n][m] \in {pool[n][m], NoConn}
  BY <1>2
<1>4. ASSUME NEW x \in Objects, ~Unclosed(conns'[x].status)
      PROVE  pool'[conns[x].owner][conns[x].peer] # x
  <2>1. x # NoConn /\ conns[x].owner \in Nodes /\ conns[x].peer \in Nodes
    BY PoolFacts
  <2>2. CASE x = k
    BY <1>2, <2>1, <2>2
  <2>3. CASE x # k
    <3>1. ~Unclosed(conns[x].status)
      BY <1>1, <1>4, <2>3
    <3>2. pool[conns[x].owner][conns[x].peer] # x
      BY <2>1, <3>1 DEF PoolInv, PoolNewest
    <3>. QED  BY <1>3, <2>1, <3>2
  <2>. QED  BY <2>2, <2>3
<1>5. ASSUME NEW x \in Objects, Unclosed(conns'[x].status),
             pool'[conns[x].owner][conns[x].peer] # pool[conns[x].owner][conns[x].peer],
             pool[conns[x].owner][conns[x].peer] = x
      PROVE  conns[x].replaces
  <2>1. x # k
    BY <1>1, <1>5
  <2>2. conns[x].owner = conns[k].owner /\ conns[x].peer = conns[k].peer
    BY <1>2, <1>5, PoolFacts
  <2>3. k <= x
    BY <1>5, <2>2, PoolFacts DEF PoolInv, PoolNewest
  <2>4. k < x
    <3>1. k \in Nat /\ x \in Nat
      BY PoolFacts
    <3>. QED  BY <2>1, <2>3, <3>1
  <2>. QED  BY <2>2, <2>4 DEF PoolInv, LateReplaces, SamePeer
<1>6. \A x \in Objects :
          /\ conns'[x].owner = conns[x].owner /\ conns'[x].peer = conns[x].peer
          /\ conns'[x].replaces = conns[x].replaces
          /\ Unclosed(conns'[x].status) => conns'[x].status = conns[x].status
          /\ conns[x].status = "closed" => conns'[x].status = "closed"
  BY <1>1
<1>. QED  BY <1>1, <1>2, <1>3, <1>4, <1>5, <1>6, EndPool

LEMMA PoolStep ==
    ASSUME TypeOK, PoolInv, [Next]_vars
    PROVE  PoolInv'
<1>1. ASSUME UNCHANGED <<conns, pool>> PROVE PoolInv'
  <2>1. Objects' = Objects
    BY <1>1 DEF Objects
  <2>. QED  BY <1>1, <2>1, PoolKept
<1>2. ASSUME NEW n \in Nodes, NEW m \in Nodes, connect(n, m) PROVE PoolInv'
  BY <1>2, CreatePool DEF connect
<1>3. ASSUME NEW i \in Objects, Accept(i) PROVE PoolInv'
  BY <1>3, AcceptIsCreate, CreatePool
<1>4. ASSUME NEW i \in Objects, Answer(i) PROVE PoolInv'
  <2> DEFINE k == pool[conns[i].peer][conns[i].owner]
  <2> DEFINE r == [conns[k] EXCEPT !.link = i]
  <2>1. k \in Objects /\ r \in Connections /\ conns' = [conns EXCEPT ![k] = r]
    BY <1>4, AnswerIsUpdate
  <2>2. /\ r.owner = conns[k].owner /\ r.peer = conns[k].peer
        /\ r.replaces = conns[k].replaces /\ r.status = conns[k].status
    BY <2>1, ObjectFacts DEF Connections
  <2>3. UNCHANGED pool
    BY <1>4 DEF Answer
  <2> HIDE DEF k, r
  <2>. QED  BY <2>1, <2>2, <2>3, UpdatePool
<1>5. ASSUME NEW n \in Nodes, NEW m \in Nodes, disconnect(n, m) PROVE PoolInv'
  <2> DEFINE k == pool[n][m]
  <2> DEFINE r == Destroyed(conns[k])
  <2>1. k \in Objects /\ r \in Connections /\ conns' = [conns EXCEPT ![k] = r]
    BY <1>5, DisconnectIsUpdate
  <2>2. /\ r.owner = conns[k].owner /\ r.peer = conns[k].peer
        /\ r.replaces = conns[k].replaces /\ ~Unclosed(r.status)
        /\ conns[k].status = "closed" => r.status = "closed"
    BY <2>1, EndKeeps, ObjectFacts
  <2>3. /\ conns[k].owner = n /\ conns[k].peer = m /\ Unclosed(conns[k].status)
    BY <1>5 DEF PoolInv, PoolNewest, disconnect
  <2>4. pool' = [pool EXCEPT ![conns[k].owner][conns[k].peer] = NoConn]
    BY <1>5, <2>3 DEF disconnect
  <2>5. conns[k].status # "closed"
    BY <2>3 DEF Unclosed
  <2> HIDE DEF k, r
  <2>. QED  BY <2>1, <2>2, <2>4, <2>5, EndOnePool
<1>6. ASSUME NEW n \in Nodes, disconnectAll(n) PROVE PoolInv'
  <2>1. Objects' = Objects
    BY <1>6, DisconnectAllFacts
  <2>2. /\ pool' \in [Nodes -> [Nodes -> Objects \cup {NoConn}]]
        /\ \A m \in Nodes : pool'[n][m] = NoConn
        /\ \A p, m \in Nodes : p # n => pool'[p][m] = pool[p][m]
    BY <1>6, PoolFacts DEF disconnectAll
  <2>3. \A p, m \in Nodes : pool'[p][m] \in {pool[p][m], NoConn}
    BY <2>2
  <2>4. ASSUME NEW x \in Objects
        PROVE  IF \E m \in Nodes : pool[n][m] = x
                  THEN /\ conns'[x] = Destroyed(conns[x])
                       /\ conns[x].owner = n
                  ELSE conns'[x] = conns[x]
    <3>1. x # NoConn
      BY PoolFacts
    <3>. QED  BY <1>6, <3>1, DisconnectAllFacts DEF PoolInv, PoolNewest
  <2>5. ASSUME NEW x \in Objects
        PROVE  /\ conns'[x].owner = conns[x].owner /\ conns'[x].peer = conns[x].peer
               /\ conns'[x].replaces = conns[x].replaces
               /\ Unclosed(conns'[x].status) => conns'[x].status = conns[x].status
               /\ conns[x].status = "closed" => conns'[x].status = "closed"
    <3>1. conns[x] \in Connections
      BY ObjectFacts
    <3>2. conns'[x] = conns[x] \/ conns'[x] = Destroyed(conns[x])
      BY <2>4
    <3>3. CASE conns'[x] = Destroyed(conns[x])
      <4> DEFINE d == Destroyed(conns[x])
      <4>1. /\ d.owner = conns[x].owner /\ d.peer = conns[x].peer
            /\ d.replaces = conns[x].replaces /\ ~Unclosed(d.status)
            /\ conns[x].status = "closed" => d.status = "closed"
        BY <3>1, EndKeeps
      <4> HIDE DEF d
      <4>2. conns'[x] = d
        BY <3>3 DEF d
      <4>. QED  BY <4>1, <4>2
    <3>. QED  BY <3>2, <3>3
  <2>6. ASSUME NEW x \in Objects, ~Unclosed(conns'[x].status)
        PROVE  pool'[conns[x].owner][conns[x].peer] # x
    <3>1. x # NoConn /\ conns[x].owner \in Nodes /\ conns[x].peer \in Nodes
      BY PoolFacts
    <3>2. CASE \E m \in Nodes : pool[n][m] = x
      BY <2>2, <2>4, <3>1, <3>2
    <3>3. CASE ~ \E m \in Nodes : pool[n][m] = x
      <4>1. conns'[x] = conns[x]
        BY <2>4, <3>3
      <4>2. pool[conns[x].owner][conns[x].peer] # x
        BY <2>6, <3>1, <4>1 DEF PoolInv, PoolNewest
      <4>. QED  BY <2>3, <3>1, <4>2
    <3>. QED  BY <3>2, <3>3
  <2>7. ASSUME NEW x \in Objects, Unclosed(conns'[x].status),
               pool'[conns[x].owner][conns[x].peer] # pool[conns[x].owner][conns[x].peer],
               pool[conns[x].owner][conns[x].peer] = x
        PROVE  conns[x].replaces
    <3>1. conns[x].owner = n /\ conns[x].peer \in Nodes
      BY <2>2, <2>7, PoolFacts
    <3>2. conns'[x] = Destroyed(conns[x])
      BY <2>4, <2>7, <3>1
    <3>. QED  BY <2>7, <3>2, EndKeeps, ObjectFacts
  <2>. QED  BY <2>1, <2>2, <2>3, <2>5, <2>6, <2>7, EndPool
<1>7. ASSUME NEW i \in Objects, Close(i) PROVE PoolInv'
  <2> DEFINE r == [conns[i] EXCEPT !.status = "closed"]
  <2>1. r \in Connections /\ conns' = [conns EXCEPT ![i] = r]
    BY <1>7, ObjectFacts, EndKeeps DEF Close
  <2>2. /\ r.owner = conns[i].owner /\ r.peer = conns[i].peer
        /\ r.replaces = conns[i].replaces /\ ~Unclosed(r.status)
        /\ r.status = "closed"
    BY EndKeeps, ObjectFacts
  <2>3. /\ pool' = [pool EXCEPT ![conns[i].owner][conns[i].peer] = NoConn]
        /\ conns[i].status # "closed"
    BY <1>7 DEF Close
  <2> HIDE DEF r
  <2>. QED  BY <2>1, <2>2, <2>3, EndOnePool
<1>8. ASSUME NEW i \in Objects, Open(i) PROVE PoolInv'
  <2> DEFINE r == [conns[i] EXCEPT !.status = "open"]
  <2>1. /\ r \in Connections /\ r.owner = conns[i].owner /\ r.peer = conns[i].peer
        /\ r.replaces = conns[i].replaces /\ r.status = "open"
    BY ObjectFacts DEF Connections
  <2>2. conns' = [conns EXCEPT ![i] = r] /\ UNCHANGED pool /\ conns[i].status = "new"
    BY <1>8 DEF Open
  <2>3. /\ Unclosed(r.status) <=> Unclosed(conns[i].status)
        /\ r.status = "closed" <=> conns[i].status = "closed"
    BY <2>1, <2>2 DEF Unclosed
  <2> HIDE DEF r
  <2>. QED  BY <2>1, <2>2, <2>3, UpdatePool
<1>9. ASSUME NEW i \in Objects, HandleStep1(i) PROVE PoolInv'
  BY <1>1, <1>9 DEF HandleStep1
<1>. QED  BY <1>1, <1>2, <1>3, <1>4, <1>5, <1>6, <1>7, <1>8, <1>9, NextCases

LEMMA PoolInit == Init => PoolInv
<1> SUFFICES ASSUME Init PROVE PoolInv
  OBVIOUS
<1>1. Objects = {}
  BY DEF Init, Objects
<1>. QED  BY <1>1 DEF Init, PoolInv, PoolNewest, LateReplaces, OnlyReplacedLost

\* A live connection leaves the pool only if it was created in the place of
\* one whose close event was still to come.
THEOREM OnlyReplacedLostHolds == Spec => []OnlyReplacedLost
<1>1. TypeOK /\ PoolInv /\ [Next]_vars => PoolInv' /\ TypeOK'
  BY TypeStep, PoolStep
<1>2. PoolInv => OnlyReplacedLost
  BY DEF PoolInv
<1>. QED  BY <1>1, <1>2, TypeInit, PoolInit, PTL DEF Spec

\* Nothing but the end of one of its two connections ends a glare.
THEOREM GlareSticksHolds == Spec => GlareSticks
<1> DEFINE Ends(n, m) == \E p \in {n, m} : \E i \in Objects :
                             conns[i].owner = p /\ conns'[i].status # conns[i].status
<1>1. ASSUME TypeOK, PoolInv, [Next]_vars, NEW n \in Nodes, NEW m \in Nodes,
             Glare(n, m), ~Glare(n, m)'
      PROVE  Ends(n, m)
  <2>1. /\ pool[n][m] \in Objects /\ conns[pool[n][m]].owner = n
        /\ Unclosed(conns[pool[n][m]].status) /\ conns[pool[n][m]].initiator
        /\ pool[m][n] \in Objects /\ conns[pool[m][n]].owner = m
        /\ Unclosed(conns[pool[m][n]].status) /\ conns[pool[m][n]].initiator
    BY <1>1, PoolFacts DEF Glare, PoolInv, PoolNewest
  <2>2. SUFFICES ASSUME ~Ends(n, m) PROVE FALSE
    OBVIOUS
  <2>3. ASSUME NEW p \in {n, m}, NEW i \in Objects, conns[i].owner = p
        PROVE  conns'[i].status = conns[i].status
    BY <2>2, <2>3
  <2>4. ASSUME pool'[n][m] = pool[n][m], pool'[m][n] = pool[m][n],
               \A x \in Objects : conns'[x].initiator = conns[x].initiator
        PROVE  FALSE
    BY <1>1, <2>1, <2>4 DEF Glare
  <2>5. ASSUME NEW k \in Objects, NEW r \in Connections, conns' = [conns EXCEPT ![k] = r],
               r.initiator = conns[k].initiator, pool' = pool
        PROVE  FALSE
    BY <1>1, <2>4, <2>5, UpdateFacts
  <2>6. ASSUME UNCHANGED <<conns, pool>> PROVE FALSE
    BY <2>4, <2>6
  <2>7. ASSUME NEW p \in Nodes, NEW q \in Nodes, NEW b \in BOOLEAN,
               NEW link \in Objects \cup {NoConn}, Create(p, q, b, link), pool[p][q] = NoConn
        PROVE  FALSE
    <3>1. \A x \in Objects : conns'[x] = conns[x]
      BY <1>1, <2>7, CreateFacts
    <3>2. pool' = [pool EXCEPT ![p][q] = Len(conns) + 1]
      BY <2>7 DEF Create
    <3>3. pool[n][m] # NoConn /\ pool[m][n] # NoConn
      BY <1>1 DEF Glare
    <3>4. pool'[n][m] = pool[n][m] /\ pool'[m][n] = pool[m][n]
      BY <1>1, <2>7, <3>2, <3>3, PoolFacts
    <3>. QED  BY <2>4, <3>1, <3>4
  <2>8. ASSUME NEW k \in Objects, NEW r \in Connections, conns' = [conns EXCEPT ![k] = r],
               ~Unclosed(r.status), r.initiator = conns[k].initiator,
               pool' = [pool EXCEPT ![conns[k].owner][conns[k].peer] = NoConn],
               Unclosed(conns[k].status) \/ r.status # conns[k].status
        PROVE  FALSE
    <3>1. /\ conns'[k] = r
          /\ \A x \in Objects : x # k => conns'[x] = conns[x]
      BY <1>1, <2>8, UpdateFacts
    <3>2. conns'[k].status # conns[k].status
      BY <2>8, <3>1
    <3>3. conns[k].owner # n /\ conns[k].owner # m
      BY <2>3, <3>2
    <3>4. pool'[n][m] = pool[n][m] /\ pool'[m][n] = pool[m][n]
      BY <1>1, <2>8, <3>3, PoolFacts
    <3>. QED  BY <2>4, <2>8, <3>1, <3>4
  <2>9. ASSUME NEW p \in Nodes, NEW q \in Nodes, disconnect(p, q) PROVE FALSE
    <3> DEFINE k == pool[p][q]
    <3> DEFINE r == Destroyed(conns[k])
    <3>1. k \in Objects /\ r \in Connections /\ conns' = [conns EXCEPT ![k] = r]
      BY <1>1, <2>9, DisconnectIsUpdate
    <3>2. conns[k].owner = p /\ conns[k].peer = q /\ Unclosed(conns[k].status)
      BY <1>1, <2>9 DEF PoolInv, PoolNewest, disconnect
    <3>3. pool' = [pool EXCEPT ![conns[k].owner][conns[k].peer] = NoConn]
      BY <2>9, <3>2 DEF disconnect
    <3>4. ~Unclosed(r.status) /\ r.initiator = conns[k].initiator
      BY <1>1, <3>1, EndKeeps, ObjectFacts
    <3> HIDE DEF k, r
    <3>. QED  BY <2>8, <3>1, <3>2, <3>3, <3>4
  <2>10. ASSUME NEW p \in Nodes, disconnectAll(p) PROVE FALSE
    <3>1. ASSUME NEW x \in Objects
          PROVE  conns'[x].initiator = conns[x].initiator
      BY <1>1, <2>10, DisconnectAllFacts, EndKeeps, ObjectFacts
    <3>2. \A q, a \in Nodes : q # p => pool'[q][a] = pool[q][a]
      BY <1>1, <2>10, PoolFacts DEF disconnectAll
    <3>3. CASE p \notin {n, m}
      BY <1>1, <2>4, <3>1, <3>2, <3>3
    <3>4. CASE p = n
      <4>1. conns'[pool[n][m]] = Destroyed(conns[pool[n][m]])
        BY <1>1, <2>1, <2>10, <3>4, DisconnectAllFacts
      <4>2. ~Unclosed(conns'[pool[n][m]].status)
        BY <1>1, <2>1, <4>1, EndKeeps, ObjectFacts
      <4>. QED  BY <2>1, <2>3, <4>2
    <3>5. CASE p = m
      <4>1. conns'[pool[m][n]] = Destroyed(conns[pool[m][n]])
        BY <1>1, <2>1, <2>10, <3>5, DisconnectAllFacts
      <4>2. ~Unclosed(conns'[pool[m][n]].status)
        BY <1>1, <2>1, <4>1, EndKeeps, ObjectFacts
      <4>. QED  BY <2>1, <2>3, <4>2
    <3>. QED  BY <3>3, <3>4, <3>5
  <2>11. ASSUME NEW i \in Objects, Close(i) PROVE FALSE
    <3> DEFINE r == [conns[i] EXCEPT !.status = "closed"]
    <3>1. r \in Connections /\ conns' = [conns EXCEPT ![i] = r]
      BY <1>1, <2>11, ObjectFacts, EndKeeps DEF Close
    <3>2. ~Unclosed(r.status) /\ r.initiator = conns[i].initiator /\ r.status = "closed"
      BY <1>1, EndKeeps, ObjectFacts
    <3>3. /\ pool' = [pool EXCEPT ![conns[i].owner][conns[i].peer] = NoConn]
          /\ conns[i].status # "closed"
      BY <2>11 DEF Close
    <3> HIDE DEF r
    <3>. QED  BY <2>8, <3>1, <3>2, <3>3
  <2>12. ASSUME NEW i \in Objects, Answer(i) PROVE FALSE
    <3> DEFINE k == pool[conns[i].peer][conns[i].owner]
    <3> DEFINE r == [conns[k] EXCEPT !.link = i]
    <3>1. k \in Objects /\ r \in Connections /\ conns' = [conns EXCEPT ![k] = r]
      BY <1>1, <2>12, AnswerIsUpdate
    <3>2. r.initiator = conns[k].initiator
      BY <1>1, <3>1, ObjectFacts DEF Connections
    <3>3. pool' = pool
      BY <2>12 DEF Answer
    <3> HIDE DEF k, r
    <3>. QED  BY <2>5, <3>1, <3>2, <3>3
  <2>13. ASSUME NEW i \in Objects, Open(i) PROVE FALSE
    <3> DEFINE r == [conns[i] EXCEPT !.status = "open"]
    <3>1. r \in Connections /\ r.initiator = conns[i].initiator
      BY <1>1, ObjectFacts DEF Connections
    <3>2. conns' = [conns EXCEPT ![i] = r] /\ pool' = pool
      BY <2>13 DEF Open
    <3> HIDE DEF r
    <3>. QED  BY <2>5, <3>1, <3>2
  <2>14. ASSUME NEW i \in Objects, HandleStep1(i) PROVE FALSE
    BY <2>6, <2>14 DEF HandleStep1
  <2>15. ASSUME NEW p \in Nodes, NEW q \in Nodes, connect(p, q) PROVE FALSE
    BY <2>7, <2>15 DEF connect
  <2>16. ASSUME NEW i \in Objects, Accept(i) PROVE FALSE
    BY <1>1, <2>7, <2>16, AcceptIsCreate
  <2>. QED  BY <1>1, <2>6, <2>9, <2>10, <2>11, <2>12, <2>13, <2>14, <2>15, <2>16, NextCases
<1>2. TypeOK /\ PoolInv /\ [Next]_vars =>
          [\A n, m \in Nodes : Glare(n, m) /\ ~Glare(n, m)' => Ends(n, m)]_vars
  BY <1>1
<1>3. TypeOK /\ PoolInv /\ [Next]_vars => PoolInv' /\ TypeOK'
  BY TypeStep, PoolStep
<1>. QED  BY <1>2, <1>3, TypeInit, PoolInit, PTL DEF Spec, GlareSticks

=============================================================================
