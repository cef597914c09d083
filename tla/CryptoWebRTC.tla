---------------------------- MODULE CryptoWebRTC ----------------------------
(***************************************************************************)
(* Peer connections and the mesh that pools them                           *)
(* (network/crypto-webrtc.ts).  A node's mesh keeps one connection per     *)
(* peer; a connection is an object around a WebRTC channel that its        *)
(* creator initiates or, when it was created for a signal, responds on.    *)
(* Objects outlive their place in the pool, so they have ids of their own. *)
(*                                                                         *)
(* WebRTC (simple-peer) and the application that carries signals between   *)
(* nodes are external: signals may be lost, repeated and late, an open     *)
(* channel is reliable, a channel may break at any time, and its close     *)
(* event comes some time after destroy().                                  *)
(*                                                                         *)
(* The handshake that a connection runs on its open channel ends at its    *)
(* first message.  sendRaw puts the initiator's Uint8Array through         *)
(* JSON.stringify, which makes an object of it, and new Uint8Array of that *)
(* object is empty: dh throws on the empty key, handleData reports the     *)
(* error, and nothing is sent back.  So no connection is ever connected,   *)
(* has a secret or a heartbeat, and send() only ever throws; none of those *)
(* is a part of the state here.                                            *)
(***************************************************************************)
EXTENDS Integers, Sequences, FiniteSets

CONSTANTS
    Nodes,
    MaxPeers,   \* config.maxPeers
    MaxConns    \* bound on the connection objects ever created

Ids == 1..MaxConns
NoConn == 0

ASSUME NodesAssumption == IsFiniteSet(Nodes)
ASSUME MaxPeersAssumption == MaxPeers \in Nat \ {0}
ASSUME MaxConnsAssumption == MaxConns \in Nat

VARIABLES
    conns,      \* the objects created so far, in order
    pool,       \* pool[n][m]: connections.get(m) of n's mesh, or NoConn
    signals,    \* the objects of which a signal may still reach the peer
    hellos,     \* the initiators whose first message is under way
    failed      \* the objects that emitted "error": their handshake has failed

vars == <<conns, pool, signals, hellos, failed>>

Objects == DOMAIN conns

Init ==
    /\ conns = <<>>
    /\ pool = [n \in Nodes |-> [m \in Nodes |-> NoConn]]
    /\ signals = {}
    /\ hellos = {}
    /\ failed = {}

-----------------------------------------------------------------------------
(* The pool.                                                               *)

PeersOf(n) == {m \in Nodes : pool[n][m] # NoConn}

HasRoom(n) == Cardinality(PeersOf(n)) < MaxPeers

Unclosed(status) == status \in {"new", "open"}

\* An object of the pair whose close event is still to come.  For properties
\* only: replaces says that an object was created in that time.
ClosePending(n, m) ==
    \E i \in Objects :
        conns[i].owner = n /\ conns[i].peer = m /\ conns[i].status # "closed"

\* link is the object at the other end, once the signals have named it.
NewConnection(n, m, initiator, link) ==
    [owner |-> n, peer |-> m, initiator |-> initiator, link |-> link,
     status |-> "new", replaces |-> ClosePending(n, m)]

\* connect past its two early exits.
Create(n, m, initiator, link) ==
    LET i == Len(conns) + 1
    IN  /\ i \in Ids
        /\ conns' = Append(conns, NewConnection(n, m, initiator, link))
        /\ pool' = [pool EXCEPT ![n][m] = i]
        /\ signals' = signals \cup {i}
        /\ UNCHANGED <<hellos, failed>>

\* connect(m) for a peer that is not in the pool.  Otherwise it returns what
\* is there or throws, and changes nothing.
connect(n, m) ==
    /\ n # m
    /\ pool[n][m] = NoConn
    /\ HasRoom(n)
    /\ Create(n, m, TRUE, NoConn)

\* Faulty variant: the answer to a glare is a new connection in its place.
AcceptAnew(s) ==
    LET n == conns[s].peer
        m == conns[s].owner
    IN  /\ s \in signals
        /\ pool[n][m] = NoConn => HasRoom(n)
        /\ Create(n, m, FALSE, IF conns[s].initiator THEN s ELSE NoConn)

\* connect(m, signal) with a signal of object s.  A candidate that comes late
\* is a signal too, and makes a responder nobody initiates to.
Accept(s) ==
    LET n == conns[s].peer
        m == conns[s].owner
    IN  /\ s \in signals
        /\ pool[n][m] = NoConn
        /\ HasRoom(n)
        /\ Create(n, m, FALSE, IF conns[s].initiator THEN s ELSE NoConn)

\* connect(m, signal) returns the pooled connection and drops the signal; the
\* application hands it over.  Only the answer to its own offer serves it.
Answer(s) ==
    LET k == pool[conns[s].peer][conns[s].owner]
    IN  /\ s \in signals
        /\ k # NoConn
        /\ conns[k].initiator
        /\ conns[k].link = NoConn
        /\ conns[k].status = "new"
        /\ conns[s].link = k
        /\ conns' = [conns EXCEPT ![k].link = s]
        /\ UNCHANGED <<pool, signals, hellos, failed>>

\* No more signals of s arrive: they came, were dropped by connect, or got lost.
LoseSignals(s) ==
    /\ s \in signals
    /\ signals' = signals \ {s}
    /\ UNCHANGED <<conns, pool, hellos, failed>>

-----------------------------------------------------------------------------
(* Ends of a connection.                                                   *)

\* destroy: peer.destroy() does nothing the second time.
Destroyed(conn) == [conn EXCEPT !.status = IF Unclosed(@) THEN "destroyed" ELSE @]

disconnect(n, m) ==
    LET i == pool[n][m]
    IN  /\ i # NoConn
        /\ conns' = [conns EXCEPT ![i] = Destroyed(@)]
        /\ pool' = [pool EXCEPT ![n][m] = NoConn]
        /\ UNCHANGED <<signals, hellos, failed>>

\* Faulty variant: the connections are forgotten, not destroyed.
ForgetAll(n) ==
    /\ pool' = [pool EXCEPT ![n] = [m \in Nodes |-> NoConn]]
    /\ UNCHANGED <<conns, signals, hellos, failed>>

disconnectAll(n) ==
    LET pooled == {pool[n][m] : m \in PeersOf(n)}
    IN  /\ conns' = [i \in Objects |-> IF i \in pooled THEN Destroyed(conns[i]) ELSE conns[i]]
        /\ pool' = [pool EXCEPT ![n] = [m \in Nodes |-> NoConn]]
        /\ UNCHANGED <<signals, hellos, failed>>

\* The channel's close event, after destroy() or because it broke: the mesh
\* deletes the peer's entry, whichever connection it holds.
Close(i) ==
    /\ i \in Objects
    /\ conns[i].status # "closed"
    /\ conns' = [conns EXCEPT ![i].status = "closed"]
    /\ pool' = [pool EXCEPT ![conns[i].owner][conns[i].peer] = NoConn]
    /\ UNCHANGED <<signals, hellos, failed>>

-----------------------------------------------------------------------------
(* The channel and the handshake on it.                                    *)

\* The channel is open at i: the initiator sends the first message.
Open(i) ==
    LET j == conns[i].link
    IN  /\ i \in Objects
        /\ j # NoConn
        /\ conns[i].status = "new"
        /\ conns[j].link = i
        /\ Unclosed(conns[j].status)
        /\ conns' = [conns EXCEPT ![i].status = "open"]
        /\ hellos' = IF conns[i].initiator THEN hellos \cup {i} ELSE hellos
        /\ UNCHANGED <<pool, signals, failed>>

\* Step 1 reaches the responder, who cannot use the key that came through
\* JSON: an error is reported, the pool is left alone.
HandleStep1(i) ==
    LET j == conns[i].link
    IN  /\ i \in Objects
        /\ conns[i].status = "open"
        /\ j \in hellos
        /\ hellos' = hellos \ {j}
        /\ failed' = failed \cup {i}
        /\ UNCHANGED <<conns, pool, signals>>

-----------------------------------------------------------------------------
Next ==
    \/ \E n, m \in Nodes : connect(n, m) \/ disconnect(n, m)
    \/ \E n \in Nodes : disconnectAll(n)
    \/ \E i \in Objects :
          \/ Accept(i)
          \/ Answer(i)
          \/ LoseSignals(i)
          \/ Close(i)
          \/ Open(i)
          \/ HandleStep1(i)

Spec == Init /\ [][Next]_vars

-----------------------------------------------------------------------------
(* Properties.                                                             *)

Connections ==
    [owner : Nodes, peer : Nodes, initiator : BOOLEAN, link : Ids \cup {NoConn},
     status : {"new", "open", "destroyed", "closed"}, replaces : BOOLEAN]

TypeOK ==
    /\ conns \in Seq(Connections)
    /\ Objects \subseteq Ids
    /\ pool \in [Nodes -> [Nodes -> Objects \cup {NoConn}]]
    /\ signals \subseteq Objects
    /\ hellos \subseteq Objects
    /\ failed \subseteq Objects

\* What the late close of a replaced connection can do to the pool: a live
\* connection the mesh no longer knows was created before the close event of
\* an older one of the same peer.  Nothing else loses one.
OnlyReplacedLost ==
    \A i \in Objects :
        Unclosed(conns[i].status) /\ pool[conns[i].owner][conns[i].peer] # i
            => conns[i].replaces

\* Both nodes connected at once: each is an initiator to the other.
Glare(n, m) ==
    /\ pool[n][m] # NoConn /\ conns[pool[n][m]].initiator
    /\ pool[m][n] # NoConn /\ conns[pool[m][n]].initiator

\* No signal ends a glare: only closing one of the two connections does.
GlareSticks ==
    [][ \A n, m \in Nodes :
          Glare(n, m) /\ ~Glare(n, m)' =>
              \E p \in {n, m} : \E i \in Objects :
                  conns[i].owner = p /\ conns'[i].status # conns[i].status ]_vars

=============================================================================
