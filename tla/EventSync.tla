----------------------------- MODULE EventSync -----------------------------
(***************************************************************************)
(* Nodes that exchange event history: DistributedNode                      *)
(* (distributed/consensus.ts), whose engine and SyncManager                *)
(* (distributed/synchronization.ts) share one event store, over a network  *)
(* that may lose, duplicate and reorder messages.                          *)
(*                                                                         *)
(* emit and merge go through the engine: they check references, add edges  *)
(* to the causal graph and run the reducer.  processSyncMessage appends to *)
(* the shared store and does none of that.  Ids are generated, so an id    *)
(* names one event, emitted by one node.  The reducer is                   *)
(* JCComputeEngine's: the state is the sequence of ids applied.            *)
(***************************************************************************)
EXTENDS CausalGraph, SequencesExt

CONSTANTS
    Nodes,
    Events,         \* records with id, parents (a sequence) and origin
    Needs,          \* Needs[id]: the ids without which the reducer throws
    Timestamp,      \* Timestamp[id]: the event's timestamp, by its node's clock
    Rank,           \* Rank[id]: the id's place in the order of localeCompare
    NoEvent,        \* the empty cursor
    NeverSynced,    \* no sync state for the peer yet
    MaxInFlight     \* bound on the messages in the network

ASSUME EventsAssumption ==
    Events \subseteq [id : Ids, parents : Seq(Ids), origin : Nodes]
ASSUME IdsNameEvents == \A e, f \in Events : e.id = f.id => e = f
ASSUME TimestampAssumption == Timestamp \in [Ids -> Nat]
ASSUME RankAssumption ==
    /\ Rank \in [Ids -> Nat]
    /\ \A x, y \in Ids : Rank[x] = Rank[y] => x = y
ASSUME CursorAssumption == {NoEvent, NeverSynced} \cap Ids = {}

VARIABLES
    store,          \* store[n]: the event store of n's engine, oldest first
    state,          \* state[n]: currentState of n's engine
    graph,          \* graph[n]: the edges of its causal graph
    cursor,         \* cursor[n][m]: lastSyncEventId in n's sync state for m
    network,        \* the messages that may still arrive
    skipped         \* history variable: some push left a gap at its receiver

vars == <<store, state, graph, cursor, network, skipped>>

Messages ==
    [type : {"sync", "request", "response"}, from : Nodes, to : Nodes,
     events : Seq(Events), after : Ids \cup {NoEvent}, upTo : Ids \cup {NoEvent}]

StoredIds(log) == {log[i].id : i \in DOMAIN log}

\* findIndex, counted from 1, and 0 for the -1 of an absent id.
IndexOf(log, id) == SelectInSeq(log, LAMBDA e : e.id = id)

-----------------------------------------------------------------------------
(* getEventsRange and getMissingEvents.                                    *)

\* Both bounds are included; an unknown one is as good as none.
EventsRange(log, from, to) ==
    LET first == IndexOf(log, from)
        last == IndexOf(log, to)
    IN  SubSeq(log, IF first = 0 THEN 1 ELSE first,
                    IF last = 0 THEN Len(log) ELSE last)

MissingEvents(log, theirLast) == SubSeq(log, IndexOf(log, theirLast) + 1, Len(log))

-----------------------------------------------------------------------------
(* One emit of an event of this system, as a function of the node's store, *)
(* state and graph.  Rejected emits leave them alone: an id has one set of *)
(* parents, so the edges a rejected emit adds are already there.           *)

EmitAccepted(node, e) ==
    /\ {e.parents[i] : i \in DOMAIN e.parents} \subseteq StoredIds(node.store)
    /\ Refused(node.graph, e.parents, e.id) = {}
    /\ e.id \notin StoredIds(node.store)

ReducerThrows(s, e) == ~(Needs[e.id] \subseteq ToSet(s))

EmitOn(node, e) ==
    IF ~EmitAccepted(node, e) THEN [node EXCEPT !.threw = TRUE]
    ELSE LET stored == [node EXCEPT !.store = Append(@, e),
                                    !.graph = AddEdges(@, e.parents, e.id)]
         IN  IF ReducerThrows(node.state, e)
                THEN [stored EXCEPT !.threw = TRUE]
                ELSE [stored EXCEPT !.state = Append(@, e.id)]

Engine(n) == [store |-> store[n], state |-> state[n], graph |-> graph[n], threw |-> FALSE]

\* merge: skip what is stored, emit the rest; the first exception ends it.
MergeInto(node, events) ==
    LET after[i \in 0..Len(events)] ==
            IF i = 0 THEN node
            ELSE LET before == after[i - 1]
                 IN  IF before.threw \/ events[i].id \in StoredIds(before.store)
                        THEN before ELSE EmitOn(before, events[i])
    IN  after[Len(events)]

Becomes(n, node) ==
    /\ store' = [store EXCEPT ![n] = node.store]
    /\ state' = [state EXCEPT ![n] = node.state]
    /\ graph' = [graph EXCEPT ![n] = node.graph]

-----------------------------------------------------------------------------
(* MergeSemantics (distributed/merge-semantics.ts), the merge that sorts.   *)

\* Faulty variant: equal timestamps keep the order of arrival.
PrecedesInTime(x, y) == Timestamp[x.id] < Timestamp[y.id]

Precedes(x, y) ==
    \/ Timestamp[x.id] < Timestamp[y.id]
    \/ Timestamp[x.id] = Timestamp[y.id] /\ Rank[x.id] < Rank[y.id]

\* e goes in front of the first event it precedes.
InsertInOrder(sorted, e) ==
    LET later == SelectInSeq(sorted, LAMBDA x : Precedes(e, x))
        place == IF later = 0 THEN Len(sorted) + 1 ELSE later
    IN  SubSeq(sorted, 1, place - 1) \o <<e>> \o SubSeq(sorted, place, Len(sorted))

\* A stable sort of the events.
causalOrder(events) ==
    LET sorted[i \in 0..Len(events)] ==
            IF i = 0 THEN <<>> ELSE InsertInOrder(sorted[i - 1], events[i])
    IN  sorted[Len(events)]

\* An event the reducer throws on is a conflict; the merge goes on after it.
MergeSemantics(base, events) ==
    LET order == causalOrder(events)
        after[i \in 0..Len(order)] ==
            IF i = 0 THEN [state |-> base, conflicts |-> <<>>]
            ELSE LET before == after[i - 1]
                 IN  IF ReducerThrows(before.state, order[i])
                        THEN [before EXCEPT !.conflicts = Append(@, order[i].id)]
                        ELSE [before EXCEPT !.state = Append(@, order[i].id)]
    IN  after[Len(order)]

-----------------------------------------------------------------------------
Init ==
    /\ store = [n \in Nodes |-> <<>>]
    /\ state = [n \in Nodes |-> <<>>]
    /\ graph = [n \in Nodes |-> {}]
    /\ cursor = [n \in Nodes |-> [m \in Nodes |-> NeverSynced]]
    /\ network = {}
    /\ skipped = FALSE

Emit(n, e) ==
    /\ e.origin = n
    /\ EmitAccepted(Engine(n), e)
    /\ Becomes(n, EmitOn(Engine(n), e))
    /\ UNCHANGED <<cursor, network, skipped>>

\* A cursor as a call's fromEventId: no sync state and "" both mean none.
CursorFor(n, m) == IF cursor[n][m] = NeverSynced THEN NoEvent ELSE cursor[n][m]

Send(msg) ==
    /\ Cardinality(network) < MaxInFlight
    /\ network' = network \cup {msg}

\* A push from an event leaves a gap if its receiver lacks what is before it.
LeavesGap(n, m, from) ==
    \E i \in DOMAIN store[n] : i < IndexOf(store[n], from) /\ store[n][i] \notin ToSet(store[m])

\* createSyncMessage: the part of n's history between two of its events, both
\* chosen by the caller, or everything before or after one of them.
Push(n, m, from, upTo) ==
    /\ n # m
    /\ {from, upTo} \subseteq StoredIds(store[n]) \cup {NoEvent}
    /\ Send([type |-> "sync", from |-> n, to |-> m, after |-> from, upTo |-> upTo,
             events |-> EventsRange(store[n], from, upTo)])
    /\ skipped' = (skipped \/ LeavesGap(n, m, from))
    /\ UNCHANGED <<store, state, graph, cursor>>

\* requestSync from the cursor n has for m.
Request(n, m) ==
    /\ n # m
    /\ Send([type |-> "request", from |-> n, to |-> m, after |-> CursorFor(n, m),
             upTo |-> NoEvent, events |-> <<>>])
    /\ UNCHANGED <<store, state, graph, cursor, skipped>>

\* respondToSync, called by the application's onMessage handler.
Response(msg) ==
    [type |-> "response", from |-> msg.to, to |-> msg.from, after |-> msg.after,
     upTo |-> NoEvent, events |-> EventsRange(store[msg.to], msg.after, NoEvent)]

\* Faulty variant: what a message brings goes before what is there.
UnseenFirst(log, events) ==
    SelectSeq(events, LAMBDA e : e.id \notin StoredIds(log)) \o log

\* Faulty variant: the loop ends at the first event it has.
AppendUntilSeen(log, events) ==
    LET seen == {i \in DOMAIN events : events[i].id \in StoredIds(log)}
    IN  log \o SubSeq(events, 1, IF seen = {} THEN Len(events) ELSE Min(seen) - 1)

\* The loop of processSyncMessage: each event the store does not have by then.
AppendUnseen(log, events) ==
    LET after[i \in 0..Len(events)] ==
            IF i = 0 THEN log
            ELSE LET before == after[i - 1]
                 IN  IF events[i].id \in StoredIds(before)
                        THEN before ELSE Append(before, events[i])
    IN  after[Len(events)]

\* Faulty variant: an empty message leaves the newest event as the cursor.
NewestCursor(msg) ==
    IF msg.events # <<>> THEN Last(msg.events).id
    ELSE IF store[msg.from] # <<>> THEN Last(store[msg.from]).id ELSE NoEvent

\* lastSyncEventId after a message, whatever its type.
CursorAfter(msg) == IF msg.events # <<>> THEN Last(msg.events).id ELSE msg.upTo

\* InMemoryTransport.send: every message goes to processSyncMessage, then to
\* the handlers, one of which answers requests.  The network may keep a copy.
Deliver(msg, kept) ==
    /\ store' = [store EXCEPT ![msg.to] = AppendUnseen(@, msg.events)]
    /\ cursor' = [cursor EXCEPT ![msg.to][msg.from] = CursorAfter(msg)]
    /\ network' = kept \cup (IF msg.type = "request" THEN {Response(msg)} ELSE {})
    /\ UNCHANGED <<state, graph, skipped>>

Receive(msg) == Deliver(msg, network \ {msg}) \/ Deliver(msg, network)

Lose(msg) ==
    /\ network' = network \ {msg}
    /\ UNCHANGED <<store, state, graph, cursor, skipped>>

\* n.merge(m.getMissingEvents(cursor)), or of m's whole history without cursor.
Merge(n, m) ==
    /\ n # m
    /\ Becomes(n, MergeInto(Engine(n), MissingEvents(store[m], CursorFor(n, m))))
    /\ UNCHANGED <<cursor, network, skipped>>

\* SyncManager.clear.
ClearSyncStates(n) ==
    /\ cursor' = [cursor EXCEPT ![n] = [m \in Nodes |-> NeverSynced]]
    /\ UNCHANGED <<store, state, graph, network, skipped>>

Next ==
    \/ \E n \in Nodes, e \in Events : Emit(n, e)
    \/ \E n, m \in Nodes : Request(n, m) \/ Merge(n, m)
    \/ \E n, m \in Nodes, from, upTo \in Ids \cup {NoEvent} : Push(n, m, from, upTo)
    \/ \E msg \in network : Receive(msg) \/ Lose(msg)
    \/ \E n \in Nodes : ClearSyncStates(n)

Spec == Init /\ [][Next]_vars

\* Each node keeps pushing its history to each other; no copy of a message
\* stays in the network forever; and a message with a node's current history
\* that is sent again and again is in the end delivered.
Leaves(n, m) ==
    \E msg \in network :
        /\ msg.from = n /\ msg.to = m
        /\ Lose(msg) \/ Deliver(msg, network \ {msg})

DeliverCurrent(n, m) ==
    \E msg \in network :
        /\ msg.from = n /\ msg.to = m /\ msg.events = store[n]
        /\ Deliver(msg, network \ {msg})

FairSpec ==
    /\ Spec
    /\ \A n \in Nodes : \A m \in Nodes \ {n} :
          /\ WF_vars(Leaves(n, m))
          /\ SF_vars(Push(n, m, NoEvent, NoEvent))
          /\ SF_vars(DeliverCurrent(n, m))

-----------------------------------------------------------------------------
(* Properties.                                                             *)

TypeOK ==
    /\ store \in [Nodes -> Seq(Events)]
    /\ state \in [Nodes -> Seq(Ids)]
    /\ graph \in [Nodes -> SUBSET Edges]
    /\ cursor \in [Nodes -> [Nodes -> Ids \cup {NoEvent, NeverSynced}]]
    /\ network \subseteq Messages
    /\ skipped \in BOOLEAN

\* What a pull relies on: a node that asks for what follows its cursor holds
\* everything the peer stored up to it, although answers are late, repeated,
\* out of order or about an older history.  It takes one push that began past
\* what its receiver had, as after a lost one, to make it false.
CursorCoversPrefix ==
    ~skipped => \A n, m \in Nodes :
        \A i \in DOMAIN store[m] :
            store[m][i].id = cursor[n][m] =>
                \A k \in 1..i : store[m][k] \in ToSet(store[n])

\* "Parent events are known before children are accepted", although
\* processSyncMessage does not check it: only the ranges sent make it so, until
\* a push begins past what its receiver had.
ParentsPrecede ==
    ~skipped => \A n \in Nodes : \A i \in DOMAIN store[n] :
        ToSet(store[n][i].parents) \subseteq {store[n][k].id : k \in 1..(i - 1)}

\* Every stored event reaches every node.
StoresConverge ==
    \A n \in Nodes : \A m \in Nodes \ {n} : \A e \in Events :
        e \in ToSet(store[n]) ~> e \in ToSet(store[m])

\* Nodes that store the same events in different orders replay to different
\* states, but MergeSemantics gives both the same state and the same conflicts,
\* whatever their clocks did: the order of arrival decides nothing.
MergesConverge ==
    \A n, m \in Nodes :
        store[n] # store[m] /\ ToSet(store[n]) = ToSet(store[m])
            => MergeSemantics(<<>>, store[n]) = MergeSemantics(<<>>, store[m])

=============================================================================
