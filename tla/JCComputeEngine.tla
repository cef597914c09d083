-------------------------- MODULE JCComputeEngine --------------------------
(***************************************************************************)
(* The execution engine (core/execution.ts) with the event store           *)
(* (core/event.ts) and the causal graph it owns.  Every method is          *)
(* synchronous, but emit, reset and import call the subscribers, and a     *)
(* subscriber may call the engine back before the outer call returns.  The *)
(* call stack is therefore part of the state: its head is the running      *)
(* frame, its last element the program's main code.                        *)
(*                                                                         *)
(* The reducer is the one that tells most histories apart, the list-append *)
(* of examples/todo-app.ts: the state is the sequence of the ids applied.  *)
(* It throws on an event that needs an id the state does not hold.         *)
(***************************************************************************)
EXTENDS CausalGraph

CONSTANTS
    Events,         \* the events a client may emit
    Needs,          \* Needs[id]: the ids without which the reducer throws
    Subscribers,    \* the subscriber callbacks
    NoState,        \* "no state seen yet"
    MaxDepth        \* bound on the frames of the call stack

\* parents is parentEventId followed by parentEventIds, in addEdge's order;
\* causes is the causality list.  A defect is what makes emit throw by itself,
\* no id or type ("structure") or contents JSON.stringify throws on ("hash"), or
\* what append keeps unseen, a hash of the caller's own ("mismatch").
EventRecords ==
    [id : Ids, parents : Seq(Ids), causes : SUBSET Ids,
     defect : {"none", "structure", "hash", "mismatch"}]

States == Seq(Ids)

ASSUME EventsAssumption == Events \subseteq EventRecords
ASSUME NeedsAssumption == Needs \in [Ids -> SUBSET Ids]
ASSUME NoStateAssumption == NoState \notin States

VARIABLES
    history,        \* the stored events, oldest first
    graph,          \* the causal graph's edges
    state,          \* currentState
    subs,           \* the subscriber Set in iteration (insertion) order
    seen,           \* seen[s]: the last state handed to s since it subscribed
    stack,          \* call stack, running frame first
    exported        \* the last export() the program kept

vars == <<history, graph, state, subs, seen, stack, exported>>

-----------------------------------------------------------------------------
(* The event store and the replay of its history.                          *)

Stored == {history[i].id : i \in DOMAIN history}

ParentIds(e) == {e.parents[i] : i \in DOMAIN e.parents} \cup e.causes

\* Faulty variant: the causality list is not checked.
ParentsExist(e) == {e.parents[i] : i \in DOMAIN e.parents} \subseteq Stored

ReferencesExist(e) == ParentIds(e) \subseteq Stored

ReducerThrows(s, e) == ~(Needs[e.id] \subseteq {s[i] : i \in DOMAIN s})

Reduce(s, e) == Append(s, e.id)

\* replay() runs the reducer over the history from the initial state until it
\* throws.
ReplayTurn(acc, e) ==
    IF acc.threw \/ ReducerThrows(acc.state, e)
       THEN [threw |-> TRUE, state |-> acc.state]
       ELSE [threw |-> FALSE, state |-> Reduce(acc.state, e)]

RunReplay(h) ==
    LET run[i \in 0..Len(h)] ==
            IF i = 0 THEN [threw |-> FALSE, state |-> <<>>] ELSE ReplayTurn(run[i - 1], h[i])
    IN  run[Len(h)]

\* In closed form: with this reducer it throws iff some event needs an id that no
\* event before it has, and otherwise returns the ids in history's order.
ReplayThrows(h) ==
    \E i \in DOMAIN h : ~(Needs[h[i].id] \subseteq {h[k].id : k \in 1..(i - 1)})

Replay(h) == [i \in DOMAIN h |-> h[i].id]

Verify == ~ReplayThrows(history) /\ Replay(history) = state

-----------------------------------------------------------------------------
(* Frames of the call stack.  A handler is client code, the main program   *)
(* or a subscriber; notify is a notifySubscribers loop with the            *)
(* subscribers it has yet to visit; import is an import loop with the      *)
(* events it has yet to emit and the state it must end in.  run is for the *)
(* properties only: an import is spoiled if the reducer rejects its events *)
(* or once a callback has called the engine under it.                      *)

Frames ==
    [kind : {"handler", "notify", "import"}, subs : Seq(Subscribers),
     events : Seq(Events), expected : States, run : {"clean", "spoiled"}]

Frame(kind, todo, events, expected) ==
    [kind |-> kind, subs |-> todo, events |-> events, expected |-> expected,
     run |-> IF ReplayThrows(events) THEN "spoiled" ELSE "clean"]

HandlerFrame == Frame("handler", <<>>, <<>>, <<>>)
NotifyFrame(todo) == Frame("notify", todo, <<>>, <<>>)
ImportFrame(h, s) == Frame("import", <<>>, h, s)

Running(kind) == stack[1].kind = kind

MayCall(frames) == Running("handler") /\ Len(stack) + frames <= MaxDepth

\* The frames under an emit, a reset or an import called from a handler.
Spoil(frames) ==
    [i \in DOMAIN frames |->
        IF frames[i].kind = "import" THEN [frames[i] EXCEPT !.run = "spoiled"]
                                     ELSE frames[i]]

Init ==
    /\ history = <<>>
    /\ graph = {}
    /\ state = <<>>
    /\ subs = <<>>
    /\ seen = [s \in Subscribers |-> NoState]
    /\ stack = <<HandlerFrame>>
    /\ exported = [state |-> <<>>, history |-> <<>>]

-----------------------------------------------------------------------------
(* emit, cut at its exits.  caller is the stack the call returns to and    *)
(* unwound the stack an exception leaves.                                  *)

\* validateStructure or validateCausalReferences throws: nothing has changed.
EmitRejected(e, unwound) ==
    /\ e.defect = "structure" \/ ~ReferencesExist(e)
    /\ stack' = unwound
    /\ UNCHANGED <<history, graph, state>>

\* addEdge or eventStore.append throws: the edges added before it stay.
EmitNotAppended(e, unwound) ==
    /\ e.defect # "structure"
    /\ ReferencesExist(e)
    /\ \/ Refused(graph, e.parents, e.id) # {}
       \/ e.id \in Stored
       \/ e.defect = "hash"
    /\ graph' = AddEdges(graph, e.parents, e.id)
    /\ stack' = unwound
    /\ UNCHANGED <<history, state>>

\* Faulty variant: a stored id is appended again.
AppendsTwice(e) ==
    /\ e.defect \in {"none", "mismatch"}
    /\ ReferencesExist(e)
    /\ Refused(graph, e.parents, e.id) = {}
    /\ graph' = AddEdges(graph, e.parents, e.id)
    /\ history' = Append(history, e)

EmitAppends(e) ==
    /\ e.defect \in {"none", "mismatch"}
    /\ ReferencesExist(e)
    /\ Refused(graph, e.parents, e.id) = {}
    /\ e.id \notin Stored
    /\ graph' = AddEdges(graph, e.parents, e.id)
    /\ history' = Append(history, e)

\* The reducer throws after the append: stored, never applied.
EmitNotReduced(e, unwound) ==
    /\ EmitAppends(e)
    /\ ReducerThrows(state, e)
    /\ stack' = unwound
    /\ UNCHANGED state

\* Faulty variant: a guard against re-entrancy drops the nested notification.
EmitReducedOnce(e, caller) ==
    /\ EmitAppends(e)
    /\ ~ReducerThrows(state, e)
    /\ state' = Reduce(state, e)
    /\ stack' = IF \E i \in DOMAIN caller : caller[i].kind = "notify"
                   THEN caller
                   ELSE <<NotifyFrame(subs)>> \o caller

EmitReduced(e, caller) ==
    /\ EmitAppends(e)
    /\ ~ReducerThrows(state, e)
    /\ state' = Reduce(state, e)
    /\ stack' = <<NotifyFrame(subs)>> \o caller

EmitOutcome(e, caller, unwound) ==
    /\ \/ EmitRejected(e, unwound)
       \/ EmitNotAppended(e, unwound)
       \/ EmitNotReduced(e, unwound)
       \/ EmitReduced(e, caller)
    /\ UNCHANGED <<subs, seen, exported>>

\* A handler catches what its call throws, or ends by it, which is Return.
Emit(e) ==
    /\ MayCall(2)
    /\ EmitOutcome(e, Spoil(stack), Spoil(stack))

\* Faulty variants: a field reset forgets.
ClearAllButGraph == state' = <<>> /\ history' = <<>> /\ UNCHANGED graph
ClearAllButState == UNCHANGED state /\ history' = <<>> /\ graph' = {}

ClearAll ==
    /\ state' = <<>>
    /\ history' = <<>>
    /\ graph' = {}

Reset ==
    /\ MayCall(2)
    /\ ClearAll
    /\ stack' = <<NotifyFrame(subs)>> \o Spoil(stack)
    /\ UNCHANGED <<subs, seen, exported>>

Export ==
    /\ Running("handler")
    /\ exported' = [state |-> state, history |-> history]
    /\ UNCHANGED <<history, graph, state, subs, seen, stack>>

\* import begins with reset, whose notification runs before the first emit.
Import ==
    /\ MayCall(3)
    /\ ClearAll
    /\ stack' = <<NotifyFrame(subs), ImportFrame(exported.history, exported.state)>>
                    \o Spoil(stack)
    /\ UNCHANGED <<subs, seen, exported>>

\* One turn of import's loop.  An exception ends the import as well.
ImportEmit ==
    /\ Running("import")
    /\ stack[1].events # <<>>
    /\ EmitOutcome(Head(stack[1].events),
                   <<[stack[1] EXCEPT !.events = Tail(@)]>> \o Tail(stack),
                   Tail(stack))

\* The loop is done: import returns, or throws on a different state.
ImportEnd ==
    /\ Running("import")
    /\ stack[1].events = <<>>
    /\ stack' = Tail(stack)
    /\ UNCHANGED <<history, graph, state, subs, seen, exported>>

-----------------------------------------------------------------------------
(* Subscribers.  A loop over a Set visits members added while it runs and  *)
(* skips members removed before their turn.                                *)

Without(q, s) ==
    IF \E i \in DOMAIN q : q[i] = s
       THEN LET k == CHOOSE i \in DOMAIN q : q[i] = s
            IN  SubSeq(q, 1, k - 1) \o SubSeq(q, k + 1, Len(q))
       ELSE q

LoopsVisit(s) ==
    [i \in DOMAIN stack |-> IF stack[i].kind = "notify"
                               THEN [stack[i] EXCEPT !.subs = Append(@, s)]
                               ELSE stack[i]]

LoopsSkip(s) ==
    [i \in DOMAIN stack |-> [stack[i] EXCEPT !.subs = Without(@, s)]]

Subscribed == {subs[i] : i \in DOMAIN subs}

Subscribe(s) ==
    /\ Running("handler")
    /\ s \notin Subscribed
    /\ subs' = Append(subs, s)
    /\ stack' = LoopsVisit(s)
    /\ UNCHANGED <<history, graph, state, seen, exported>>

Unsubscribe(s) ==
    /\ Running("handler")
    /\ s \in Subscribed
    /\ subs' = Without(subs, s)
    /\ stack' = LoopsSkip(s)
    /\ seen' = [seen EXCEPT ![s] = NoState]
    /\ UNCHANGED <<history, graph, state, exported>>

\* subscriber(this.currentState): the state now, not when the loop began.
Deliver ==
    /\ Running("notify")
    /\ stack[1].subs # <<>>
    /\ seen' = [seen EXCEPT ![Head(stack[1].subs)] = state]
    /\ stack' = <<HandlerFrame, [stack[1] EXCEPT !.subs = Tail(@)]>> \o Tail(stack)
    /\ UNCHANGED <<history, graph, state, subs, exported>>

\* A callback ends (its exception is logged, not passed on) or a loop does.
Return ==
    /\ Len(stack) > 1
    /\ Running("handler") \/ (Running("notify") /\ stack[1].subs = <<>>)
    /\ stack' = Tail(stack)
    /\ UNCHANGED <<history, graph, state, subs, seen, exported>>

-----------------------------------------------------------------------------
Next ==
    \/ \E e \in Events : Emit(e)
    \/ Reset
    \/ Export
    \/ Import
    \/ ImportEmit
    \/ ImportEnd
    \/ \E s \in Subscribers : Subscribe(s) \/ Unsubscribe(s)
    \/ Deliver
    \/ Return

Spec == Init /\ [][Next]_vars

-----------------------------------------------------------------------------
(* Properties.                                                             *)

\* Every variable has its type; the stack is never empty.
TypeOK ==
    /\ history \in Seq(Events)
    /\ graph \in SUBSET Edges
    /\ state \in States
    /\ subs \in Seq(Subscribers)
    /\ seen \in [Subscribers -> States \cup {NoState}]
    /\ stack \in Seq(Frames)
    /\ stack # <<>>
    /\ exported \in [state : States, history : Seq(Events)]

\* addEdge's check, made one call at a time while failed emits leave edges
\* behind and callbacks emit and reset: no two events ever reach each other.
NoMutualAncestors ==
    \A a, b \in Ids : ~(IsAncestorOf(graph, a, b) /\ IsAncestorOf(graph, b, a))

\* validateCausalReferences: whatever an event refers to was stored before it.
ReferencesPrecede ==
    \A i \in DOMAIN history :
        ParentIds(history[i]) \subseteq {history[k].id : k \in 1..(i - 1)}

\* The graph and the store agree: a stored event has an edge from each of its
\* parents, and an edge, even one a failed emit left, starts at a stored event.
GraphMatchesStore ==
    /\ \A i \in DOMAIN history : \A k \in DOMAIN history[i].parents :
           <<history[i].parents[k], history[i].id>> \in graph
    /\ \A edge \in graph : edge[1] \in Stored

\* replay() and the running state: however emits, failures, resets and imports
\* nest, a replay that does not throw returns currentState.
ReplayAgrees == ReplayThrows(history) \/ Replay(history) = state

\* When the outermost call has returned, every subscriber that has been called
\* since it subscribed was last called with the current state, re-entrant emits
\* included: no outer loop hands an older state over after a nested one.
ObserversCurrent ==
    Len(stack) = 1 =>
        \A s \in Subscribed : seen[s] \in {NoState, state}

\* import(export()) restores the export.  Only a callback that changed the
\* engine under it, or an export whose history the reducer rejects, can make
\* an import end in an exception, which leaves the engine emptied.
ImportRoundTrip ==
    [][ (/\ Running("import")
         /\ stack[1].run = "clean"
         /\ Len(stack') < Len(stack))
        => /\ stack[1].events = <<>>
           /\ state = stack[1].expected ]_vars

\* The store implements CausalLog, which knows nothing of the rest.
Log == INSTANCE CausalLog WITH log <- history

LogSpec == Log!Spec

=============================================================================
