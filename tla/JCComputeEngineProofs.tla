----------------------- MODULE JCComputeEngineProofs -----------------------
(***************************************************************************)
(* Theorems about the engine and what is read of it, for any set of ids,   *)
(* any events a client may emit, any reducer preconditions, any            *)
(* subscribers and any call depth.                                         *)
(***************************************************************************)
EXTENDS EngineQueries, FiniteSetTheorems, SequenceTheorems, WellFoundedInduction, TLAPS

-----------------------------------------------------------------------------
(* Why addEdge's check keeps any two different ids from reaching each      *)
(* other.  The argument goes through the set of ids reachable from one id. *)

\* The ids reachable from a, itself included.
Reach(E, a) == {y \in Ids : \A S \in SUBSET Ids : (a \in S /\ Closed(E, S)) => y \in S}

LEMMA AncestorIsReach ==
    ASSUME NEW E, NEW a \in Ids, NEW b \in Ids
    PROVE  IsAncestorOf(E, a, b) <=> (a # b /\ b \in Reach(E, a))
BY DEF IsAncestorOf, Reach

\* Reach(E, a) is closed, and the least closed set that holds a.
LEMMA ReachIsLeast ==
    ASSUME NEW E \in SUBSET Edges, NEW a \in Ids
    PROVE  /\ Reach(E, a) \in SUBSET Ids
           /\ a \in Reach(E, a)
           /\ Closed(E, Reach(E, a))
           /\ \A S \in SUBSET Ids : (a \in S /\ Closed(E, S)) => Reach(E, a) \subseteq S
<1>1. Closed(E, Reach(E, a))
  <2> SUFFICES ASSUME NEW edge \in E, edge[1] \in Reach(E, a)
               PROVE  edge[2] \in Reach(E, a)
      BY DEF Closed
  <2>1. edge[2] \in Ids
      BY DEF Edges
  <2>2. ASSUME NEW S \in SUBSET Ids, a \in S, Closed(E, S)
        PROVE  edge[2] \in S
      BY <2>2 DEF Reach, Closed
  <2> QED  BY <2>1, <2>2 DEF Reach
<1> QED  BY <1>1 DEF Reach

LEMMA ReachIsTransitive ==
    ASSUME NEW E \in SUBSET Edges, NEW a \in Ids, NEW b \in Reach(E, a)
    PROVE  Reach(E, b) \subseteq Reach(E, a)
<1>1. b \in Ids
    BY DEF Reach
<1> QED  BY <1>1, ReachIsLeast

\* Edges from P into c: what a reaches now it reached before, or c reached it
\* before and a reached some member of P.
LEMMA ReachAfterEdges ==
    ASSUME NEW E \in SUBSET Edges, NEW P \in SUBSET Ids, NEW c \in Ids,
           NEW a \in Ids, NEW b \in Reach(E \cup {<<p, c>> : p \in P}, a),
           b \notin Reach(E, a)
    PROVE  b \in Reach(E, c) /\ \E p \in P : p \in Reach(E, a)
<1> DEFINE F == E \cup {<<p, c>> : p \in P}
<1>0. F \in SUBSET Edges
    BY DEF Edges
<1>1. CASE \E p \in P : p \in Reach(E, a)
  <2> DEFINE S == Reach(E, a) \cup Reach(E, c)
  <2>1. S \in SUBSET Ids /\ a \in S
      BY ReachIsLeast
  <2>2. Closed(F, S)
    <3>1. Closed(E, S)
        BY ReachIsLeast DEF Closed
    <3>2. \A p \in P : <<p, c>>[2] \in S
        BY ReachIsLeast
    <3> QED  BY <3>1, <3>2 DEF Closed
  <2>3. b \in S
      BY <1>0, <2>1, <2>2, ReachIsLeast
  <2> QED  BY <1>1, <2>3
<1>2. CASE ~\E p \in P : p \in Reach(E, a)
  <2>1. Closed(F, Reach(E, a))
    <3>1. Closed(E, Reach(E, a))
        BY ReachIsLeast
    <3>2. \A p \in P : <<p, c>>[1] \notin Reach(E, a)
        BY <1>2
    <3> QED  BY <3>1, <3>2 DEF Closed
  <2> QED  BY <1>0, <2>1, ReachIsLeast
<1> QED  BY <1>1, <1>2

NoMutual(E) == \A a, b \in Ids : ~(IsAncestorOf(E, a, b) /\ IsAncestorOf(E, b, a))

\* The step the invariant rests on: edges into c from ids that c does not
\* reach, c itself excepted, close no cycle through two ids.
LEMMA EdgesKeepNoMutual ==
    ASSUME NEW E \in SUBSET Edges, NEW P \in SUBSET Ids, NEW c \in Ids,
           NoMutual(E),
           \A p \in P : ~IsAncestorOf(E, c, p)
    PROVE  NoMutual(E \cup {<<p, c>> : p \in P})
<1> DEFINE F == E \cup {<<p, c>> : p \in P}
<1>0. F \in SUBSET Edges
    BY DEF Edges
<1>1. \A p \in P : p = c \/ p \notin Reach(E, c)
    BY AncestorIsReach
<1>2. ASSUME NEW a \in Ids, NEW b \in Ids, a # b,
             b \in Reach(F, a), a \in Reach(F, b), b \notin Reach(E, a)
      PROVE  FALSE
  <2>1. PICK p \in P : p \in Reach(E, a)
      BY <1>2, ReachAfterEdges
  <2>2. b \in Reach(E, c)
      BY <1>2, ReachAfterEdges
  <2>3. a \in Reach(E, c)
    <3>1. CASE a \in Reach(E, b)
        BY <2>2, <3>1, ReachIsTransitive
    <3>2. CASE a \notin Reach(E, b)
        BY <1>2, <3>2, ReachAfterEdges
    <3> QED  BY <3>1, <3>2
  <2>4. p = c
      BY <1>1, <2>1, <2>3, ReachIsTransitive
  <2> QED  BY <1>2, <2>1, <2>2, <2>4, ReachIsTransitive
<1>3. ASSUME NEW a \in Ids, NEW b \in Ids, IsAncestorOf(F, a, b), IsAncestorOf(F, b, a)
      PROVE  FALSE
  <2>1. a # b /\ b \in Reach(F, a) /\ a \in Reach(F, b)
      BY <1>3, AncestorIsReach
  <2>2. b \in Reach(E, a) /\ a \in Reach(E, b)
      BY <1>2, <2>1
  <2>3. IsAncestorOf(E, a, b) /\ IsAncestorOf(E, b, a)
      BY <2>1, <2>2, AncestorIsReach
  <2> QED  BY <2>3 DEF NoMutual
<1> QED  BY <1>3 DEF NoMutual

\* The calls to addEdge of one emit, whether or not one of them throws.
LEMMA AddEdgesKeepsNoMutual ==
    ASSUME NEW E \in SUBSET Edges, NEW parents \in Seq(Ids), NEW c \in Ids,
           NoMutual(E)
    PROVE  /\ AddEdges(E, parents, c) \in SUBSET Edges
           /\ NoMutual(AddEdges(E, parents, c))
<1> DEFINE Added == {k \in DOMAIN parents : \A r \in Refused(E, parents, c) : k < r}
           P == {parents[i] : i \in Added}
<1>1. P \in SUBSET Ids
    OBVIOUS
<1>2. ASSUME NEW i \in Added
      PROVE  ~IsAncestorOf(E, c, parents[i])
  <2>1. i \notin Refused(E, parents, c)
    <3>1. i \in DOMAIN parents /\ i \in Int
        OBVIOUS
    <3>2. ~(i < i)
        BY <3>1
    <3> QED  BY <3>1, <3>2
  <2> QED  BY <2>1 DEF Refused, WouldCreateCycle
<1>3. AddEdges(E, parents, c) = E \cup {<<p, c>> : p \in P}
    BY DEF AddEdges
<1>4. \A p \in P : ~IsAncestorOf(E, c, p)
    BY <1>2
<1>5. NoMutual(E \cup {<<p, c>> : p \in P})
    BY <1>1, <1>4, EdgesKeepNoMutual
<1>6. E \cup {<<p, c>> : p \in P} \in SUBSET Edges
    BY <1>1 DEF Edges
<1> QED  BY <1>3, <1>5, <1>6

-----------------------------------------------------------------------------
(* Facts about frames and the helpers on sequences.                        *)

LEMMA FrameTypes ==
    /\ HandlerFrame \in Frames
    /\ \A todo \in Seq(Subscribers) : NotifyFrame(todo) \in Frames
    /\ \A h \in Seq(Events), s \in States : ImportFrame(h, s) \in Frames
<1>1. \A S : <<>> \in Seq(S)
    OBVIOUS
<1>2. ASSUME NEW kind \in {"handler", "notify", "import"}, NEW todo \in Seq(Subscribers),
             NEW h \in Seq(Events), NEW s \in States
      PROVE  Frame(kind, todo, h, s) \in Frames
    BY DEF Frame, Frames
<1> QED  BY <1>1, <1>2 DEF HandlerFrame, NotifyFrame, ImportFrame, States

LEMMA FrameUpdates ==
    ASSUME NEW f \in Frames
    PROVE  /\ f.subs \in Seq(Subscribers)
           /\ f.events \in Seq(Events)
           /\ \A q \in Seq(Subscribers) : [f EXCEPT !.subs = q] \in Frames
           /\ \A h \in Seq(Events) : [f EXCEPT !.events = h] \in Frames
BY DEF Frames

LEMMA SpoilType ==
    ASSUME NEW frames \in Seq(Frames)
    PROVE  Spoil(frames) \in Seq(Frames) /\ Len(Spoil(frames)) = Len(frames)
<1>1. ASSUME NEW f \in Frames
      PROVE  [f EXCEPT !.run = "spoiled"] \in Frames
    BY DEF Frames
<1>2. \A i \in 1..Len(frames) : Spoil(frames)[i] \in Frames
    BY <1>1 DEF Spoil
<1>3. DOMAIN Spoil(frames) = 1..Len(frames)
    BY DEF Spoil
<1>4. Spoil(frames) \in [1..Len(frames) -> Frames]
    BY <1>2, <1>3 DEF Spoil
<1>5. Spoil(frames) \in Seq(Frames)
    BY <1>4, SeqDef
<1> QED  BY <1>3, <1>5

\* What is left when the k-th member is taken out.
LEMMA RemovedIndices ==
    ASSUME NEW S, NEW q \in Seq(S), NEW k \in 1..Len(q)
    PROVE  LET r == SubSeq(q, 1, k - 1) \o SubSeq(q, k + 1, Len(q))
           IN  /\ r \in Seq(S) /\ Len(r) = Len(q) - 1 /\ DOMAIN r = 1..(Len(q) - 1)
               /\ \A i \in 1..(k - 1) : r[i] = q[i]
               /\ \A i \in k..(Len(q) - 1) : r[i] = q[i + 1]
<1> DEFINE front == SubSeq(q, 1, k - 1)
           back == SubSeq(q, k + 1, Len(q))
           r == front \o back
<1>1. /\ front \in Seq(S) /\ Len(front) = k - 1
      /\ \A i \in 1..(k - 1) : front[i] = q[i]
    OBVIOUS
<1>2. /\ back \in Seq(S) /\ Len(back) = Len(q) - k
      /\ \A i \in 1..(Len(q) - k) : back[i] = q[k + i]
    OBVIOUS
<1> HIDE DEF front, back
<1>3. /\ r \in Seq(S)
      /\ Len(r) = Len(q) - 1
      /\ \A i \in 1..(Len(q) - 1) :
             r[i] = IF i <= k - 1 THEN front[i] ELSE back[i - (k - 1)]
  <2>1. /\ r \in Seq(S)
        /\ Len(r) = Len(front) + Len(back)
        /\ \A i \in 1..(Len(front) + Len(back)) :
               r[i] = IF i <= Len(front) THEN front[i] ELSE back[i - Len(front)]
      BY <1>1, <1>2, ConcatProperties
  <2> HIDE DEF r
  <2>2. Len(front) + Len(back) = Len(q) - 1
      BY <1>1, <1>2
  <2> QED  BY <1>1, <2>1, <2>2
<1>4. \A i \in 1..(k - 1) : r[i] = q[i]
    BY <1>1, <1>2, <1>3
<1>5. ASSUME NEW i \in k..(Len(q) - 1)
      PROVE  r[i] = q[i + 1]
  <2>1. i \in 1..(Len(q) - 1) /\ ~(i <= k - 1) /\ i - (k - 1) \in 1..(Len(q) - k)
      OBVIOUS
  <2>2. back[i - (k - 1)] = q[k + (i - (k - 1))] /\ k + (i - (k - 1)) = i + 1
      BY <1>2, <2>1
  <2> QED  BY <1>3, <2>1, <2>2
<1>6. DOMAIN r = 1..(Len(q) - 1)
    BY <1>3
<1> HIDE DEF r
<1> QED  BY <1>3, <1>4, <1>5, <1>6 DEF r, front, back

\* Removing s keeps every other member.
LEMMA WithoutProperties ==
    ASSUME NEW S, NEW q \in Seq(S), NEW s
    PROVE  /\ Without(q, s) \in Seq(S)
           /\ \A i \in DOMAIN q : q[i] # s =>
                  \E k \in DOMAIN Without(q, s) : Without(q, s)[k] = q[i]
           /\ \A k \in DOMAIN Without(q, s) :
                  \E i \in DOMAIN q : Without(q, s)[k] = q[i]
<1>1. CASE ~\E i \in DOMAIN q : q[i] = s
    BY <1>1 DEF Without
<1>2. CASE \E i \in DOMAIN q : q[i] = s
  <2> DEFINE k == CHOOSE i \in DOMAIN q : q[i] = s
  <2>1. k \in 1..Len(q) /\ q[k] = s
      BY <1>2
  <2> HIDE DEF k
  <2> DEFINE r == SubSeq(q, 1, k - 1) \o SubSeq(q, k + 1, Len(q))
  <2>4. Without(q, s) = r
      BY <1>2 DEF Without, k
  <2>5. /\ r \in Seq(S) /\ Len(r) = Len(q) - 1
        /\ \A i \in 1..(k - 1) : r[i] = q[i]
        /\ \A i \in k..(Len(q) - 1) : r[i] = q[i + 1]
      BY <2>1, RemovedIndices
  <2> HIDE DEF r
  <2>8. ASSUME NEW i \in DOMAIN q, q[i] # s
        PROVE  \E j \in DOMAIN r : r[j] = q[i]
    <3>1. DOMAIN r = 1..(Len(q) - 1) /\ i \in 1..Len(q) /\ i # k
        BY <2>1, <2>5, <2>8
    <3>2. CASE i < k
        BY <2>1, <2>5, <3>1, <3>2
    <3>3. CASE i > k
      <4>1. i - 1 \in k..(Len(q) - 1) /\ i - 1 \in DOMAIN r
          BY <2>1, <3>1, <3>3
      <4>2. r[i - 1] = q[i]
          BY <2>5, <4>1, <3>1
      <4> QED  BY <4>1, <4>2
    <3> QED  BY <2>1, <3>1, <3>2, <3>3
  <2>9. ASSUME NEW j \in DOMAIN r
        PROVE  \E i \in DOMAIN q : r[j] = q[i]
    <3>1. j \in 1..(Len(q) - 1)
        BY <2>5
    <3>2. CASE j < k
        BY <2>1, <2>5, <3>1, <3>2
    <3>3. CASE j >= k
      <4>1. j \in k..(Len(q) - 1) /\ j + 1 \in DOMAIN q
          BY <2>1, <3>1, <3>3
      <4> QED  BY <2>5, <4>1
    <3> QED  BY <2>1, <3>1, <3>2, <3>3
  <2> QED  BY <2>4, <2>5, <2>8, <2>9 DEF r
<1> QED  BY <1>1, <1>2

-----------------------------------------------------------------------------
(* Type correctness.                                                       *)

\* Both emits, a client's and an import's, change the store in the same way.
LEMMA EmitTypeOK ==
    ASSUME TypeOK, NEW e \in Events,
           NEW caller \in Seq(Frames), NEW unwound \in Seq(Frames),
           unwound # <<>>, EmitOutcome(e, caller, unwound)
    PROVE  TypeOK'
<1>1. e \in EventRecords /\ e.parents \in Seq(Ids) /\ e.id \in Ids
    BY EventsAssumption DEF EventRecords
<1>2. AddEdges(graph, e.parents, e.id) \in SUBSET Edges
    BY <1>1 DEF TypeOK, AddEdges, Edges
<1>3. UNCHANGED <<subs, seen, exported>>
    BY DEF EmitOutcome
<1>4. history' \in Seq(Events) /\ graph' \in SUBSET Edges /\ state' \in States
  <2>1. CASE EmitRejected(e, unwound)
      BY <2>1 DEF EmitRejected, TypeOK
  <2>2. CASE EmitNotAppended(e, unwound)
      BY <1>2, <2>2 DEF EmitNotAppended, TypeOK
  <2>3. CASE EmitNotReduced(e, unwound)
      BY <1>2, <2>3, AppendProperties DEF EmitNotReduced, EmitAppends, TypeOK
  <2>4. CASE EmitReduced(e, caller)
      BY <1>1, <1>2, <2>4, AppendProperties DEF EmitReduced, EmitAppends, Reduce, TypeOK, States
  <2> QED  BY <2>1, <2>2, <2>3, <2>4 DEF EmitOutcome
<1>5. stack' \in Seq(Frames) /\ stack' # <<>>
  <2>1. CASE stack' = unwound
      BY <2>1
  <2>2. CASE stack' = <<NotifyFrame(subs)>> \o caller
    <3>1. <<NotifyFrame(subs)>> \in Seq(Frames)
        BY FrameTypes DEF TypeOK
    <3> QED  BY <2>2, <3>1
  <2> QED
      BY <2>1, <2>2 DEF EmitOutcome, EmitRejected, EmitNotAppended, EmitNotReduced, EmitReduced
<1> QED  BY <1>3, <1>4, <1>5 DEF TypeOK

\* The stacks that calls and returns leave.
LEMMA StackSteps ==
    ASSUME NEW st \in Seq(Frames), st # <<>>
    PROVE  /\ st[1] \in Frames
           /\ Tail(st) \in Seq(Frames)
           /\ Len(Tail(st)) = Len(st) - 1
           /\ Len(st) \in Nat \ {0}
           /\ Len(st) > 1 => Tail(st) # <<>>
           /\ \A f \in Frames : <<f>> \o st \in Seq(Frames) /\ <<f>> \o st # <<>>
           /\ \A f \in Frames : <<f>> \o Tail(st) \in Seq(Frames) /\ <<f>> \o Tail(st) # <<>>
<1>1. Tail(st) \in Seq(Frames) /\ Len(Tail(st)) = Len(st) - 1
    OBVIOUS
<1>0. Len(st) \in Nat \ {0}
    BY EmptySeq
<1>3. Len(st) > 1 => Tail(st) # <<>>
  <2> DEFINE n == Len(st)
             t == Tail(st)
  <2>1. Len(t) = n - 1 /\ n \in Nat
      BY <1>0, <1>1
  <2> HIDE DEF n, t
  <2>2. t = <<>> => Len(t) = 0
      BY EmptySeq
  <2>3. n > 1 => t # <<>>
      BY <2>1, <2>2
  <2> QED  BY <2>3 DEF n, t
<1>4. st[1] \in Frames
    BY <1>0, ElementOfSeq
<1>2. ASSUME NEW f \in Frames, NEW t \in Seq(Frames)
      PROVE  <<f>> \o t \in Seq(Frames) /\ <<f>> \o t # <<>>
  <2>1. <<f>> \in Seq(Frames) /\ Len(<<f>>) = 1
      OBVIOUS
  <2>2. Len(<<f>> \o t) = 1 + Len(t) /\ <<f>> \o t \in Seq(Frames)
      BY <2>1, ConcatProperties
  <2>3. Len(t) \in Nat
      OBVIOUS
  <2> QED  BY <2>2, <2>3, EmptySeq
<1> QED  BY <1>0, <1>1, <1>2, <1>3, <1>4

\* The bottom frame is client code: only a client's loop ever returns from
\* what it called, and the main program never returns.
MainAtBottom == stack[Len(stack)].kind = "handler"

StackOK == TypeOK /\ MainAtBottom

LEMMA InitStackOK == Init => StackOK
<1>1. Init => TypeOK
    BY FrameTypes DEF Init, TypeOK, States
<1>2. Init => MainAtBottom
    BY DEF Init, MainAtBottom, HandlerFrame, Frame
<1> QED  BY <1>1, <1>2 DEF StackOK

\* An import is never the bottom frame, so what is below it is a stack.
LEMMA BelowImport ==
    ASSUME StackOK, stack[1].kind # "handler"
    PROVE  Tail(stack) # <<>>
<1>0. stack \in Seq(Frames) /\ stack # <<>>
    BY DEF StackOK, TypeOK
<1>1. Len(stack) # 1
    BY DEF StackOK, MainAtBottom
<1>2. Len(stack) > 1
  <2>1. Len(stack) \in Nat \ {0}
      BY <1>0, StackSteps
  <2> QED  BY <1>1, <2>1
<1> QED  BY <1>2, StackSteps DEF StackOK, TypeOK

LEMMA NextTypeOK == StackOK /\ [Next]_vars => TypeOK'
<1> SUFFICES ASSUME StackOK, [Next]_vars PROVE TypeOK'
    OBVIOUS
<1>0. TypeOK
    BY DEF StackOK
<1>d. Spoil(stack) \in Seq(Frames) /\ Spoil(stack) # <<>>
    BY <1>0, SpoilType DEF TypeOK
<1>n. NotifyFrame(subs) \in Frames
    BY <1>0, FrameTypes DEF TypeOK
<1>1. ASSUME NEW e \in Events, Emit(e) PROVE TypeOK'
    BY <1>0, <1>1, <1>d, EmitTypeOK DEF Emit
<1>2. CASE Reset
    BY <1>0, <1>2, <1>d, <1>n, StackSteps DEF Reset, ClearAll, TypeOK, States
<1>3. CASE Export
    BY <1>0, <1>3 DEF Export, TypeOK
<1>4. CASE Import
  <2>1. ImportFrame(exported.history, exported.state) \in Frames
      BY <1>0, FrameTypes DEF TypeOK
  <2>2. <<NotifyFrame(subs), ImportFrame(exported.history, exported.state)>> \in Seq(Frames)
      BY <1>n, <2>1
  <2>3. stack' \in Seq(Frames) /\ stack' # <<>>
      BY <1>4, <1>d, <2>2, ConcatProperties, ConcatEqualIffEmpty DEF Import
  <2> QED  BY <1>0, <1>4, <2>3 DEF Import, ClearAll, TypeOK, States
<1>5. CASE ImportEmit
  <2>1. /\ stack[1] \in Frames /\ stack[1].events \in Seq(Events) /\ stack[1].events # <<>>
      BY <1>0, <1>5, StackSteps DEF ImportEmit, Frames, TypeOK
  <2>2. [stack[1] EXCEPT !.events = Tail(@)] \in Frames
      BY <2>1, FrameUpdates, HeadTailProperties
  <2>3. Tail(stack) # <<>> /\ Tail(stack) \in Seq(Frames)
      BY <1>0, <1>5, BelowImport, StackSteps DEF ImportEmit, Running, TypeOK
  <2>4. <<[stack[1] EXCEPT !.events = Tail(@)]>> \o Tail(stack) \in Seq(Frames)
      BY <1>0, <2>2, StackSteps DEF TypeOK
  <2> QED  BY <1>0, <1>5, <2>1, <2>3, <2>4, EmitTypeOK, HeadTailProperties DEF ImportEmit
<1>6. CASE ImportEnd
    BY <1>0, <1>6, BelowImport, StackSteps DEF ImportEnd, Running, TypeOK
<1>7. ASSUME NEW s \in Subscribers, Subscribe(s) PROVE TypeOK'
  <2>1. ASSUME NEW f \in Frames
        PROVE  [f EXCEPT !.subs = Append(@, s)] \in Frames
      BY FrameUpdates, AppendProperties
  <2>2. LoopsVisit(s) \in [1..Len(stack) -> Frames]
      BY <1>0, <2>1 DEF LoopsVisit, TypeOK
  <2>3. LoopsVisit(s) \in Seq(Frames) /\ LoopsVisit(s) # <<>>
      BY <1>0, <2>2, SeqDef DEF TypeOK
  <2> QED  BY <1>0, <1>7, <2>3, AppendProperties DEF Subscribe, TypeOK
<1>8. ASSUME NEW s \in Subscribers, Unsubscribe(s) PROVE TypeOK'
  <2>1. ASSUME NEW f \in Frames
        PROVE  [f EXCEPT !.subs = Without(@, s)] \in Frames
      BY FrameUpdates, WithoutProperties
  <2>2. LoopsSkip(s) \in [1..Len(stack) -> Frames]
      BY <1>0, <2>1 DEF LoopsSkip, TypeOK
  <2>3. LoopsSkip(s) \in Seq(Frames) /\ LoopsSkip(s) # <<>>
      BY <1>0, <2>2, SeqDef DEF TypeOK
  <2> QED  BY <1>0, <1>8, <2>3, WithoutProperties DEF Unsubscribe, TypeOK
<1>9. CASE Deliver
  <2>1. stack[1] \in Frames /\ stack[1].subs \in Seq(Subscribers) /\ stack[1].subs # <<>>
      BY <1>0, <1>9, StackSteps DEF Deliver, Frames, TypeOK
  <2>2. [stack[1] EXCEPT !.subs = Tail(@)] \in Frames
      BY <2>1, FrameUpdates, HeadTailProperties
  <2>3. <<HandlerFrame, [stack[1] EXCEPT !.subs = Tail(@)]>> \in Seq(Frames)
      BY <2>2, FrameTypes
  <2>4. stack' \in Seq(Frames) /\ stack' # <<>>
      BY <1>0, <1>9, <2>3, StackSteps, ConcatProperties, ConcatEqualIffEmpty DEF Deliver, TypeOK
  <2>5. seen' \in [Subscribers -> States \cup {NoState}]
      BY <1>0, <1>9 DEF Deliver, TypeOK
  <2> QED  BY <1>0, <1>9, <2>4, <2>5 DEF Deliver, TypeOK
<1>10. CASE Return
  <2>1. Tail(stack) # <<>>
      BY <1>0, <1>10, StackSteps DEF Return, TypeOK
  <2> QED  BY <1>0, <1>10, <2>1, StackSteps DEF Return, TypeOK
<1>11. CASE UNCHANGED vars
    BY <1>0, <1>11 DEF vars, TypeOK
<1> QED
    BY <1>1, <1>2, <1>3, <1>4, <1>5, <1>6, <1>7, <1>8, <1>9, <1>10, <1>11 DEF Next

LEMMA BottomFrames ==
    ASSUME NEW st \in Seq(Frames), st # <<>>
    PROVE  /\ \A top \in Seq(Frames) : (top \o st)[Len(top \o st)] = st[Len(st)]
           /\ Tail(st) # <<>> => Tail(st)[Len(Tail(st))] = st[Len(st)]
           /\ \A i \in DOMAIN st : Spoil(st)[i].kind = st[i].kind
<1>0. Len(st) \in Nat \ {0}
    BY StackSteps
<1>1. ASSUME NEW top \in Seq(Frames)
      PROVE  (top \o st)[Len(top \o st)] = st[Len(st)]
  <2>1. Len(top) \in Nat /\ Len(top \o st) = Len(top) + Len(st)
      BY ConcatProperties
  <2>2. (top \o st)[Len(top) + Len(st)] = st[(Len(top) + Len(st)) - Len(top)]
      BY <1>0, <2>1, ConcatProperties
  <2> QED  BY <1>0, <2>1, <2>2
<1>2. ASSUME Tail(st) # <<>>
      PROVE  Tail(st)[Len(Tail(st))] = st[Len(st)]
  <2>1. Len(Tail(st)) \in Nat \ {0} /\ Len(Tail(st)) = Len(st) - 1
      BY <1>2, StackSteps
  <2>2. Tail(st)[Len(Tail(st))] = st[Len(Tail(st)) + 1]
      BY <2>1, HeadTailProperties
  <2> QED  BY <1>0, <2>1, <2>2
<1>3. ASSUME NEW i \in DOMAIN st
      PROVE  Spoil(st)[i].kind = st[i].kind
  <2>1. st[i] \in Frames
      BY ElementOfSeq
  <2>2. [st[i] EXCEPT !.run = "spoiled"].kind = st[i].kind
      BY <2>1 DEF Frames
  <2> QED  BY <2>2 DEF Spoil
<1> QED  BY <1>1, <1>2, <1>3

LEMMA NextStackOK == StackOK /\ [Next]_vars => StackOK'
<1> SUFFICES ASSUME StackOK, [Next]_vars PROVE MainAtBottom'
    BY NextTypeOK DEF StackOK
<1>0. TypeOK /\ MainAtBottom /\ stack \in Seq(Frames) /\ stack # <<>>
    BY DEF StackOK, TypeOK
<1>l. Len(stack) \in Nat \ {0} /\ Len(stack) \in DOMAIN stack
    BY <1>0, StackSteps
<1>d. /\ Spoil(stack) \in Seq(Frames) /\ Spoil(stack) # <<>>
      /\ Spoil(stack)[Len(Spoil(stack))].kind = "handler"
    BY <1>0, <1>l, SpoilType, BottomFrames DEF MainAtBottom
<1>n. NotifyFrame(subs) \in Frames
    BY <1>0, FrameTypes DEF TypeOK
<1>o. ASSUME NEW st \in Seq(Frames), st # <<>>, st[Len(st)].kind = "handler",
             \/ stack' = st
             \/ \E top \in Seq(Frames) : stack' = top \o st
      PROVE  MainAtBottom'
    BY <1>o, BottomFrames DEF MainAtBottom
<1>e. ASSUME NEW e, NEW caller \in Seq(Frames), NEW unwound, EmitOutcome(e, caller, unwound)
      PROVE  stack' = unwound \/ \E top \in Seq(Frames) : stack' = top \o caller
  <2>1. <<NotifyFrame(subs)>> \in Seq(Frames)
      BY <1>n
  <2> QED
      BY <1>e, <2>1 DEF EmitOutcome, EmitRejected, EmitNotAppended, EmitNotReduced, EmitReduced
<1>1. ASSUME NEW e \in Events, Emit(e) PROVE MainAtBottom'
    BY <1>1, <1>d, <1>e, <1>o DEF Emit
<1>2. CASE Reset
  <2>1. <<NotifyFrame(subs)>> \in Seq(Frames)
      BY <1>n
  <2> QED  BY <1>2, <1>d, <1>o, <2>1 DEF Reset
<1>3. CASE Import
  <2>1. ImportFrame(exported.history, exported.state) \in Frames
      BY <1>0, FrameTypes DEF TypeOK
  <2>2. <<NotifyFrame(subs), ImportFrame(exported.history, exported.state)>> \in Seq(Frames)
      BY <1>n, <2>1
  <2> QED  BY <1>3, <1>d, <1>o, <2>2 DEF Import
<1>t. ASSUME Tail(stack) # <<>>
      PROVE  Tail(stack) \in Seq(Frames) /\ Tail(stack)[Len(Tail(stack))].kind = "handler"
    BY <1>0, <1>t, StackSteps, BottomFrames DEF MainAtBottom
<1>4. CASE ImportEmit
  <2>1. Tail(stack) # <<>>
      BY <1>4, BelowImport DEF ImportEmit, Running
  <2>2. [stack[1] EXCEPT !.events = Tail(@)] \in Frames
      BY <1>0, <1>4, FrameUpdates, HeadTailProperties, StackSteps DEF ImportEmit
  <2>3. <<[stack[1] EXCEPT !.events = Tail(@)]>> \in Seq(Frames)
      BY <2>2
  <2> DEFINE caller == <<[stack[1] EXCEPT !.events = Tail(@)]>> \o Tail(stack)
  <2>4. caller \in Seq(Frames) /\ caller # <<>> /\ caller[Len(caller)].kind = "handler"
      BY <1>0, <1>t, <2>1, <2>2, <2>3, StackSteps, BottomFrames
  <2>5. stack' = Tail(stack) \/ \E top \in Seq(Frames) : stack' = top \o caller
      BY <1>4, <1>e, <2>4 DEF ImportEmit
  <2> QED  BY <1>o, <1>t, <2>1, <2>4, <2>5
<1>5. CASE ImportEnd
    BY <1>5, <1>o, <1>t, BelowImport DEF ImportEnd, Running
<1>6. ASSUME NEW s \in Subscribers, Subscribe(s) PROVE MainAtBottom'
  <2>1. stack' = LoopsVisit(s) /\ DOMAIN stack' = DOMAIN stack
      BY <1>6 DEF Subscribe, LoopsVisit
  <2>2. Len(stack') = Len(stack)
      BY <1>0, <1>6, <2>1, NextTypeOK DEF StackOK, TypeOK
  <2>3. stack'[Len(stack)] = stack[Len(stack)]
      BY <1>0, <1>l, <2>1 DEF LoopsVisit, MainAtBottom
  <2> QED  BY <1>0, <2>2, <2>3 DEF MainAtBottom
<1>7. ASSUME NEW s \in Subscribers, Unsubscribe(s) PROVE MainAtBottom'
  <2>1. stack' = LoopsSkip(s) /\ DOMAIN stack' = DOMAIN stack
      BY <1>7 DEF Unsubscribe, LoopsSkip
  <2>2. Len(stack') = Len(stack)
      BY <1>0, <1>7, <2>1, NextTypeOK DEF StackOK, TypeOK
  <2>3. stack[Len(stack)] \in Frames
      BY <1>0, <1>l, ElementOfSeq
  <2>4. stack'[Len(stack)].kind = stack[Len(stack)].kind
      BY <1>l, <2>1, <2>3 DEF LoopsSkip, Frames
  <2> QED  BY <1>0, <2>2, <2>4 DEF MainAtBottom
<1>8. CASE Deliver
  <2>1. stack[1] \in Frames /\ stack[1].subs \in Seq(Subscribers) /\ stack[1].subs # <<>>
      BY <1>0, <1>8, StackSteps, FrameUpdates DEF Deliver
  <2>2. [stack[1] EXCEPT !.subs = Tail(@)] \in Frames
      BY <2>1, FrameUpdates, HeadTailProperties
  <2>3. <<HandlerFrame, [stack[1] EXCEPT !.subs = Tail(@)]>> \in Seq(Frames)
      BY <2>2, FrameTypes
  <2>4. Tail(stack) # <<>>
      BY <1>8, BelowImport DEF Deliver, Running
  <2> QED  BY <1>8, <1>o, <1>t, <2>3, <2>4 DEF Deliver
<1>9. CASE Return
  <2>1. Tail(stack) # <<>>
      BY <1>0, <1>9, StackSteps DEF Return
  <2> QED  BY <1>9, <1>o, <1>t, <2>1 DEF Return
<1>10. CASE UNCHANGED vars \/ Export
    BY <1>0, <1>10 DEF vars, Export, MainAtBottom
<1> QED
    BY <1>1, <1>2, <1>3, <1>4, <1>5, <1>6, <1>7, <1>8, <1>9, <1>10 DEF Next

\* The engine's variables keep their types through any nesting of calls.
THEOREM TypeCorrect == Spec => []TypeOK
<1>1. Init => StackOK
    BY InitStackOK
<1>2. StackOK /\ [Next]_vars => StackOK'
    BY NextStackOK
<1>3. StackOK => TypeOK
    BY DEF StackOK
<1> QED  BY <1>1, <1>2, <1>3, PTL DEF Spec

-----------------------------------------------------------------------------
(* The store, the graph and the state.  Whatever the call stack does, one  *)
(* step of the engine does one of these things to them.                    *)

EmitStep(e) ==
    /\ ReferencesExist(e)
    /\ graph' = AddEdges(graph, e.parents, e.id)
    /\ \/ UNCHANGED <<history, state>>
       \/ /\ EmitAppends(e)
          /\ \/ ReducerThrows(state, e) /\ UNCHANGED state
             \/ ~ReducerThrows(state, e) /\ state' = Reduce(state, e)

StoreStep ==
    \/ UNCHANGED <<history, graph, state>>
    \/ ClearAll
    \/ \E e \in Events : EmitStep(e)

LEMMA NextIsStoreStep == StackOK /\ [Next]_vars => StoreStep
<1> SUFFICES ASSUME StackOK, [Next]_vars PROVE StoreStep
    OBVIOUS
<1>0. TypeOK
    BY DEF StackOK
<1>e. ASSUME NEW e \in Events, NEW caller, NEW unwound, EmitOutcome(e, caller, unwound)
      PROVE  StoreStep
    BY <1>e DEF EmitOutcome, EmitRejected, EmitNotAppended, EmitNotReduced, EmitReduced,
                EmitAppends, StoreStep, EmitStep
<1>1. ASSUME NEW e \in Events, Emit(e) PROVE StoreStep
    BY <1>1, <1>e DEF Emit
<1>2. CASE Reset \/ Import
    BY <1>2 DEF Reset, Import, StoreStep
<1>3. CASE ImportEmit
  <2>1. Head(stack[1].events) \in Events
      BY <1>0, <1>3, StackSteps, FrameUpdates, HeadTailProperties DEF ImportEmit, TypeOK
  <2> QED  BY <1>3, <1>e, <2>1 DEF ImportEmit
<1>4. CASE Export \/ ImportEnd \/ Deliver \/ Return \/ UNCHANGED vars
    BY <1>4 DEF Export, ImportEnd, Deliver, Return, vars, StoreStep
<1>5. ASSUME NEW s \in Subscribers, Subscribe(s) \/ Unsubscribe(s) PROVE StoreStep
    BY <1>5 DEF Subscribe, Unsubscribe, StoreStep
<1> QED  BY <1>1, <1>2, <1>3, <1>4, <1>5 DEF Next

LEMMA EventTypes ==
    ASSUME NEW e \in Events
    PROVE  e.id \in Ids /\ e.parents \in Seq(Ids) /\ e.causes \in SUBSET Ids
BY EventsAssumption DEF EventRecords

LEMMA AppendedHistory ==
    ASSUME NEW h \in Seq(Events), NEW e \in Events
    PROVE  /\ Append(h, e) \in Seq(Events)
           /\ Len(Append(h, e)) = Len(h) + 1
           /\ Len(h) \in Nat
           /\ \A i \in 1..Len(h) : Append(h, e)[i] = h[i]
           /\ Append(h, e)[Len(h) + 1] = e
           /\ \A i \in DOMAIN Append(h, e) : i \in DOMAIN h \/ i = Len(h) + 1
           /\ DOMAIN h = 1..Len(h)
BY AppendProperties

\* No two different ids reach each other, through failed emits, re-entrant
\* emits, resets and imports.
THEOREM NoMutualAncestorsHolds == Spec => []NoMutualAncestors
<1>1. NoMutualAncestors <=> NoMutual(graph)
    BY DEF NoMutualAncestors, NoMutual
<1>2. NoMutualAncestors' <=> NoMutual(graph')
    BY DEF NoMutualAncestors, NoMutual
<1>3. NoMutual({})
  <2>1. \A a, b \in Ids : ~IsAncestorOf({}, a, b)
    <3> SUFFICES ASSUME NEW a \in Ids, NEW b \in Ids, a # b,
                        \A S \in SUBSET Ids : (a \in S /\ Closed({}, S)) => b \in S
                 PROVE  FALSE
        BY DEF IsAncestorOf
    <3>1. {a} \in SUBSET Ids /\ Closed({}, {a})
        BY DEF Closed
    <3> QED  BY <3>1
  <2> QED  BY <2>1 DEF NoMutual
<1>4. Init => StackOK /\ NoMutualAncestors
    BY <1>1, <1>3, InitStackOK DEF Init
<1>5. StackOK /\ NoMutualAncestors /\ [Next]_vars => (StackOK /\ NoMutualAncestors)'
  <2> SUFFICES ASSUME StackOK, NoMutual(graph), [Next]_vars PROVE NoMutual(graph')
      BY <1>1, <1>2, NextStackOK
  <2>1. StoreStep /\ graph \in SUBSET Edges
      BY NextIsStoreStep DEF StackOK, TypeOK
  <2>2. CASE UNCHANGED graph
      BY <2>2
  <2>3. CASE ClearAll
      BY <1>3, <2>3 DEF ClearAll
  <2>4. ASSUME NEW e \in Events, EmitStep(e) PROVE NoMutual(graph')
      BY <2>1, <2>4, EventTypes, AddEdgesKeepsNoMutual DEF EmitStep
  <2> QED  BY <2>1, <2>2, <2>3, <2>4 DEF StoreStep
<1> QED  BY <1>4, <1>5, PTL DEF Spec

\* Every event follows all it refers to.
THEOREM ReferencesPrecedeHolds == Spec => []ReferencesPrecede
<1>1. Init => StackOK /\ ReferencesPrecede
    BY InitStackOK DEF Init, ReferencesPrecede
<1>2. StackOK /\ ReferencesPrecede /\ [Next]_vars => (StackOK /\ ReferencesPrecede)'
  <2> SUFFICES ASSUME StackOK, ReferencesPrecede, [Next]_vars PROVE ReferencesPrecede'
      BY NextStackOK
  <2>1. StoreStep /\ history \in Seq(Events)
      BY NextIsStoreStep DEF StackOK, TypeOK
  <2>2. CASE UNCHANGED history
      BY <2>2 DEF ReferencesPrecede
  <2>3. CASE ClearAll
      BY <2>3 DEF ClearAll, ReferencesPrecede
  <2>4. ASSUME NEW e \in Events, ReferencesExist(e), history' = Append(history, e)
        PROVE  ReferencesPrecede'
    <3>1. ASSUME NEW i \in DOMAIN history'
          PROVE  ParentIds(history'[i]) \subseteq {history'[k].id : k \in 1..(i - 1)}
      <4>1. CASE i \in DOMAIN history
        <5>1. \A k \in 1..(i - 1) : history'[k] = history[k]
            BY <2>1, <2>4, <4>1, AppendedHistory
        <5>2. history'[i] = history[i]
            BY <2>1, <2>4, <4>1, AppendedHistory
        <5> QED  BY <4>1, <5>1, <5>2 DEF ReferencesPrecede
      <4>2. CASE i = Len(history) + 1
        <5>1. history'[i] = e /\ 1..(i - 1) = DOMAIN history
            BY <2>1, <2>4, <4>2, AppendedHistory
        <5>2. \A k \in 1..(i - 1) : history'[k] = history[k]
            BY <2>1, <2>4, <4>2, AppendedHistory
        <5> QED  BY <2>4, <5>1, <5>2 DEF ReferencesExist, Stored
      <4> QED  BY <2>1, <2>4, <4>1, <4>2, AppendedHistory
    <3> QED  BY <3>1 DEF ReferencesPrecede
  <2> QED  BY <2>1, <2>2, <2>3, <2>4 DEF StoreStep, EmitStep, EmitAppends
<1> QED  BY <1>1, <1>2, PTL DEF Spec

\* The graph has every stored event's edges and no edge from an unknown id.
THEOREM GraphMatchesStoreHolds == Spec => []GraphMatchesStore
<1>1. Init => StackOK /\ GraphMatchesStore
    BY InitStackOK DEF Init, GraphMatchesStore
<1>2. StackOK /\ GraphMatchesStore /\ [Next]_vars => (StackOK /\ GraphMatchesStore)'
  <2> SUFFICES ASSUME StackOK, GraphMatchesStore, [Next]_vars PROVE GraphMatchesStore'
      BY NextStackOK
  <2>1. StoreStep /\ history \in Seq(Events)
      BY NextIsStoreStep DEF StackOK, TypeOK
  <2>2. CASE UNCHANGED <<history, graph>>
      BY <2>2 DEF GraphMatchesStore, Stored
  <2>3. CASE ClearAll
      BY <2>3 DEF ClearAll, GraphMatchesStore, Stored
  <2>4. ASSUME NEW e \in Events, EmitStep(e)
        PROVE  GraphMatchesStore'
    <3>1. \A i \in DOMAIN e.parents : e.parents[i] \in Stored
        BY <2>4 DEF EmitStep, ReferencesExist, ParentIds
    <3>2. \A edge \in graph' : edge[1] \in Stored
        BY <2>4, <3>1 DEF EmitStep, AddEdges, GraphMatchesStore
    <3>3. graph \subseteq graph'
        BY <2>4 DEF EmitStep, AddEdges
    <3>4. CASE UNCHANGED history
        BY <3>2, <3>3, <3>4 DEF GraphMatchesStore, Stored
    <3>5. CASE EmitAppends(e)
      <4>1. history' = Append(history, e) /\ Refused(graph, e.parents, e.id) = {}
          BY <3>5 DEF EmitAppends
      <4>2. \A k \in DOMAIN e.parents : <<e.parents[k], e.id>> \in graph'
          BY <2>4, <4>1 DEF EmitStep, AddEdges
      <4>3. Stored \subseteq Stored'
        <5>1. ASSUME NEW i \in DOMAIN history
              PROVE  i \in DOMAIN history' /\ history'[i] = history[i]
            BY <2>1, <4>1, AppendedHistory
        <5> QED  BY <5>1 DEF Stored
      <4>4. ASSUME NEW i \in DOMAIN history', NEW k \in DOMAIN history'[i].parents
            PROVE  <<history'[i].parents[k], history'[i].id>> \in graph'
        <5>1. CASE i \in DOMAIN history
          <6>1. history'[i] = history[i]
              BY <2>1, <4>1, <5>1, AppendedHistory
          <6> QED  BY <3>3, <4>4, <5>1, <6>1 DEF GraphMatchesStore
        <5>2. CASE i = Len(history) + 1
          <6>1. history'[i] = e
              BY <2>1, <4>1, <5>2, AppendedHistory
          <6> QED  BY <4>2, <4>4, <6>1
        <5> QED  BY <2>1, <4>1, <5>1, <5>2, AppendedHistory
      <4> QED  BY <3>2, <4>3, <4>4 DEF GraphMatchesStore
    <3> QED  BY <2>4, <3>4, <3>5 DEF EmitStep
  <2> QED  BY <2>1, <2>2, <2>3, <2>4 DEF StoreStep
<1> QED  BY <1>1, <1>2, PTL DEF Spec

\* A replay over a longer history throws where the shorter one threw.
LEMMA ThrowsOnLonger ==
    ASSUME NEW h \in Seq(Events), NEW e \in Events
    PROVE  /\ ReplayThrows(h) => ReplayThrows(Append(h, e))
           /\ ~(Needs[e.id] \subseteq {h[k].id : k \in DOMAIN h}) => ReplayThrows(Append(h, e))
<1>1. ASSUME NEW i \in DOMAIN h, ~(Needs[h[i].id] \subseteq {h[k].id : k \in 1..(i - 1)})
      PROVE  ReplayThrows(Append(h, e))
  <2>1. i \in DOMAIN Append(h, e) /\ Append(h, e)[i] = h[i]
      BY AppendedHistory
  <2>2. \A k \in 1..(i - 1) : Append(h, e)[k] = h[k]
      BY AppendedHistory
  <2>3. {Append(h, e)[k].id : k \in 1..(i - 1)} = {h[k].id : k \in 1..(i - 1)}
      BY <2>2
  <2> QED  BY <1>1, <2>1, <2>3 DEF ReplayThrows
<1>2. ASSUME ~(Needs[e.id] \subseteq {h[k].id : k \in DOMAIN h})
      PROVE  ReplayThrows(Append(h, e))
  <2> DEFINE n == Len(h) + 1
  <2>1. n \in DOMAIN Append(h, e) /\ Append(h, e)[n] = e /\ 1..(n - 1) = DOMAIN h
      BY AppendedHistory
  <2>2. \A k \in 1..(n - 1) : Append(h, e)[k] = h[k]
      BY AppendedHistory
  <2>3. {Append(h, e)[k].id : k \in 1..(n - 1)} = {h[k].id : k \in DOMAIN h}
      BY <2>1, <2>2
  <2> QED  BY <1>2, <2>1, <2>3 DEF ReplayThrows
<1> QED  BY <1>1, <1>2 DEF ReplayThrows

\* The running state is what a replay returns, unless the replay throws.
THEOREM ReplayAgreesHolds == Spec => []ReplayAgrees
<1>1. Init => StackOK /\ ReplayAgrees
  <2>1. Init => Replay(history) = state
      BY DEF Init, Replay
  <2> QED  BY <2>1, InitStackOK DEF ReplayAgrees
<1>2. StackOK /\ ReplayAgrees /\ [Next]_vars => (StackOK /\ ReplayAgrees)'
  <2> SUFFICES ASSUME StackOK, ReplayAgrees, [Next]_vars PROVE ReplayAgrees'
      BY NextStackOK
  <2>1. StoreStep /\ history \in Seq(Events) /\ state \in Seq(Ids)
      BY NextIsStoreStep DEF StackOK, TypeOK, States
  <2>2. CASE UNCHANGED <<history, state>>
      BY <2>2 DEF ReplayAgrees
  <2>3. CASE ClearAll
      BY <2>3 DEF ClearAll, ReplayAgrees, Replay
  <2>4. ASSUME NEW e \in Events, history' = Append(history, e),
               \/ ReducerThrows(state, e) /\ UNCHANGED state
               \/ ~ReducerThrows(state, e) /\ state' = Reduce(state, e)
        PROVE  ReplayAgrees'
    <3>1. CASE ReplayThrows(history)
        BY <2>1, <2>4, <3>1, ThrowsOnLonger DEF ReplayAgrees
    <3>2. CASE Replay(history) = state
      <4>1. DOMAIN state = DOMAIN history /\ \A i \in DOMAIN history : state[i] = history[i].id
          BY <3>2 DEF Replay
      <4>2. CASE ReducerThrows(state, e)
        <5>1. ~(Needs[e.id] \subseteq {history[k].id : k \in DOMAIN history})
            BY <4>1, <4>2 DEF ReducerThrows
        <5> QED  BY <2>1, <2>4, <5>1, ThrowsOnLonger DEF ReplayAgrees
      <4>3. CASE state' = Append(state, e.id)
        <5>1. e.id \in Ids /\ Len(state) = Len(history)
            BY <2>1, <4>1, EventTypes
        <5>2. /\ Append(state, e.id) \in Seq(Ids)
              /\ DOMAIN Append(state, e.id) = 1..(Len(history) + 1)
            BY <2>1, <5>1, AppendProperties
        <5>3. DOMAIN history' = 1..(Len(history) + 1)
            BY <2>1, <2>4, AppendedHistory
        <5>4. \A i \in 1..(Len(history) + 1) : state'[i] = history'[i].id
          <6>1. ASSUME NEW i \in 1..Len(history)
                PROVE  state'[i] = history'[i].id
            <7>1. state'[i] = state[i]
                BY <2>1, <4>3, <5>1, AppendProperties
            <7>2. history'[i] = history[i] /\ i \in DOMAIN history
                BY <2>1, <2>4, AppendedHistory
            <7> QED  BY <4>1, <7>1, <7>2
          <6>2. state'[Len(history) + 1] = history'[Len(history) + 1].id
              BY <2>1, <2>4, <4>3, <5>1, AppendProperties, AppendedHistory
          <6> QED  BY <2>1, <6>1, <6>2, AppendedHistory
        <5>5. Replay(history)' = [i \in 1..(Len(history) + 1) |-> state'[i]]
            BY <5>3, <5>4 DEF Replay
        <5>6. state' = [i \in 1..(Len(history) + 1) |-> state'[i]]
            BY <4>3, <5>2
        <5> QED  BY <5>5, <5>6 DEF ReplayAgrees
      <4> QED  BY <2>4, <4>2, <4>3 DEF Reduce
    <3> QED  BY <3>1, <3>2 DEF ReplayAgrees
  <2> QED  BY <2>1, <2>2, <2>3, <2>4 DEF StoreStep, EmitStep, EmitAppends
<1> QED  BY <1>1, <1>2, PTL DEF Spec

\* Every step of the engine is a step of the abstract log, or leaves it alone.
THEOREM ImplementsLog == Spec => LogSpec
<1>1. Init => Log!Init
    BY DEF Init, Log!Init
<1>2. StackOK /\ [Next]_vars => [Log!Next]_history
  <2> SUFFICES ASSUME StackOK, [Next]_vars PROVE [Log!Next]_history
      OBVIOUS
  <2>1. StoreStep
      BY NextIsStoreStep
  <2>2. ASSUME NEW e \in Events, ReferencesExist(e), EmitAppends(e)
        PROVE  Log!Extend(e)
      BY <2>2 DEF ReferencesExist, ParentIds, Stored, EmitAppends,
                  Log!Extend, Log!References, Log!LoggedIds
  <2> QED  BY <2>1, <2>2 DEF StoreStep, ClearAll, EmitStep, Log!Next, Log!Clear
<1> QED  BY <1>1, <1>2, InitStackOK, NextStackOK, PTL DEF Spec, LogSpec, Log!Spec

-----------------------------------------------------------------------------
(* What subscribers see.  A subscriber that has not seen the current state  *)
(* is still to be visited by a loop under way: a change of the state starts *)
(* a loop over everyone, and a loop hands over the state of its own time.   *)

Distinct(q) == \A i, j \in DOMAIN q : q[i] = q[j] => i = j

LoopOK(f) ==
    /\ Distinct(f.subs)
    /\ Range(f.subs) \subseteq Subscribed
    /\ f.kind # "notify" => f.subs = <<>>

\* A loop under way is still to visit s.
Awaits(s) == \E f \in Range(stack) : s \in Range(f.subs)

ObserversInv ==
    /\ Distinct(subs)
    /\ \A f \in Range(stack) : LoopOK(f)
    /\ \A s \in Subscribers \ Subscribed : seen[s] = NoState
    /\ \A s \in Subscribed : seen[s] \in {NoState, state} \/ Awaits(s)

LEMMA EmptyDistinct == Distinct(<<>>) /\ Range(<<>>) = {}
BY DEF Distinct, Range

LEMMA SubscribedTyped == TypeOK => Subscribed = Range(subs) /\ Subscribed \subseteq Subscribers
<1> SUFFICES ASSUME TypeOK PROVE Subscribed = Range(subs) /\ Subscribed \subseteq Subscribers
  OBVIOUS
<1>1. Subscribed = Range(subs)
  BY DEF Subscribed, Range
<1>2. subs \in Seq(Subscribers)
  BY DEF TypeOK
<1>3. \A i \in DOMAIN subs : subs[i] \in Subscribers
  BY <1>2, ElementOfSeq
<1>. QED  BY <1>1, <1>3 DEF Range

LEMMA AppendDistinct ==
    ASSUME NEW S, NEW q \in Seq(S), NEW s \in S
    PROVE  /\ Range(Append(q, s)) = Range(q) \cup {s}
           /\ Distinct(q) /\ s \notin Range(q) => Distinct(Append(q, s))
<1> DEFINE n == Len(q)
           r == Append(q, s)
<1>1. /\ n \in Nat /\ DOMAIN q = 1..n /\ DOMAIN r = 1..(n + 1)
      /\ r[n + 1] = s /\ \A i \in 1..n : r[i] = q[i]
  OBVIOUS
<1> HIDE DEF n, r
<1>2. /\ \A i \in 1..(n + 1) : i = n + 1 \/ i \in 1..n
      /\ n + 1 \in 1..(n + 1) /\ \A i \in 1..n : i \in 1..(n + 1) /\ i # n + 1
  BY <1>1
<1>3. Range(r) = Range(q) \cup {s}
  <2>1. \A x : x \in Range(r) <=> \E i \in 1..(n + 1) : r[i] = x
    BY <1>1 DEF Range
  <2>2. \A x : x \in Range(q) <=> \E i \in 1..n : q[i] = x
    BY <1>1 DEF Range
  <2>. QED  BY <1>1, <1>2, <2>1, <2>2
<1>4. ASSUME Distinct(q), s \notin Range(q) PROVE Distinct(r)
  <2>1. \A i \in 1..n : q[i] # s
    BY <1>1, <1>4 DEF Range
  <2>. QED  BY <1>1, <1>2, <1>4, <2>1 DEF Distinct
<1>. QED  BY <1>3, <1>4 DEF r

LEMMA TailDistinct ==
    ASSUME NEW S, NEW q \in Seq(S), q # <<>>
    PROVE  /\ Range(q) = {Head(q)} \cup Range(Tail(q))
           /\ Distinct(q) => Distinct(Tail(q)) /\ Head(q) \notin Range(Tail(q))
<1> DEFINE n == Len(q)
           r == Tail(q)
<1>1. n \in Nat \ {0}
  BY EmptySeq
<1>2. /\ DOMAIN q = 1..n /\ DOMAIN r = 1..(n - 1) /\ Head(q) = q[1]
      /\ \A i \in 1..(n - 1) : r[i] = q[i + 1]
  BY <1>1, HeadTailProperties
<1> HIDE DEF n, r
<1>3. /\ 1 \in 1..n /\ \A i \in 1..(n - 1) : i + 1 \in 1..n /\ i + 1 # 1
      /\ \A i \in 1..n : i = 1 \/ (i - 1 \in 1..(n - 1) /\ (i - 1) + 1 = i)
      /\ \A i, j \in 1..(n - 1) : i + 1 = j + 1 => i = j
  BY <1>1
<1>4. \A x : x \in Range(q) <=> \E i \in 1..n : q[i] = x
  BY <1>2 DEF Range
<1>5. \A x : x \in Range(r) <=> \E i \in 1..(n - 1) : r[i] = x
  BY <1>2 DEF Range
<1>6. \A x : x \in Range(r) => x \in Range(q)
  BY <1>2, <1>3, <1>4, <1>5
<1>7. \A x : x \in Range(q) => x = q[1] \/ x \in Range(r)
  <2> SUFFICES ASSUME NEW i \in 1..n PROVE q[i] = q[1] \/ q[i] \in Range(r)
    BY <1>4
  <2>1. CASE i - 1 \in 1..(n - 1) /\ (i - 1) + 1 = i
    <3>1. r[i - 1] = q[i]
      BY <1>2, <2>1
    <3>. QED  BY <1>5, <2>1, <3>1
  <2>. QED  BY <1>3, <2>1
<1>8. Range(q) = {Head(q)} \cup Range(r)
  BY <1>2, <1>3, <1>4, <1>6, <1>7
<1>9. ASSUME Distinct(q) PROVE Distinct(r) /\ Head(q) \notin Range(r)
  <2>1. Distinct(r)
    BY <1>2, <1>3, <1>9 DEF Distinct
  <2>2. \A i \in 1..(n - 1) : r[i] # q[1]
    BY <1>2, <1>3, <1>9 DEF Distinct
  <2>. QED  BY <1>2, <1>5, <2>1, <2>2
<1>. QED  BY <1>8, <1>9 DEF r

\* A sequence without repetition keeps nothing of what Without removes.
LEMMA WithoutDistinct ==
    ASSUME NEW S, NEW q \in Seq(S), NEW s, Distinct(q)
    PROVE  /\ Range(Without(q, s)) = Range(q) \ {s}
           /\ Distinct(Without(q, s))
<1>1. CASE ~\E i \in DOMAIN q : q[i] = s
  BY <1>1 DEF Without, Range
<1>2. CASE \E i \in DOMAIN q : q[i] = s
  <2> DEFINE k == CHOOSE i \in DOMAIN q : q[i] = s
             r == SubSeq(q, 1, k - 1) \o SubSeq(q, k + 1, Len(q))
             n == Len(q)
  <2>a. k \in 1..n /\ q[k] = s
    BY <1>2
  <2> HIDE DEF k
  <2>b. Without(q, s) = r
    BY <1>2 DEF Without, k
  <2>1. k \in 1..n /\ q[k] = s /\ Without(q, s) = r
    BY <2>a, <2>b
  <2>2. /\ DOMAIN r = 1..(n - 1) /\ \A i \in 1..(k - 1) : r[i] = q[i]
        /\ \A i \in k..(n - 1) : r[i] = q[i + 1]
    BY <2>1, RemovedIndices
  <2>3. n \in Nat /\ k \in Nat /\ DOMAIN q = 1..n
    BY <2>1
  <2> HIDE DEF r, n
  <2> DEFINE from(i) == IF i < k THEN i ELSE i + 1
  <2>4. \A i \in 1..(n - 1) : from(i) \in 1..n /\ from(i) # k /\ r[i] = q[from(i)]
    BY <2>1, <2>2, <2>3
  <2>5. \A i, j \in 1..(n - 1) : from(i) = from(j) => i = j
    BY <2>1, <2>3
  <2>6. \A j \in 1..n : j # k => \E i \in 1..(n - 1) : from(i) = j
    <3> SUFFICES ASSUME NEW j \in 1..n, j # k PROVE \E i \in 1..(n - 1) : from(i) = j
      OBVIOUS
    <3>1. CASE j < k
      <4>1. j \in 1..(n - 1) /\ from(j) = j
        BY <2>1, <2>3, <3>1
      <4>. QED  BY <4>1
    <3>2. CASE j > k
      <4>1. j - 1 \in 1..(n - 1) /\ from(j - 1) = j
        BY <2>1, <2>3, <3>2
      <4>. QED  BY <4>1
    <3>. QED  BY <2>1, <2>3, <3>1, <3>2
  <2> HIDE DEF from
  <2>7. Distinct(r)
    BY <2>2, <2>3, <2>4, <2>5 DEF Distinct
  <2>8. Range(r) = Range(q) \ {s}
    <3>1. \A x : x \in Range(r) <=> \E i \in 1..(n - 1) : r[i] = x
      BY <2>2 DEF Range
    <3>2. \A x : x \in Range(q) <=> \E i \in 1..n : q[i] = x
      BY <2>3 DEF Range
    <3>3. \A i \in 1..n : q[i] = s => i = k
      BY <2>1, <2>3 DEF Distinct
    <3>. QED  BY <2>1, <2>4, <2>6, <3>1, <3>2, <3>3
  <2>. QED  BY <2>1, <2>7, <2>8
<1>. QED  BY <1>1, <1>2

LEMMA PushRange ==
    ASSUME NEW f \in Frames, NEW st \in Seq(Frames)
    PROVE  Range(<<f>> \o st) = {f} \cup Range(st)
<1>1. <<f>> \in Seq(Frames) /\ Range(<<f>>) = {f}
  BY DEF Range
<1>2. \A t \in Seq(Frames) : Range(t \o st) = Range(t) \cup Range(st)
  BY RangeConcatenation
<1>. QED  BY <1>1, <1>2

\* st has the loops of the stack, and frames of other kinds.
Keeps(st) ==
    /\ \A f \in Range(st) :
           f.subs = <<>> \/ \E g \in Range(stack) : f.subs = g.subs /\ f.kind = g.kind
    /\ \A g \in Range(stack) : g.subs # <<>> => \E f \in Range(st) : f.subs = g.subs

\* The state stays, or a loop over every subscriber begins.
LEMMA LoopsKept ==
    ASSUME TypeOK, ObserversInv, NEW st \in Seq(Frames), Keeps(st),
           UNCHANGED <<subs, seen>>,
           \/ stack' = st /\ state' = state
           \/ stack' = <<NotifyFrame(subs)>> \o st
    PROVE  ObserversInv'
<1>1. Subscribed' = Subscribed
  BY DEF Subscribed
<1>2. \A f \in Range(st) : LoopOK(f)
  BY EmptyDistinct DEF Keeps, ObserversInv, LoopOK
<1>3. CASE stack' = st /\ state' = state
  <2>1. \A f \in Range(stack') : LoopOK(f)'
    BY <1>1, <1>2, <1>3 DEF LoopOK
  <2>2. \A s \in Subscribed : Awaits(s) => \E f \in Range(stack') : s \in Range(f.subs)
    BY <1>3, EmptyDistinct DEF Awaits, Keeps
  <2>. QED  BY <1>1, <1>3, <2>1, <2>2 DEF ObserversInv, Awaits
<1>4. CASE stack' = <<NotifyFrame(subs)>> \o st
  <2> DEFINE n == NotifyFrame(subs)
  <2>1. n \in Frames /\ n.subs = subs /\ n.kind = "notify"
    BY FrameTypes DEF TypeOK, NotifyFrame, Frame
  <2> HIDE DEF n
  <2>2. Range(stack') = {n} \cup Range(st)
    BY <1>4, <2>1, PushRange DEF n
  <2>3. \A f \in Range(stack') : LoopOK(f)'
    <3>1. LoopOK(n)
      BY <2>1, SubscribedTyped DEF LoopOK, ObserversInv
    <3>. QED  BY <1>1, <1>2, <2>2, <3>1 DEF LoopOK
  <2>4. \A s \in Subscribed : \E f \in Range(stack') : s \in Range(f.subs)
    BY <2>1, <2>2, SubscribedTyped
  <2>. QED  BY <1>1, <2>3, <2>4 DEF ObserversInv, Awaits
<1>. QED  BY <1>3, <1>4

LEMMA EmitObservers ==
    ASSUME TypeOK, ObserversInv, NEW e, NEW caller \in Seq(Frames), NEW unwound \in Seq(Frames),
           Keeps(caller), Keeps(unwound), EmitOutcome(e, caller, unwound)
    PROVE  ObserversInv'
<1>1. UNCHANGED <<subs, seen>>
  BY DEF EmitOutcome
<1>2. \/ stack' = unwound /\ state' = state
      \/ stack' = <<NotifyFrame(subs)>> \o caller
  BY DEF EmitOutcome, EmitRejected, EmitNotAppended, EmitNotReduced, EmitReduced
<1>. QED  BY <1>1, <1>2, LoopsKept

LEMMA SpoilKeeps == TypeOK => Keeps(Spoil(stack)) /\ Spoil(stack) \in Seq(Frames)
<1> SUFFICES ASSUME TypeOK PROVE Keeps(Spoil(stack)) /\ Spoil(stack) \in Seq(Frames)
  OBVIOUS
<1>1. stack \in Seq(Frames) /\ Spoil(stack) \in Seq(Frames)
  BY SpoilType DEF TypeOK
<1>2. DOMAIN Spoil(stack) = DOMAIN stack
  BY DEF Spoil
<1>3. \A i \in DOMAIN stack : /\ Spoil(stack)[i].subs = stack[i].subs
                              /\ Spoil(stack)[i].kind = stack[i].kind
  <2> SUFFICES ASSUME NEW i \in DOMAIN stack
               PROVE  /\ Spoil(stack)[i].subs = stack[i].subs
                      /\ Spoil(stack)[i].kind = stack[i].kind
    OBVIOUS
  <2>1. stack[i] \in Frames
    BY <1>1, ElementOfSeq
  <2>2. /\ [stack[i] EXCEPT !.run = "spoiled"].subs = stack[i].subs
        /\ [stack[i] EXCEPT !.run = "spoiled"].kind = stack[i].kind
    BY <2>1 DEF Frames
  <2>. QED  BY <2>2 DEF Spoil
<1>. QED  BY <1>1, <1>2, <1>3 DEF Keeps, Range

\* Returning from a frame that has no one left to visit.
LEMMA PopKeeps ==
    ASSUME TypeOK, stack[1].subs = <<>>
    PROVE  /\ Keeps(Tail(stack)) /\ Tail(stack) \in Seq(Frames)
           /\ \A f \in Frames : f.subs = <<>> => Keeps(<<f>> \o Tail(stack))
<1>1. /\ stack \in Seq(Frames) /\ stack # <<>> /\ Tail(stack) \in Seq(Frames)
      /\ Head(stack) = stack[1]
  BY StackSteps, HeadTailProperties DEF TypeOK
<1>2. Range(stack) = {stack[1]} \cup Range(Tail(stack))
  BY <1>1, TailDistinct
<1>3. Keeps(Tail(stack))
  BY <1>2 DEF Keeps
<1>4. ASSUME NEW f \in Frames, f.subs = <<>> PROVE Keeps(<<f>> \o Tail(stack))
  BY <1>1, <1>2, <1>4, PushRange DEF Keeps
<1>. QED  BY <1>1, <1>3, <1>4

LEMMA DeliverObservers == ASSUME TypeOK, ObserversInv, Deliver PROVE ObserversInv'
<1> DEFINE h == stack[1]
           g == [h EXCEPT !.subs = Tail(@)]
           s0 == Head(h.subs)
<1>1. /\ stack \in Seq(Frames) /\ stack # <<>> /\ Tail(stack) \in Seq(Frames)
      /\ Head(stack) = h /\ h \in Frames /\ h.subs \in Seq(Subscribers) /\ h.subs # <<>>
      /\ h.kind = "notify"
  BY StackSteps, HeadTailProperties, FrameUpdates DEF TypeOK, Deliver, Running
<1>2. g \in Frames /\ g.subs = Tail(h.subs) /\ g.kind = "notify"
  <2> HIDE DEF h
  <2>1. Tail(h.subs) \in Seq(Subscribers)
    BY <1>1, HeadTailProperties
  <2>. QED  BY <1>1, <2>1 DEF Frames
<1>3. /\ seen' = [seen EXCEPT ![s0] = state] /\ UNCHANGED <<state, subs>>
      /\ stack' = <<HandlerFrame, g>> \o Tail(stack)
  BY DEF Deliver
<1>4. Range(stack) = {h} \cup Range(Tail(stack))
  BY <1>1, TailDistinct
<1>5. LoopOK(h)
  BY <1>4 DEF ObserversInv
<1>6. /\ Range(h.subs) = {s0} \cup Range(g.subs) /\ Distinct(g.subs)
  BY <1>1, <1>2, <1>5, TailDistinct DEF LoopOK
<1> HIDE DEF h, g, s0
<1>7. Range(stack') = {HandlerFrame, g} \cup Range(Tail(stack))
  <2>1. <<HandlerFrame, g>> \in Seq(Frames)
    BY <1>2, FrameTypes
  <2>2. Range(<<HandlerFrame, g>>) = {HandlerFrame, g}
    BY DEF Range
  <2>3. ASSUME NEW t \in Seq(Frames), NEW u \in Seq(Frames)
        PROVE  Range(t \o u) = Range(t) \cup Range(u)
    BY RangeConcatenation
  <2>. QED  BY <1>1, <1>3, <2>1, <2>2, <2>3
<1>8. HandlerFrame.subs = <<>> /\ HandlerFrame.kind = "handler"
  BY DEF HandlerFrame, Frame
<1>9. Subscribed' = Subscribed
  BY <1>3 DEF Subscribed
<1>10. \A f \in Range(stack') : LoopOK(f)'
  <2>1. LoopOK(g)
    BY <1>2, <1>5, <1>6 DEF LoopOK
  <2>2. LoopOK(HandlerFrame)
    BY <1>8, EmptyDistinct DEF LoopOK
  <2>3. \A f \in Range(stack') : LoopOK(f)
    BY <1>4, <1>7, <2>1, <2>2 DEF ObserversInv
  <2>. QED  BY <1>9, <2>3 DEF LoopOK
<1>11. s0 \in Subscribed /\ s0 \in Subscribers
  BY <1>5, <1>6, SubscribedTyped DEF LoopOK
<1>12. seen'[s0] = state /\ \A s \in Subscribers : s # s0 => seen'[s] = seen[s]
  BY <1>3, <1>11 DEF TypeOK
<1>13. \A s \in Subscribers \ Subscribed : seen'[s] = NoState
  BY <1>11, <1>12 DEF ObserversInv
<1>14. ASSUME NEW s \in Subscribed, s # s0, Awaits(s)
       PROVE  \E f \in Range(stack') : s \in Range(f.subs)
  BY <1>4, <1>6, <1>7, <1>14 DEF Awaits
<1>15. \A s \in Subscribed : \/ seen'[s] \in {NoState, state'}
                             \/ \E f \in Range(stack') : s \in Range(f.subs)
  BY <1>3, <1>12, <1>14, SubscribedTyped DEF ObserversInv
<1>. QED  BY <1>3, <1>9, <1>10, <1>13, <1>15 DEF ObserversInv, Awaits

LEMMA SubscribeObservers ==
    ASSUME TypeOK, ObserversInv, NEW s \in Subscribers, Subscribe(s)
    PROVE  ObserversInv'
<1> DEFINE visit(f) == IF f.kind = "notify" THEN [f EXCEPT !.subs = Append(@, s)] ELSE f
<1>1. /\ subs \in Seq(Subscribers) /\ stack \in Seq(Frames)
      /\ Subscribed = Range(subs) /\ s \notin Subscribed
  BY SubscribedTyped DEF TypeOK, Subscribe
<1>2. /\ subs' = Append(subs, s) /\ UNCHANGED <<state, seen>>
      /\ stack' = [i \in DOMAIN stack |-> visit(stack[i])]
  BY DEF Subscribe, LoopsVisit
<1>3. ASSUME NEW f \in Range(stack)
      PROVE  /\ visit(f).kind = f.kind
             /\ Distinct(visit(f).subs)
             /\ Range(visit(f).subs) \subseteq Subscribed \cup {s}
             /\ Range(f.subs) \subseteq Range(visit(f).subs)
             /\ f.kind # "notify" => visit(f).subs = <<>>
  <2>1. f \in Frames /\ f.subs \in Seq(Subscribers)
    BY <1>1, RangeOfSeq, FrameUpdates
  <2>2. LoopOK(f)
    BY DEF ObserversInv
  <2>3. CASE f.kind = "notify"
    <3>1. visit(f).subs = Append(f.subs, s) /\ visit(f).kind = f.kind
      BY <2>1, <2>3 DEF Frames
    <3>2. s \notin Range(f.subs)
      BY <1>1, <2>2 DEF LoopOK
    <3> HIDE DEF visit
    <3>. QED  BY <2>1, <2>2, <2>3, <3>1, <3>2, AppendDistinct DEF LoopOK
  <2>4. CASE f.kind # "notify"
    BY <2>2, <2>4 DEF LoopOK
  <2>. QED  BY <2>3, <2>4
<1> HIDE DEF visit
<1>4. /\ \A f \in Range(stack') : \E g \in Range(stack) : f = visit(g)
      /\ \A g \in Range(stack) : visit(g) \in Range(stack')
  BY <1>2 DEF Range
<1>5. Subscribed' = Subscribed \cup {s}
  <2>1. Range(subs') = Range(subs) \cup {s}
    BY <1>1, <1>2, AppendDistinct
  <2>2. Subscribed' = Range(subs')
    BY DEF Subscribed, Range
  <2>. QED  BY <1>1, <2>1, <2>2
<1>6. Distinct(subs')
  BY <1>1, <1>2, AppendDistinct DEF ObserversInv
<1>7. \A f \in Range(stack') : LoopOK(f)'
  BY <1>3, <1>4, <1>5 DEF LoopOK
<1>8. \A t \in Subscribed' : \/ seen'[t] \in {NoState, state'}
                             \/ \E f \in Range(stack') : t \in Range(f.subs)
  <2> SUFFICES ASSUME NEW t \in Subscribed, Awaits(t)
               PROVE  \E f \in Range(stack') : t \in Range(f.subs)
    BY <1>1, <1>2, <1>5 DEF ObserversInv
  <2>. QED  BY <1>3, <1>4 DEF Awaits
<1>. QED  BY <1>2, <1>5, <1>6, <1>7, <1>8 DEF ObserversInv, Awaits

LEMMA UnsubscribeObservers ==
    ASSUME TypeOK, ObserversInv, NEW s \in Subscribers, Unsubscribe(s)
    PROVE  ObserversInv'
<1> DEFINE skip(f) == [f EXCEPT !.subs = Without(@, s)]
<1>1. /\ subs \in Seq(Subscribers) /\ stack \in Seq(Frames)
      /\ Subscribed = Range(subs) /\ Subscribed \subseteq Subscribers
  BY SubscribedTyped DEF TypeOK
<1>2. /\ subs' = Without(subs, s) /\ UNCHANGED state
      /\ seen' = [seen EXCEPT ![s] = NoState]
      /\ stack' = [i \in DOMAIN stack |-> skip(stack[i])]
  BY DEF Unsubscribe, LoopsSkip
<1>3. ASSUME NEW f \in Range(stack)
      PROVE  /\ skip(f).kind = f.kind
             /\ Distinct(skip(f).subs)
             /\ Range(skip(f).subs) = Range(f.subs) \ {s}
             /\ Range(f.subs) \subseteq Subscribed
             /\ f.kind # "notify" => skip(f).subs = <<>>
  <2>1. f \in Frames /\ f.subs \in Seq(Subscribers)
    BY <1>1, RangeOfSeq, FrameUpdates
  <2>2. LoopOK(f)
    BY DEF ObserversInv
  <2>3. skip(f).subs = Without(f.subs, s) /\ skip(f).kind = f.kind
    BY <2>1 DEF Frames
  <2>4. f.subs = <<>> => Without(f.subs, s) = <<>>
    BY DEF Without
  <2> HIDE DEF skip
  <2>. QED  BY <2>1, <2>2, <2>3, <2>4, WithoutDistinct DEF LoopOK
<1> HIDE DEF skip
<1>4. /\ \A f \in Range(stack') : \E g \in Range(stack) : f = skip(g)
      /\ \A g \in Range(stack) : skip(g) \in Range(stack')
  BY <1>2 DEF Range
<1>5. Subscribed' = Subscribed \ {s} /\ Distinct(subs')
  <2>1. Range(subs') = Range(subs) \ {s} /\ Distinct(subs')
    BY <1>1, <1>2, WithoutDistinct DEF ObserversInv
  <2>2. Subscribed' = Range(subs')
    BY DEF Subscribed, Range
  <2>. QED  BY <1>1, <2>1, <2>2
<1>6. \A f \in Range(stack') : LoopOK(f)'
  BY <1>3, <1>4, <1>5 DEF LoopOK
<1>7. seen'[s] = NoState /\ \A t \in Subscribers : t # s => seen'[t] = seen[t]
  BY <1>2 DEF TypeOK
<1>8. \A t \in Subscribers \ Subscribed' : seen'[t] = NoState
  BY <1>5, <1>7 DEF ObserversInv
<1>9. \A t \in Subscribed' : \/ seen'[t] \in {NoState, state'}
                             \/ \E f \in Range(stack') : t \in Range(f.subs)
  <2> SUFFICES ASSUME NEW t \in Subscribed, t # s, Awaits(t)
               PROVE  \E f \in Range(stack') : t \in Range(f.subs)
    BY <1>1, <1>2, <1>5, <1>7 DEF ObserversInv
  <2>. QED  BY <1>3, <1>4 DEF Awaits
<1>. QED  BY <1>5, <1>6, <1>8, <1>9 DEF ObserversInv, Awaits

LEMMA ObserversStep ==
    ASSUME StackOK, ObserversInv, [Next]_vars
    PROVE  ObserversInv'
<1>0. TypeOK /\ stack \in Seq(Frames) /\ stack # <<>> /\ stack[1] \in Frames
  BY StackSteps DEF StackOK, TypeOK
<1>1. stack[1] \in Range(stack)
  BY <1>0, EmptySeq DEF Range
<1>2. stack[1].kind # "notify" => stack[1].subs = <<>>
  BY <1>1 DEF ObserversInv, LoopOK
<1>3. ASSUME NEW e \in Events, Emit(e) PROVE ObserversInv'
  BY <1>0, <1>3, SpoilKeeps, EmitObservers DEF Emit
<1>4. CASE Reset
  BY <1>0, <1>4, SpoilKeeps, LoopsKept DEF Reset
<1>5. CASE Import
  <2> DEFINE g == ImportFrame(exported.history, exported.state)
             st == <<g>> \o Spoil(stack)
  <2>1. g \in Frames /\ g.subs = <<>>
    BY <1>0, FrameTypes DEF TypeOK, ImportFrame, Frame
  <2>2. Spoil(stack) \in Seq(Frames) /\ Keeps(Spoil(stack))
    BY <1>0, SpoilKeeps
  <2> HIDE DEF g
  <2>3. st \in Seq(Frames) /\ Keeps(st)
    <3>1. Range(st) = {g} \cup Range(Spoil(stack))
      BY <2>1, <2>2, PushRange
    <3>. QED  BY <2>1, <2>2, <3>1 DEF Keeps
  <2>4. stack' = <<NotifyFrame(subs)>> \o st
    <3>1. NotifyFrame(subs) \in Frames
      BY <1>0, FrameTypes DEF TypeOK
    <3>. QED  BY <1>5, <2>1, <2>2, <3>1 DEF Import, g
  <2>5. UNCHANGED <<subs, seen>>
    BY <1>5 DEF Import
  <2>. QED  BY <1>0, <2>3, <2>4, <2>5, LoopsKept
<1>6. CASE ImportEmit
  <2> DEFINE f == [stack[1] EXCEPT !.events = Tail(@)]
  <2>1. /\ stack[1].subs = <<>> /\ stack[1].events \in Seq(Events) /\ stack[1].events # <<>>
    BY <1>0, <1>2, <1>6 DEF ImportEmit, Running, Frames
  <2>2. f \in Frames /\ f.subs = <<>>
    BY <1>0, <2>1, HeadTailProperties DEF Frames
  <2>3. EmitOutcome(Head(stack[1].events), <<f>> \o Tail(stack), Tail(stack))
    BY <1>6 DEF ImportEmit
  <2> HIDE DEF f
  <2>4. /\ Keeps(Tail(stack)) /\ Tail(stack) \in Seq(Frames)
        /\ Keeps(<<f>> \o Tail(stack)) /\ <<f>> \o Tail(stack) \in Seq(Frames)
    BY <1>0, <2>1, <2>2, PopKeeps, StackSteps
  <2>. QED  BY <1>0, <2>3, <2>4, EmitObservers
<1>7. CASE ImportEnd \/ Return
  <2>1. stack[1].subs = <<>>
    BY <1>2, <1>7 DEF ImportEnd, Return, Running
  <2>2. stack' = Tail(stack) /\ UNCHANGED <<subs, seen, state>>
    BY <1>7 DEF ImportEnd, Return
  <2>. QED  BY <1>0, <2>1, <2>2, PopKeeps, LoopsKept
<1>8. CASE Export \/ UNCHANGED vars
  <2>1. UNCHANGED <<subs, seen, state, stack>>
    BY <1>8 DEF Export, vars
  <2>. QED  BY <2>1 DEF ObserversInv, Awaits, LoopOK, Subscribed
<1>. QED
  BY <1>0, <1>3, <1>4, <1>5, <1>6, <1>7, <1>8, DeliverObservers, SubscribeObservers,
     UnsubscribeObservers DEF Next

LEMMA ObserversInit == Init => ObserversInv
<1> SUFFICES ASSUME Init PROVE ObserversInv
  OBVIOUS
<1>1. subs = <<>> /\ Subscribed = {} /\ \A s \in Subscribers : seen[s] = NoState
  BY DEF Init, Subscribed
<1>2. Range(stack) = {HandlerFrame}
  BY DEF Init, Range
<1>3. LoopOK(HandlerFrame)
  BY EmptyDistinct DEF LoopOK, HandlerFrame, Frame
<1>. QED  BY <1>1, <1>2, <1>3, EmptyDistinct DEF ObserversInv

\* When no call is under way no loop is, and every subscriber has seen what the
\* state is now, whatever emits, resets and imports the callbacks nested.
THEOREM ObserversCurrentHolds == Spec => []ObserversCurrent
<1>1. StackOK /\ ObserversInv => ObserversCurrent
  <2> SUFFICES ASSUME StackOK, ObserversInv, Len(stack) = 1, NEW s \in Subscribed, Awaits(s)
               PROVE  FALSE
    BY DEF ObserversCurrent, ObserversInv
  <2>1. PICK f \in Range(stack) : s \in Range(f.subs)
    BY DEF Awaits
  <2>2. DOMAIN stack = 1..1
    BY DEF StackOK, TypeOK
  <2>3. f = stack[1]
    BY <2>1, <2>2 DEF Range
  <2>4. f.kind = "handler"
    BY <2>3 DEF StackOK, MainAtBottom
  <2>. QED  BY <2>1, <2>4, EmptyDistinct DEF ObserversInv, LoopOK
<1>. QED  BY <1>1, InitStackOK, NextStackOK, ObserversInit, ObserversStep, PTL DEF Spec

-----------------------------------------------------------------------------
(* The replay engine.                                                      *)

\* Whatever is stored passed validateStructure and had a hash of some kind.
NoDefects == \A i \in DOMAIN history : history[i].defect \in {"none", "mismatch"}

LEMMA NextNoDefects == StackOK /\ NoDefects /\ [Next]_vars => NoDefects'
<1> SUFFICES ASSUME StackOK, NoDefects, [Next]_vars PROVE NoDefects'
    OBVIOUS
<1>1. StoreStep /\ history \in Seq(Events)
    BY NextIsStoreStep DEF StackOK, TypeOK
<1>2. CASE UNCHANGED history \/ history' = <<>>
    BY <1>2 DEF NoDefects
<1>3. ASSUME NEW e \in Events, e.defect \in {"none", "mismatch"}, history' = Append(history, e)
      PROVE  NoDefects'
  <2>1. ASSUME NEW i \in DOMAIN history' PROVE history'[i].defect \in {"none", "mismatch"}
      BY <1>1, <1>3, AppendedHistory DEF NoDefects
  <2> QED  BY <2>1 DEF NoDefects
<1> QED  BY <1>1, <1>2, <1>3 DEF StoreStep, ClearAll, EmitStep, EmitAppends

\* The head of the history up to an index, and what a replay makes of it.
LEMMA Heads ==
    ASSUME NEW h \in Seq(Events), NEW p \in DOMAIN h
    PROVE  /\ SubSeq(h, 1, p) \in Seq(Events)
           /\ DOMAIN SubSeq(h, 1, p) = 1..p
           /\ Len(SubSeq(h, 1, p)) = p
           /\ p \in Nat
           /\ \A i \in 1..p : i \in DOMAIN h /\ SubSeq(h, 1, p)[i] = h[i]
BY SubSeqProperties

LEMMA PositionStored ==
    ASSUME NEW id \in Stored
    PROVE  Position(id) \in DOMAIN history /\ history[Position(id)].id = id
<1>1. \E i \in DOMAIN history : history[i].id = id
    BY DEF Stored
<1> QED  BY <1>1 DEF Position

LEMMA StoredTypes ==
    ASSUME history \in Seq(Events)
    PROVE  /\ Stored \subseteq Ids
           /\ Position(NoEvent) = 0
           /\ 0 \notin DOMAIN history
<1>1. \A i \in DOMAIN history : history[i].id \in Ids
    BY EventTypes
<1> QED  BY <1>1, NoEventAssumption DEF Stored, Position

LEMMA WholeReplay ==
    ASSUME history \in Seq(Events)
    PROVE  replay(NoConfig).state = Replay(history)
<1>1. Position(NoEvent) = 0 /\ 0 \notin DOMAIN history
    BY StoredTypes
<1>2. selectEvents(NoConfig) = SubSeq(history, 1, Len(history))
    BY <1>1 DEF selectEvents, NoConfig
<1>3. SubSeq(history, 1, Len(history)) = history
    OBVIOUS
<1> QED  BY <1>2, <1>3 DEF replay

LEMMA ReplayUpTo ==
    ASSUME history \in Seq(Events), NEW id \in Stored
    PROVE  selectEvents([NoConfig EXCEPT !.toEventId = id]) = SubSeq(history, 1, Position(id))
<1>1. Position(NoEvent) = 0
    BY StoredTypes
<1>2. Position(id) # 0
    BY PositionStored, StoredTypes
<1> QED  BY <1>1, <1>2 DEF selectEvents, NoConfig

LEMMA Verified ==
    ASSUME history \in Seq(Events), ReferencesPrecede, ReplayAgrees, NoDefects
    PROVE  ReplayVerified
<1>1. verifyEvents(history) <=> ~Mismatched(history)
    BY DEF verifyEvents, NoDefects, ReferencesPrecede, Mismatched
<1>2. ASSUME ~ReplayThrows(history) PROVE replay(NoConfig).state = state
    BY <1>2, WholeReplay DEF ReplayAgrees
<1>3. ASSUME ~ReplayThrows(history), NEW id \in Stored
      PROVE  /\ replayTo(id).verification <=>
                    ~Mismatched(SubSeq(history, 1, replayTo(id).eventsApplied))
             /\ replayTo(id).state = SubSeq(state, 1, replayTo(id).eventsApplied)
             /\ Last(replayTo(id).state) = id
  <2> DEFINE p == Position(id)
             head == SubSeq(history, 1, p)
  <2>1. p \in DOMAIN history /\ history[p].id = id
      BY PositionStored
  <2>2. /\ head \in Seq(Events) /\ DOMAIN head = 1..p /\ Len(head) = p /\ p \in Nat
        /\ \A i \in 1..p : i \in DOMAIN history /\ head[i] = history[i]
      BY <2>1, Heads
  <2>3. replayTo(id) = [state |-> Replay(head), eventsApplied |-> p,
                        verification |-> verifyEvents(head)]
      BY <2>2, ReplayUpTo DEF replayTo, replay
  <2>4. verifyEvents(head) <=> ~Mismatched(head)
    <3>1. ASSUME NEW i \in 1..p
          PROVE  /\ head[i].defect \in {"none", "mismatch"}
                 /\ ParentIds(head[i]) \subseteq {head[k].id : k \in 1..(i - 1)}
      <4>1. ParentIds(history[i]) \subseteq {history[k].id : k \in 1..(i - 1)}
          BY <2>2 DEF ReferencesPrecede
      <4>2. \A k \in 1..(i - 1) : head[k] = history[k]
          BY <2>2
      <4> QED  BY <2>2, <4>1, <4>2 DEF NoDefects
    <3> QED  BY <2>2, <3>1 DEF verifyEvents, Mismatched
  <2>5. state = [i \in DOMAIN history |-> history[i].id]
      BY <1>3 DEF ReplayAgrees, Replay
  <2>6. Replay(head) = [i \in 1..p |-> history[i].id]
      BY <2>2 DEF Replay
  <2>7. SubSeq(state, 1, p) = [i \in 1..p |-> history[i].id]
    <3>1. SubSeq(state, 1, p) = [i \in 1..p |-> state[i]]
        BY <2>2, <2>5
    <3>2. \A i \in 1..p : state[i] = history[i].id
        BY <2>2, <2>5
    <3> QED  BY <3>1, <3>2
  <2>8. Last(Replay(head)) = id
    <3>1. Replay(head)[p] = id /\ p \in 1..p
        BY <2>1, <2>2, <2>6
    <3>2. Len(Replay(head)) = p
        BY <2>2, <2>6
    <3> QED  BY <3>1, <3>2 DEF Last
  <2>9. /\ replayTo(id).state = Replay(head)
        /\ replayTo(id).eventsApplied = p
        /\ replayTo(id).verification = verifyEvents(head)
      BY <2>3
  <2>10. SubSeq(state, 1, replayTo(id).eventsApplied) = Replay(head)
      BY <2>6, <2>7, <2>9
  <2>11. ~Mismatched(SubSeq(history, 1, replayTo(id).eventsApplied)) <=> ~Mismatched(head)
      BY <2>9
  <2> QED  BY <2>4, <2>8, <2>9, <2>10, <2>11
<1> QED  BY <1>1, <1>2, <1>3 DEF ReplayVerified

\* The replay engine returns currentState, or the state an earlier event left,
\* with a verification that fails only on an event emitted with a wrong hash.
THEOREM ReplayVerifiedHolds == Spec => []ReplayVerified
<1>1. Init => StackOK /\ NoDefects
    BY InitStackOK DEF Init, NoDefects
<1>2. (StackOK /\ NoDefects) /\ [Next]_vars => (StackOK /\ NoDefects)'
    BY NextStackOK, NextNoDefects
<1>3. (StackOK /\ NoDefects) /\ ReferencesPrecede /\ ReplayAgrees => ReplayVerified
    BY Verified DEF StackOK, TypeOK
<1> QED  BY <1>1, <1>2, <1>3, ReferencesPrecedeHolds, ReplayAgreesHolds, PTL DEF Spec

-----------------------------------------------------------------------------
(* Induction and loops.                                                    *)

LEMMA Least ==
    ASSUME NEW T \in SUBSET Nat, T # {}
    PROVE  \E m \in T : \A n \in T : m <= n
<1> DEFINE R == {ss \in Nat \X Nat : ss[1] < ss[2]}
<1>1. IsWellFoundedOn(R, Nat)
    BY NatLessThanWellFounded DEF OpToRel
<1> HIDE DEF R
<1>2. PICK m \in T : \A n \in T : ~(<<n, m>> \in R)
    BY <1>1, WFMin
<1>3. \A n \in T : ~(n < m)
    BY <1>2 DEF R
<1> QED  BY <1>3

LEMMA Induction ==
    ASSUME NEW S, 0 \in S, \A n \in Nat : n \in S => n + 1 \in S
    PROVE  Nat \subseteq S
<1> SUFFICES ASSUME Nat \ S # {} PROVE FALSE
    OBVIOUS
<1>1. PICK m \in Nat \ S : \A n \in Nat \ S : m <= n
    BY Least
<1>2. m # 0 /\ m - 1 \in Nat /\ ~(m <= m - 1)
    BY <1>1
<1>3. m - 1 \in S
    BY <1>1, <1>2
<1> QED  BY <1>1, <1>2, <1>3

\* f[i] is what a loop that starts with base has made after i of its n turns.
IsRun(f, n, S, base, F) ==
    /\ f \in [0..n -> S]
    /\ f[0] = base
    /\ \A i \in 1..n : f[i] = F[i][f[i - 1]]

LEMMA LoopExists ==
    ASSUME NEW n \in Nat, NEW S, NEW base \in S, NEW F \in [1..n -> [S -> S]]
    PROVE  \E f : IsRun(f, n, S, base, F)
<1> DEFINE Runs(m, f) == f[0] = base /\ \A i \in 1..m : f[i] = F[i][f[i - 1]]
           T == {m \in Nat : m <= n => \E f \in [0..m -> S] : Runs(m, f)}
<1>1. 0 \in T
  <2>1. [i \in 0..0 |-> base] \in [0..0 -> S] /\ Runs(0, [i \in 0..0 |-> base])
      OBVIOUS
  <2> QED  BY <2>1
<1>2. ASSUME NEW m \in Nat, m \in T, m + 1 <= n
      PROVE  m + 1 \in T
  <2>1. PICK f \in [0..m -> S] : Runs(m, f)
      BY <1>2
  <2> DEFINE g == [i \in 0..(m + 1) |-> IF i = m + 1 THEN F[m + 1][f[m]] ELSE f[i]]
  <2>2. F[m + 1][f[m]] \in S
      BY <1>2, <2>1
  <2>3. g \in [0..(m + 1) -> S]
      BY <2>1, <2>2
  <2>4. Runs(m + 1, g)
    <3>1. g[0] = base
        BY <2>1
    <3>2. ASSUME NEW i \in 1..(m + 1) PROVE g[i] = F[i][g[i - 1]]
      <4>1. CASE i = m + 1
          BY <2>1, <4>1
      <4>2. CASE i \in 1..m
          BY <2>1, <4>2
      <4> QED  BY <4>1, <4>2
    <3> QED  BY <3>1, <3>2
  <2> HIDE DEF g, Runs
  <2>5. \E h \in [0..(m + 1) -> S] : Runs(m + 1, h)
      BY <2>3, <2>4
  <2> QED  BY <2>5
<1>3. ASSUME NEW m \in Nat, m \in T PROVE m + 1 \in T
  <2>1. CASE m + 1 <= n
      BY <1>2, <1>3, <2>1
  <2>2. CASE ~(m + 1 <= n)
      BY <2>2
  <2> QED  BY <2>1, <2>2
<1> HIDE DEF T
<1>4. n \in T
    BY <1>1, <1>3, Induction
<1> QED  BY <1>4 DEF T, IsRun

\* Two runs of one loop end alike.
SameTurns(f, g, n) ==
    f[0] = g[0] /\ \A i \in 1..n : f[i - 1] = g[i - 1] => f[i] = g[i]

LEMMA LoopUnique ==
    ASSUME NEW n \in Nat, NEW f, NEW g, SameTurns(f, g, n)
    PROVE  f[n] = g[n]
<1> USE DEF SameTurns
<1> DEFINE T == {m \in Nat : m <= n => f[m] = g[m]}
<1>1. 0 \in T
    OBVIOUS
<1>2. ASSUME NEW m \in Nat, m \in T PROVE m + 1 \in T
  <2>1. CASE m + 1 <= n
    <3>1. m + 1 \in 1..n /\ (m + 1) - 1 = m /\ m <= n
        BY <2>1
    <3>2. f[m] = g[m]
        BY <1>2, <3>1
    <3>3. f[m + 1] = g[m + 1]
        BY <3>1, <3>2
    <3> QED  BY <3>3
  <2>2. CASE ~(m + 1 <= n)
      BY <2>2
  <2> QED  BY <2>1, <2>2
<1> HIDE DEF T
<1>3. n \in T
    BY <1>1, <1>2, Induction
<1> QED  BY <1>3 DEF T

-----------------------------------------------------------------------------
(* The closed form of replay.                                              *)

ThrowsBy(h, m) ==
    \E i \in 1..m : ~(Needs[h[i].id] \subseteq {h[k].id : k \in 1..(i - 1)})

\* What the loop has after m events.
Replayed(acc, h, m) ==
    IF ThrowsBy(h, m) THEN acc.threw = TRUE
    ELSE acc.threw = FALSE /\ acc.state = [i \in 1..m |-> h[i].id]

Accumulators == [threw : BOOLEAN, state : Seq(Ids)]

LEMMA ReplayTurnType ==
    ASSUME NEW acc \in Accumulators, NEW e \in Events
    PROVE  ReplayTurn(acc, e) \in Accumulators
<1>1. Append(acc.state, e.id) \in Seq(Ids) /\ acc.state \in Seq(Ids)
    BY EventTypes, AppendProperties DEF Accumulators
<1> QED  BY <1>1 DEF ReplayTurn, Reduce, Accumulators

LEMMA ReplayLoop ==
    ASSUME NEW h \in Seq(Events)
    PROVE  \E f :
               /\ f \in [0..Len(h) -> Accumulators]
               /\ f[0] = [threw |-> FALSE, state |-> <<>>]
               /\ \A i \in 1..Len(h) : f[i] = ReplayTurn(f[i - 1], h[i])
               /\ RunReplay(h) = f[Len(h)]
<1> DEFINE n == Len(h)
           start == [threw |-> FALSE, state |-> <<>>]
           F == [i \in 1..n |-> [s \in Accumulators |-> ReplayTurn(s, h[i])]]
           Run(g) == [i \in 0..n |-> IF i = 0 THEN start ELSE ReplayTurn(g[i - 1], h[i])]
<1>0. n \in Nat
    OBVIOUS
<1>i. start \in Accumulators
  <2>1. <<>> \in Seq(Ids)
      OBVIOUS
  <2> QED  BY <2>1 DEF Accumulators
<1>8. RunReplay(h) = (CHOOSE g : g = Run(g))[n]
    BY DEF RunReplay
<1> HIDE DEF start
<1>1. \A i \in 1..n, s \in Accumulators : ReplayTurn(s, h[i]) \in Accumulators
  <2>1. \A i \in 1..n : h[i] \in Events
      OBVIOUS
  <2> QED  BY <2>1, ReplayTurnType
<1>2. F \in [1..n -> [Accumulators -> Accumulators]]
    BY <1>1
<1>3. \A i \in 1..n, s \in Accumulators : F[i][s] = ReplayTurn(s, h[i])
    OBVIOUS
<1> HIDE DEF F, n
<1>4. PICK f : IsRun(f, n, Accumulators, start, F)
    BY <1>0, <1>i, <1>2, LoopExists
<1> USE DEF IsRun
<1>5. \A i \in 1..n : f[i] = ReplayTurn(f[i - 1], h[i])
  <2>1. \A i \in 1..n : f[i - 1] \in Accumulators
      BY <1>0, <1>4
  <2> QED  BY <1>3, <1>4, <2>1
<1>6. f = Run(f)
  <2>1. \A i \in 0..n : f[i] = Run(f)[i]
      BY <1>0, <1>4, <1>5
  <2> QED  BY <1>4, <2>1
<1> DEFINE g == CHOOSE u : u = Run(u)
<1>7. g = Run(g)
    BY <1>6
<1>12. RunReplay(h) = g[n]
    BY <1>8
<1> HIDE DEF g
<1>9. \A i \in 0..n : g[i] = IF i = 0 THEN start ELSE ReplayTurn(g[i - 1], h[i])
    BY <1>7
<1>10. SameTurns(f, g, n)
  <2>1. f[0] = g[0]
      BY <1>0, <1>4, <1>9
  <2>2. \A i \in 1..n : g[i] = ReplayTurn(g[i - 1], h[i])
      BY <1>0, <1>9
  <2> QED  BY <1>5, <2>1, <2>2 DEF SameTurns
<1>11. RunReplay(h) = f[n]
    BY <1>0, <1>10, <1>12, LoopUnique
<1> QED  BY <1>4, <1>5, <1>11 DEF n, start

LEMMA ReplayTurnKeeps ==
    ASSUME NEW h \in Seq(Events), NEW m \in Nat, m + 1 <= Len(h),
           NEW acc \in Accumulators, Replayed(acc, h, m)
    PROVE  Replayed(ReplayTurn(acc, h[m + 1]), h, m + 1)
<1> DEFINE e == h[m + 1]
           ids == {h[k].id : k \in 1..m}
           short == [i \in 1..m |-> h[i].id]
           long == [i \in 1..(m + 1) |-> h[i].id]
<1>1. ThrowsBy(h, m + 1) <=> (ThrowsBy(h, m) \/ ~(Needs[e.id] \subseteq ids))
  <2>1. 1..(m + 1) = (1..m) \cup {m + 1} /\ (m + 1) - 1 = m
      OBVIOUS
  <2> QED  BY <2>1 DEF ThrowsBy
<1>2. {short[i] : i \in DOMAIN short} = ids
    OBVIOUS
<1>3. Append(short, e.id) = long
  <2>1. \A i \in 1..m : h[i].id \in Ids
    <3>1. \A i \in 1..m : h[i] \in Events
        OBVIOUS
    <3> QED  BY <3>1, EventTypes
  <2>2. short \in [1..m -> Ids]
      BY <2>1
  <2>3. short \in Seq(Ids) /\ Len(short) = m
      BY <2>2, SeqDef, LenProperties
  <2> QED  BY <2>3
<1> HIDE DEF ids, short, long, e
<1>4. CASE ThrowsBy(h, m)
  <2>1. acc.threw
      BY <1>4 DEF Replayed
  <2>2. ReplayTurn(acc, e).threw = TRUE
      BY <2>1 DEF ReplayTurn
  <2> QED  BY <1>1, <1>4, <2>2 DEF Replayed, e
<1>5. CASE ~ThrowsBy(h, m)
  <2>0. acc.threw = FALSE /\ acc.state = short
      BY <1>5 DEF Replayed, short
  <2>1. ReducerThrows(acc.state, e) <=> ~(Needs[e.id] \subseteq ids)
      BY <1>2, <2>0 DEF ReducerThrows
  <2>2. CASE ReducerThrows(acc.state, e)
    <3>1. ReplayTurn(acc, e).threw = TRUE
        BY <2>2 DEF ReplayTurn
    <3> QED  BY <1>1, <2>1, <2>2, <3>1 DEF Replayed, e
  <2>3. CASE ~ReducerThrows(acc.state, e)
    <3>1. ReplayTurn(acc, e) = [threw |-> FALSE, state |-> long]
        BY <1>3, <2>0, <2>3 DEF ReplayTurn, Reduce
    <3> QED  BY <1>1, <1>5, <2>1, <2>3, <3>1 DEF Replayed, e, long
  <2> QED  BY <2>2, <2>3
<1> QED  BY <1>4, <1>5

\* What the properties say of a replay is what the loop of replay() returns, for
\* a history of any length.
THEOREM ReplayIsLoop ==
    ASSUME NEW h \in Seq(Events)
    PROVE  /\ RunReplay(h).threw <=> ReplayThrows(h)
           /\ ~ReplayThrows(h) => RunReplay(h).state = Replay(h)
<1> DEFINE n == Len(h)
<1>0. n \in Nat /\ DOMAIN h = 1..n
    OBVIOUS
<1>1. PICK f : /\ f \in [0..n -> Accumulators]
               /\ f[0] = [threw |-> FALSE, state |-> <<>>]
               /\ \A i \in 1..n : f[i] = ReplayTurn(f[i - 1], h[i])
               /\ RunReplay(h) = f[n]
    BY ReplayLoop
<1> DEFINE T == {m \in Nat : m <= n => Replayed(f[m], h, m)}
<1> HIDE DEF n
<1>2. 0 \in T
  <2>1. ~ThrowsBy(h, 0)
      BY DEF ThrowsBy
  <2>2. [i \in 1..0 |-> h[i].id] = <<>>
      OBVIOUS
  <2>3. Replayed(f[0], h, 0)
      BY <1>1, <2>1, <2>2 DEF Replayed
  <2> QED  BY <2>3
<1>3. ASSUME NEW m \in Nat, m \in T PROVE m + 1 \in T
  <2>1. CASE m + 1 <= n
    <3>1. m + 1 \in 1..n /\ (m + 1) - 1 = m /\ m <= n /\ m \in 0..n
        BY <1>0, <2>1
    <3>2. Replayed(f[m], h, m) /\ f[m] \in Accumulators /\ f[m + 1] = ReplayTurn(f[m], h[m + 1])
        BY <1>1, <1>3, <3>1
    <3>3. Replayed(f[m + 1], h, m + 1)
        BY <2>1, <3>2, ReplayTurnKeeps DEF n
    <3> QED  BY <3>3
  <2>2. CASE ~(m + 1 <= n)
      BY <2>2
  <2> QED  BY <2>1, <2>2
<1> HIDE DEF T
<1>4. n \in T
    BY <1>0, <1>2, <1>3, Induction
<1>5. Replayed(RunReplay(h), h, n)
    BY <1>0, <1>1, <1>4 DEF T
<1>6. ThrowsBy(h, n) <=> ReplayThrows(h)
    BY <1>0 DEF ThrowsBy, ReplayThrows
<1>7. Replay(h) = [i \in 1..n |-> h[i].id]
    BY <1>0 DEF Replay
<1> QED  BY <1>5, <1>6, <1>7 DEF Replayed

-----------------------------------------------------------------------------
(* The ancestry index.                                                     *)

\* An id is stored once.
StoredOnce == \A i, k \in DOMAIN history : history[i].id = history[k].id => i = k

LEMMA NextStoredOnce == StackOK /\ StoredOnce /\ [Next]_vars => StoredOnce'
<1> SUFFICES ASSUME StackOK, StoredOnce, [Next]_vars PROVE StoredOnce'
    OBVIOUS
<1>1. StoreStep /\ history \in Seq(Events)
    BY NextIsStoreStep DEF StackOK, TypeOK
<1>2. CASE UNCHANGED history \/ history' = <<>>
    BY <1>2 DEF StoredOnce
<1>3. ASSUME NEW e \in Events, e.id \notin Stored, history' = Append(history, e)
      PROVE  StoredOnce'
  <2>1. /\ \A i \in DOMAIN history : history'[i] = history[i]
        /\ history'[Len(history) + 1] = e
        /\ \A i \in DOMAIN history' : i \in DOMAIN history \/ i = Len(history) + 1
      BY <1>1, <1>3, AppendedHistory
  <2>2. \A i \in DOMAIN history : history[i].id # e.id
      BY <1>3 DEF Stored
  <2> QED  BY <2>1, <2>2 DEF StoredOnce
<1> QED  BY <1>1, <1>2, <1>3 DEF StoreStep, ClearAll, EmitStep, EmitAppends

\* The edges of the stored references, all from an earlier event to a later one.
InOrderOnce == history \in Seq(Events) /\ ReferencesPrecede /\ StoredOnce

Before(x, y) ==
    \E i, k \in DOMAIN history : i < k /\ x = history[i].id /\ y = history[k].id

LEMMA HistoryTypes ==
    ASSUME history \in Seq(Events), NEW i \in DOMAIN history
    PROVE  history[i].id \in Ids /\ ParentIds(history[i]) \subseteq Ids
<1>1. history[i] \in Events
    OBVIOUS
<1> QED  BY <1>1, EventTypes DEF ParentIds

LEMMA StoreEdgesType ==
    ASSUME history \in Seq(Events)
    PROVE  StoreEdges \in SUBSET Edges
BY HistoryTypes DEF StoreEdges, Edges

LEMMA StoreEdge ==
    ASSUME InOrderOnce, NEW edge \in StoreEdges
    PROVE  \E m, j \in DOMAIN history :
               m < j /\ edge = <<history[m].id, history[j].id>> /\ history[m].id \in ParentIds(history[j])
<1>1. PICK j \in DOMAIN history : edge \in {<<p, history[j].id>> : p \in ParentIds(history[j])}
    BY DEF StoreEdges
<1>2. PICK m \in 1..(j - 1) : edge[1] = history[m].id
    BY <1>1 DEF InOrderOnce, ReferencesPrecede
<1>3. m \in DOMAIN history /\ m < j
    BY <1>1, <1>2 DEF InOrderOnce
<1> QED  BY <1>1, <1>2, <1>3

LEMMA ReachIsLater ==
    ASSUME InOrderOnce, NEW x \in Ids, NEW y \in Reach(StoreEdges, x), x # y
    PROVE  Before(x, y)
<1> DEFINE S == {x} \cup {z \in Ids : Before(x, z)}
<1>1. S \in SUBSET Ids /\ x \in S
    OBVIOUS
<1>2. Closed(StoreEdges, S)
  <2> SUFFICES ASSUME NEW edge \in StoreEdges, edge[1] \in S PROVE edge[2] \in S
      BY DEF Closed
  <2>1. PICK m \in DOMAIN history, j \in DOMAIN history : m < j /\ edge = <<history[m].id, history[j].id>>
      BY StoreEdge
  <2>2. edge[2] \in Ids
      BY <2>1, HistoryTypes DEF InOrderOnce
  <2>3. CASE edge[1] = x
      BY <2>1, <2>2, <2>3 DEF Before
  <2>4. CASE Before(x, edge[1])
    <3>1. PICK i \in DOMAIN history, k \in DOMAIN history : i < k /\ x = history[i].id /\ edge[1] = history[k].id
        BY <2>4 DEF Before
    <3>2. k = m
        BY <2>1, <3>1 DEF InOrderOnce, StoredOnce
    <3>3. i < j
        BY <2>1, <3>1, <3>2 DEF InOrderOnce
    <3> QED  BY <2>1, <2>2, <3>1, <3>3 DEF Before
  <2> QED  BY <2>3, <2>4
<1>3. y \in S
    BY <1>1, <1>2, StoreEdgesType, ReachIsLeast DEF InOrderOnce
<1> QED  BY <1>3

\* A path ends in an edge.
LEMMA LastEdge ==
    ASSUME NEW E \in SUBSET Edges, NEW a \in Ids, NEW b \in Reach(E, a), a # b
    PROVE  \E edge \in E : edge[1] \in Reach(E, a) /\ edge[2] = b
<1> SUFFICES ASSUME \A edge \in E : edge[1] \in Reach(E, a) => edge[2] # b PROVE FALSE
    OBVIOUS
<1> DEFINE S == Reach(E, a) \ {b}
<1>1. S \in SUBSET Ids /\ a \in S /\ Closed(E, Reach(E, a))
    BY ReachIsLeast
<1>2. Closed(E, S)
    BY <1>1 DEF Closed
<1>3. Reach(E, a) \subseteq S
    BY <1>1, <1>2, ReachIsLeast
<1> QED  BY <1>3

LEMMA NotBoth ==
    ASSUME InOrderOnce, NEW x, NEW y
    PROVE  ~(Before(x, y) /\ (Before(y, x) \/ x = y))
<1> SUFFICES ASSUME Before(x, y), Before(y, x) \/ x = y PROVE FALSE
    OBVIOUS
<1>1. PICK i \in DOMAIN history, k \in DOMAIN history : i < k /\ x = history[i].id /\ y = history[k].id
    BY DEF Before
<1>2. CASE x = y
  <2>1. i = k
      BY <1>1, <1>2 DEF InOrderOnce, StoredOnce
  <2>2. i \in 1..Len(history)
      BY DEF InOrderOnce
  <2> QED  BY <1>1, <2>1, <2>2
<1>3. CASE Before(y, x)
  <2>1. PICK m \in DOMAIN history, j \in DOMAIN history : m < j /\ y = history[m].id /\ x = history[j].id
      BY <1>3 DEF Before
  <2>2. m = k /\ j = i
      BY <1>1, <2>1 DEF InOrderOnce, StoredOnce
  <2> QED  BY <1>1, <2>1, <2>2 DEF InOrderOnce
<1> QED  BY <1>2, <1>3

StoreAncestors(id) == {x \in Ids : IsAncestorOf(StoreEdges, x, id)}

\* What addNode relies on: the ancestors of an event are its parents and theirs.
LEMMA AncestorsOfEvent ==
    ASSUME InOrderOnce, NEW i \in DOMAIN history
    PROVE  StoreAncestors(history[i].id) =
               ParentIds(history[i]) \cup
               UNION {StoreAncestors(p) : p \in ParentIds(history[i])}
<1> DEFINE id == history[i].id
           P == ParentIds(history[i])
<1>0. /\ StoreEdges \in SUBSET Edges /\ id \in Ids /\ P \subseteq Ids
      /\ \A p \in P : <<p, id>> \in StoreEdges
    BY StoreEdgesType, HistoryTypes DEF InOrderOnce, StoreEdges
<1>1. \A p \in P : Before(p, id)
  <2> SUFFICES ASSUME NEW p \in P PROVE Before(p, id)
      OBVIOUS
  <2>1. PICK m \in DOMAIN history, j \in DOMAIN history : m < j /\ <<p, id>> = <<history[m].id, history[j].id>>
      BY <1>0, StoreEdge
  <2> QED  BY <2>1 DEF Before
<1>2. ASSUME NEW x \in StoreAncestors(id)
      PROVE  x \in P \/ \E p \in P : x \in StoreAncestors(p)
  <2>1. x \in Ids /\ x # id /\ id \in Reach(StoreEdges, x)
      BY <1>0, <1>2, AncestorIsReach DEF StoreAncestors
  <2>2. PICK edge \in StoreEdges : edge[1] \in Reach(StoreEdges, x) /\ edge[2] = id
      BY <1>0, <2>1, LastEdge
  <2>3. PICK m \in DOMAIN history, j \in DOMAIN history :
            /\ edge = <<history[m].id, history[j].id>>
            /\ history[m].id \in ParentIds(history[j])
      BY StoreEdge
  <2>4. j = i
      BY <2>2, <2>3 DEF InOrderOnce, StoredOnce
  <2>5. edge[1] \in P
      BY <2>3, <2>4
  <2>6. edge[1] = x \/ x \in StoreAncestors(edge[1])
      BY <1>0, <2>1, <2>2, <2>5, AncestorIsReach DEF StoreAncestors
  <2> QED  BY <2>5, <2>6
<1>3. ASSUME NEW p \in P PROVE p \in StoreAncestors(id)
  <2>1. p # id
      BY <1>1, NotBoth
  <2>2. id \in Reach(StoreEdges, p)
    <3>1. p \in Reach(StoreEdges, p) /\ Closed(StoreEdges, Reach(StoreEdges, p))
        BY <1>0, ReachIsLeast
    <3>2. <<p, id>> \in StoreEdges
        BY <1>0
    <3> QED  BY <3>1, <3>2 DEF Closed
  <2> QED  BY <1>0, <2>1, <2>2, AncestorIsReach DEF StoreAncestors
<1>4. ASSUME NEW p \in P, NEW x \in StoreAncestors(p) PROVE x \in StoreAncestors(id)
  <2>1. x \in Ids /\ x # p /\ p \in Reach(StoreEdges, x)
      BY <1>0, <1>4, AncestorIsReach DEF StoreAncestors
  <2>2. x # id
    <3>1. Before(x, p) /\ Before(p, id)
        BY <1>1, <2>1, ReachIsLater
    <3> QED  BY <3>1, NotBoth
  <2>3. id \in Reach(StoreEdges, p)
      BY <1>0, <1>3, AncestorIsReach DEF StoreAncestors
  <2>4. id \in Reach(StoreEdges, x)
      BY <1>0, <2>1, <2>3, ReachIsTransitive
  <2> QED  BY <1>0, <2>1, <2>2, <2>4, AncestorIsReach DEF StoreAncestors
<1> QED  BY <1>2, <1>3, <1>4

Indexes == UNION {[D -> SUBSET Ids] : D \in SUBSET Ids}

LEMMA AddNodeProperties ==
    ASSUME NEW index \in Indexes, NEW e \in Events
    PROVE  /\ addNode(index, e) \in Indexes
           /\ DOMAIN addNode(index, e) = DOMAIN index \cup {e.id}
           /\ addNode(index, e)[e.id] =
                  ParentIds(e) \cup UNION {index[p] : p \in ParentIds(e) \cap DOMAIN index}
           /\ \A id \in DOMAIN index : id # e.id => addNode(index, e)[id] = index[id]
<1> DEFINE new == ParentIds(e) \cup UNION {index[p] : p \in ParentIds(e) \cap DOMAIN index}
           node == [id \in DOMAIN index \cup {e.id} |-> IF id = e.id THEN new ELSE index[id]]
<1>0. DOMAIN index \in SUBSET Ids /\ index \in [DOMAIN index -> SUBSET Ids]
    BY DEF Indexes
<1>1. new \in SUBSET Ids /\ e.id \in Ids
  <2>1. ParentIds(e) \subseteq Ids /\ e.id \in Ids
      BY EventTypes DEF ParentIds
  <2>2. \A p \in DOMAIN index : index[p] \subseteq Ids
      BY <1>0
  <2> QED  BY <2>1, <2>2
<1>2. addNode(index, e) = node
    BY DEF addNode
<1> HIDE DEF new
<1>3. node \in [DOMAIN index \cup {e.id} -> SUBSET Ids]
    BY <1>0, <1>1
<1>4. DOMAIN index \cup {e.id} \in SUBSET Ids
    BY <1>0, <1>1
<1>5. node \in Indexes
    BY <1>3, <1>4 DEF Indexes
<1> QED  BY <1>2, <1>5 DEF new

LEMMA AncestryIndexLoop ==
    ASSUME history \in Seq(Events)
    PROVE  \E f :
               /\ f \in [0..Len(history) -> Indexes]
               /\ f[0] = <<>>
               /\ \A i \in 1..Len(history) : f[i] = addNode(f[i - 1], history[i])
               /\ ancestryIndex = f[Len(history)]
<1> DEFINE n == Len(history)
           Turn(i, s) == addNode(s, history[i])
           F == [i \in 1..n |-> [s \in Indexes |-> Turn(i, s)]]
           Run(g) == [i \in 0..n |-> IF i = 0 THEN <<>> ELSE Turn(i, g[i - 1])]
<1>0. n \in Nat
    OBVIOUS
<1>i. <<>> \in Indexes
  <2>1. <<>> \in [{} -> SUBSET Ids] /\ {} \in SUBSET Ids
      OBVIOUS
  <2>2. \E D \in SUBSET Ids : <<>> \in [D -> SUBSET Ids]
      BY <2>1
  <2> QED  BY <2>2 DEF Indexes
<1>1. \A i \in 1..n, s \in Indexes : Turn(i, s) \in Indexes
  <2>1. \A i \in 1..n : history[i] \in Events
      OBVIOUS
  <2> QED  BY <2>1, AddNodeProperties
<1> HIDE DEF Turn
<1>2. F \in [1..n -> [Indexes -> Indexes]]
    BY <1>1
<1>3. \A i \in 1..n, s \in Indexes : F[i][s] = Turn(i, s)
    OBVIOUS
<1> HIDE DEF F, n
<1>4. PICK f : IsRun(f, n, Indexes, <<>>, F)
    BY <1>0, <1>i, <1>2, LoopExists
<1> USE DEF IsRun
<1>5. \A i \in 1..n : f[i] = Turn(i, f[i - 1])
  <2>1. \A i \in 1..n : f[i - 1] \in Indexes
      BY <1>0, <1>4
  <2> QED  BY <1>3, <1>4, <2>1
<1>6. f = Run(f)
  <2>1. \A i \in 0..n : f[i] = Run(f)[i]
      BY <1>0, <1>4, <1>5
  <2> QED  BY <1>4, <2>1
<1> DEFINE g == CHOOSE h : h = Run(h)
<1>7. g = Run(g)
    BY <1>6
<1>8. ancestryIndex = g[n]
    BY DEF ancestryIndex, Turn, n
<1> HIDE DEF g
<1>9. \A i \in 0..n : g[i] = IF i = 0 THEN <<>> ELSE Turn(i, g[i - 1])
    BY <1>7
<1>10. SameTurns(f, g, n)
  <2>1. f[0] = g[0]
      BY <1>0, <1>4, <1>9
  <2>2. \A i \in 1..n : g[i] = Turn(i, g[i - 1])
      BY <1>0, <1>9
  <2> QED  BY <1>5, <2>1, <2>2 DEF SameTurns
<1>11. ancestryIndex = f[n]
    BY <1>0, <1>8, <1>10, LoopUnique
<1> QED  BY <1>4, <1>5, <1>11 DEF Turn, n

\* After i events the index has the ancestors of each of them.
Indexed(index, i) ==
    /\ index \in Indexes
    /\ DOMAIN index = {history[k].id : k \in 1..i}
    /\ \A k \in 1..i : index[history[k].id] = StoreAncestors(history[k].id)

LEMMA IndexTurn ==
    ASSUME InOrderOnce, NEW i \in DOMAIN history, NEW index, Indexed(index, i - 1)
    PROVE  Indexed(addNode(index, history[i]), i)
<1> DEFINE e == history[i]
           P == ParentIds(e)
<1>0. /\ e \in Events /\ i \in Nat /\ i > 0 /\ index \in Indexes
      /\ \A k \in 1..(i - 1) : k \in DOMAIN history
    BY DEF InOrderOnce, Indexed
<1>1. P \subseteq {history[k].id : k \in 1..(i - 1)}
    BY DEF InOrderOnce, ReferencesPrecede
<1>2. \A p \in P : p \in DOMAIN index /\ index[p] = StoreAncestors(p)
    BY <1>1 DEF Indexed
<1>3. P \cup UNION {index[p] : p \in P \cap DOMAIN index} = StoreAncestors(e.id)
  <2>1. P \cap DOMAIN index = P
      BY <1>2
  <2>2. UNION {index[p] : p \in P \cap DOMAIN index} = UNION {StoreAncestors(p) : p \in P}
      BY <1>2, <2>1
  <2> QED  BY <2>2, AncestorsOfEvent
<1>4. \A k \in 1..(i - 1) : history[k].id # e.id
  <2>1. \A k \in 1..(i - 1) : k # i
      BY <1>0
  <2> QED  BY <1>0, <2>1 DEF InOrderOnce, StoredOnce
<1> DEFINE new == addNode(index, e)
<1>5. /\ new \in Indexes
      /\ DOMAIN new = DOMAIN index \cup {e.id}
      /\ new[e.id] = StoreAncestors(e.id)
      /\ \A id \in DOMAIN index : id # e.id => new[id] = index[id]
    BY <1>0, <1>3, AddNodeProperties
<1> HIDE DEF new
<1>6. 1..i = (1..(i - 1)) \cup {i}
    BY <1>0
<1>7. DOMAIN new = {history[k].id : k \in 1..i}
  <2>1. {history[k].id : k \in 1..i} = {history[k].id : k \in 1..(i - 1)} \cup {e.id}
      BY <1>6
  <2> QED  BY <1>5, <2>1 DEF Indexed
<1>8. ASSUME NEW k \in 1..i PROVE new[history[k].id] = StoreAncestors(history[k].id)
  <2>1. CASE k = i
      BY <1>5, <2>1
  <2>2. CASE k \in 1..(i - 1)
    <3>1. history[k].id \in DOMAIN index /\ index[history[k].id] = StoreAncestors(history[k].id)
        BY <2>2 DEF Indexed
    <3> QED  BY <1>4, <1>5, <2>2, <3>1
  <2> QED  BY <1>6, <2>1, <2>2
<1> QED  BY <1>5, <1>7, <1>8 DEF Indexed, new

LEMMA IndexCorrect ==
    ASSUME InOrderOnce
    PROVE  Indexed(ancestryIndex, Len(history))
<1> DEFINE n == Len(history)
<1>0. history \in Seq(Events) /\ n \in Nat /\ DOMAIN history = 1..n
    BY DEF InOrderOnce
<1>1. PICK f : /\ f \in [0..n -> Indexes]
               /\ f[0] = <<>>
               /\ \A i \in 1..n : f[i] = addNode(f[i - 1], history[i])
               /\ ancestryIndex = f[n]
    BY <1>0, AncestryIndexLoop
<1> DEFINE T == {m \in Nat : m <= n => Indexed(f[m], m)}
<1>2. 0 \in T
  <2>1. f[0] \in Indexes /\ DOMAIN f[0] = {} /\ {history[k].id : k \in 1..0} = {}
      BY <1>0, <1>1
  <2> QED  BY <2>1 DEF Indexed
<1>3. ASSUME NEW m \in Nat, m \in T PROVE m + 1 \in T
  <2>1. CASE m + 1 <= n
    <3>1. m + 1 \in DOMAIN history /\ (m + 1) - 1 = m /\ m <= n
        BY <1>0, <2>1
    <3>2. Indexed(f[m], m)
        BY <1>3, <3>1
    <3>3. f[m + 1] = addNode(f[m], history[m + 1])
        BY <1>0, <1>1, <3>1
    <3>4. Indexed(f[m + 1], m + 1)
        BY <3>1, <3>2, <3>3, IndexTurn
    <3> QED  BY <3>4
  <2>2. CASE ~(m + 1 <= n)
      BY <2>2
  <2> QED  BY <2>1, <2>2
<1> HIDE DEF T
<1>4. n \in T
    BY <1>0, <1>2, <1>3, Induction
<1> QED  BY <1>0, <1>1, <1>4 DEF T

LEMMA NoCycles ==
    ASSUME InOrderOnce, NEW id
    PROVE  ~hasCycles(id)
<1> SUFFICES ASSUME NEW edge \in StoreEdges, Reaches(StoreEdges, edge[2], edge[1])
             PROVE  FALSE
    BY DEF hasCycles
<1>1. PICK m \in DOMAIN history, j \in DOMAIN history :
          m < j /\ edge = <<history[m].id, history[j].id>>
    BY StoreEdge
<1>2. Before(edge[1], edge[2])
    BY <1>1 DEF Before
<1>3. edge[1] \in Ids /\ edge[2] \in Ids
    BY <1>1, HistoryTypes DEF InOrderOnce
<1>4. edge[2] = edge[1] \/ Before(edge[2], edge[1])
    BY <1>3, AncestorIsReach, ReachIsLater DEF Reaches
<1> QED  BY <1>2, <1>4, NotBoth

\* The index answers as a search through the stored references, which meets no
\* cycle: events stored by imports, re-entrant emits and failed ones included.
THEOREM IndexIsAncestryHolds == Spec => []IndexIsAncestry
<1>1. Init => StackOK /\ StoredOnce
    BY InitStackOK DEF Init, StoredOnce
<1>2. (StackOK /\ StoredOnce) /\ [Next]_vars => (StackOK /\ StoredOnce)'
    BY NextStackOK, NextStoredOnce
<1>3. ASSUME InOrderOnce PROVE IndexIsAncestry
  <2> SUFFICES ASSUME NEW id \in Stored
               PROVE  /\ ~hasCycles(id)
                      /\ \A x \in Ids : isAncestor(ancestryIndex, x, id)
                                            <=> IsAncestorOf(StoreEdges, x, id)
      BY DEF IndexIsAncestry
  <2>1. PICK k \in DOMAIN history : id = history[k].id
      BY DEF Stored
  <2>2. k \in 1..Len(history)
      BY <1>3 DEF InOrderOnce
  <2>3. id \in DOMAIN ancestryIndex /\ ancestryIndex[id] = StoreAncestors(id)
      BY <1>3, <2>1, <2>2, IndexCorrect DEF Indexed
  <2> QED  BY <1>3, <2>3, NoCycles DEF isAncestor, StoreAncestors
<1>4. (StackOK /\ StoredOnce) /\ ReferencesPrecede => IndexIsAncestry
    BY <1>3 DEF StackOK, TypeOK, InOrderOnce
<1> QED  BY <1>1, <1>2, <1>4, ReferencesPrecedeHolds, PTL DEF Spec

-----------------------------------------------------------------------------
(* Kahn's algorithm.                                                       *)

\* The graph stays finite: an emit adds no more edges than it names parents.
LEMMA NextFinite == StackOK /\ IsFiniteSet(graph) /\ [Next]_vars => IsFiniteSet(graph')
<1> SUFFICES ASSUME StackOK, IsFiniteSet(graph), [Next]_vars PROVE IsFiniteSet(graph')
    OBVIOUS
<1>1. StoreStep
    BY NextIsStoreStep
<1>2. CASE UNCHANGED graph \/ ClearAll
    BY <1>2, FS_EmptySet DEF ClearAll
<1>3. ASSUME NEW e \in Events, EmitStep(e) PROVE IsFiniteSet(graph')
  <2> DEFINE Added == {k \in DOMAIN e.parents :
                          \A r \in Refused(graph, e.parents, e.id) : k < r}
             edge == [i \in Added |-> <<e.parents[i], e.id>>]
             T == {<<e.parents[i], e.id>> : i \in Added}
  <2>1. DOMAIN e.parents = 1..Len(e.parents) /\ Len(e.parents) \in Nat
      BY EventTypes
  <2>2. IsFiniteSet(Added)
    <3>1. IsFiniteSet(1..Len(e.parents)) /\ Added \in SUBSET (1..Len(e.parents))
        BY <2>1, FS_Interval
    <3> QED  BY <3>1, FS_Subset
  <2>3. edge \in Surjection(Added, T)
      BY DEF Surjection
  <2>4. IsFiniteSet(T)
      BY <2>2, <2>3, FS_Surjection
  <2>5. graph' = graph \cup T
      BY <1>3 DEF EmitStep, AddEdges
  <2> QED  BY <2>4, <2>5, FS_Union
<1> QED  BY <1>1, <1>2, <1>3 DEF StoreStep

FiniteGraph == graph \in SUBSET Edges /\ IsFiniteSet(graph)

LEMMA NodesFinite ==
    ASSUME FiniteGraph
    PROVE  /\ IsFiniteSet(GraphNodes) /\ Cardinality(GraphNodes) \in Nat
           /\ GraphNodes \subseteq Ids
           /\ \A id : getParents(id) \in SUBSET GraphNodes
           /\ \A p, id : <<p, id>> \in graph <=> p \in getParents(id)
           /\ \A edge \in graph : edge = <<edge[1], edge[2]>> /\ edge[2] \in GraphNodes
           /\ \A x, y : x \in getParents(y) <=> y \in getChildren(x)
<1> DEFINE A == {edge[1] : edge \in graph}
           B == {edge[2] : edge \in graph}
<1>1. [edge \in graph |-> edge[1]] \in Surjection(graph, A)
    BY DEF Surjection
<1>2. [edge \in graph |-> edge[2]] \in Surjection(graph, B)
    BY DEF Surjection
<1>3. IsFiniteSet(A) /\ IsFiniteSet(B)
    BY <1>1, <1>2, FS_Surjection DEF FiniteGraph
<1>4. IsFiniteSet(GraphNodes) /\ Cardinality(GraphNodes) \in Nat
    BY <1>3, FS_Union, FS_CardinalityType DEF GraphNodes
<1>5. \A edge \in graph : edge = <<edge[1], edge[2]>> /\ edge[1] \in Ids /\ edge[2] \in Ids
    BY DEF FiniteGraph, Edges
<1>6. GraphNodes \subseteq Ids
    BY <1>5 DEF GraphNodes
<1>7. \A p, id : <<p, id>> \in graph => p \in GraphNodes /\ id \in GraphNodes
  <2> SUFFICES ASSUME NEW p, NEW id, <<p, id>> \in graph
               PROVE  p \in GraphNodes /\ id \in GraphNodes
      OBVIOUS
  <2>1. <<p, id>>[1] = p /\ <<p, id>>[2] = id
      OBVIOUS
  <2> QED  BY <2>1 DEF GraphNodes
<1>8. \A x, y : x \in getParents(y) <=> <<x, y>> \in graph
    BY <1>6, <1>7 DEF getParents
<1>9. \A x, y : y \in getChildren(x) <=> <<x, y>> \in graph
    BY <1>6, <1>7 DEF getChildren
<1>10. \A id : getParents(id) \in SUBSET GraphNodes
    BY <1>7, <1>8
<1>11. \A edge \in graph : edge[2] \in GraphNodes
    BY DEF GraphNodes
<1>12. \A x, y : x \in getParents(y) <=> y \in getChildren(x)
    BY <1>8, <1>9
<1> QED  BY <1>4, <1>5, <1>6, <1>8, <1>10, <1>11, <1>12

LEMMA DistinctCount ==
    ASSUME NEW S, NEW q \in Seq(S), Distinct(q)
    PROVE  IsFiniteSet(Range(q)) /\ Cardinality(Range(q)) = Len(q)
<1>1. q \in Bijection(1..Len(q), Range(q))
  <2>1. q \in [1..Len(q) -> Range(q)]
      BY DEF Range
  <2> QED  BY <2>1 DEF Bijection, Injection, Surjection, IsInjective, Distinct, Range
<1>2. IsFiniteSet(1..Len(q)) /\ Cardinality(1..Len(q)) = Len(q)
  <2>1. Len(q) \in Nat
      OBVIOUS
  <2> QED  BY <2>1, FS_Interval
<1>3. ExistsBijection(1..Len(q), Range(q))
    BY <1>1 DEF ExistsBijection
<1> QED  BY <1>2, <1>3, FS_Bijection

\* Whatever order the queue is filled in, it holds each node once.
LEMMA Enumerated ==
    ASSUME NEW S, IsFiniteSet(S)
    PROVE  SetToSeq(S) \in Seq(S) /\ Distinct(SetToSeq(S)) /\ Range(SetToSeq(S)) = S
<1> DEFINE n == Cardinality(S)
           q == CHOOSE f \in [1..n -> S] : IsInjective(f)
<1>1. n \in Nat /\ ExistsBijection(1..n, S)
    BY FS_CardinalityType
<1>2. \E f \in [1..n -> S] : IsInjective(f)
    BY <1>1 DEF ExistsBijection, Bijection, Injection, IsInjective
<1>3. q \in [1..n -> S] /\ IsInjective(q)
    BY <1>2
<1>4. SetToSeq(S) = q
    BY DEF SetToSeq
<1> HIDE DEF q
<1>5. IsFiniteSet(1..n) /\ Cardinality(1..n) = n
    BY <1>1, FS_Interval
<1>6. q \in Injection(1..n, S)
    BY <1>3 DEF Injection, IsInjective
<1>7. q \in Surjection(1..n, S)
    BY <1>5, <1>6, FS_Injection
<1>8. Range(q) = S
    BY <1>3, <1>7 DEF Range, Surjection
<1>9. q \in Seq(S)
    BY <1>1, <1>3, SeqDef
<1> QED  BY <1>3, <1>4, <1>8, <1>9 DEF Distinct, IsInjective

Accs == [queue : Seq(GraphNodes), inDegree : [GraphNodes -> Int], result : Seq(GraphNodes)]

\* The nodes in the order in which they are queued, and those that have left.
Order(acc) == acc.result \o acc.queue
Left(order, m) == {order[j] : j \in 1..m}

\* A node is queued when its parents have left, and counts those that have not.
Sorting(order, m, inDegree) ==
    /\ order \in Seq(GraphNodes) /\ m \in 0..Len(order)
    /\ Distinct(order)
    /\ Range(order) = {id \in GraphNodes : getParents(id) \subseteq Left(order, m)}
    /\ \A k \in DOMAIN order : \A p \in getParents(order[k]) : \E j \in 1..m : j < k /\ order[j] = p
    /\ \A id \in GraphNodes : inDegree[id] = Cardinality(getParents(id) \ Left(order, m))

SortingAcc(acc) == acc \in Accs /\ Sorting(Order(acc), Len(acc.result), acc.inDegree)

LEMMA StartSorting ==
    ASSUME FiniteGraph
    PROVE  SortingAcc(KahnStart)
<1> DEFINE roots == {id \in GraphNodes : getParents(id) = {}}
           q == SetToSeq(roots)
<1>1. IsFiniteSet(roots)
    BY NodesFinite, FS_Subset
<1>2. q \in Seq(roots) /\ Distinct(q) /\ Range(q) = roots
    BY <1>1, Enumerated
<1>3. KahnStart = [queue |-> q,
                   inDegree |-> [id \in GraphNodes |-> Cardinality(getParents(id))],
                   result |-> <<>>]
    BY DEF KahnStart
<1> HIDE DEF q
<1>4. \A id \in GraphNodes : Cardinality(getParents(id)) \in Int
    BY NodesFinite, FS_Subset, FS_CardinalityType
<1>5. q \in Seq(GraphNodes)
    BY <1>2
<1>6. KahnStart \in Accs
    BY <1>3, <1>4, <1>5 DEF Accs
<1>7. Order(KahnStart) = q /\ Len(KahnStart.result) = 0
    BY <1>3, <1>5 DEF Order
<1>8. Left(q, 0) = {}
    BY DEF Left
<1>9. \A k \in DOMAIN q : getParents(q[k]) = {}
  <2>1. \A k \in DOMAIN q : q[k] \in roots
      BY <1>2 DEF Range
  <2> QED  BY <2>1
<1>10. Sorting(q, 0, KahnStart.inDegree)
  <2>1. 0 \in 0..Len(q)
      BY <1>5
  <2>2. \A id \in GraphNodes : KahnStart.inDegree[id] = Cardinality(getParents(id) \ Left(q, 0))
    <3>1. \A id \in GraphNodes : getParents(id) \ Left(q, 0) = getParents(id)
        BY <1>8
    <3> QED  BY <1>3, <3>1
  <2>3. Range(q) = {id \in GraphNodes : getParents(id) \subseteq Left(q, 0)}
      BY <1>2, <1>8
  <2> QED  BY <1>2, <1>5, <1>9, <2>1, <2>2, <2>3 DEF Sorting
<1> QED  BY <1>6, <1>7, <1>10 DEF SortingAcc

\* st is s followed by t.
Joins(st, S, s, t) ==
    /\ st \in Seq(S) /\ Len(st) = Len(s) + Len(t)
    /\ DOMAIN st = 1..(Len(s) + Len(t))
    /\ \A k \in DOMAIN s : k \in DOMAIN st /\ st[k] = s[k]
    /\ \A k \in DOMAIN t : Len(s) + k \in DOMAIN st /\ st[Len(s) + k] = t[k]
    /\ \A k \in DOMAIN st : k \in DOMAIN s \/ \E i \in DOMAIN t : k = Len(s) + i

LEMMA Joined ==
    ASSUME NEW S, NEW s \in Seq(S), NEW t \in Seq(S)
    PROVE  Joins(s \o t, S, s, t)
<1> DEFINE st == s \o t
           m == Len(s)
           n == Len(t)
<1>0. m \in Nat /\ n \in Nat /\ DOMAIN s = 1..m /\ DOMAIN t = 1..n
    OBVIOUS
<1>1. /\ st \in Seq(S) /\ Len(st) = m + n
      /\ \A k \in 1..(m + n) : st[k] = IF k <= m THEN s[k] ELSE t[k - m]
    BY ConcatProperties
<1> HIDE DEF st
<1>2. DOMAIN st = 1..(m + n)
    BY <1>1
<1> HIDE DEF m, n
<1>3. ASSUME NEW k \in DOMAIN s
      PROVE  k \in DOMAIN st /\ st[k] = s[k]
  <2>1. k \in 1..(m + n) /\ k <= m
      BY <1>0
  <2> QED  BY <1>1, <1>2, <2>1
<1>4. ASSUME NEW k \in DOMAIN t
      PROVE  m + k \in DOMAIN st /\ st[m + k] = t[k]
  <2>1. m + k \in 1..(m + n) /\ ~(m + k <= m) /\ (m + k) - m = k
      BY <1>0
  <2>2. st[m + k] = t[(m + k) - m]
      BY <1>1, <2>1
  <2> QED  BY <1>2, <2>1, <2>2
<1>5. ASSUME NEW k \in DOMAIN st, k \notin DOMAIN s
      PROVE  \E i \in DOMAIN t : k = m + i
  <2>1. k - m \in DOMAIN t /\ k = m + (k - m)
      BY <1>0, <1>2, <1>5
  <2> QED  BY <2>1
<1>6. st \in Seq(S) /\ Len(st) = m + n
    BY <1>1
<1>7. Joins(st, S, s, t)
    BY <1>2, <1>3, <1>4, <1>5, <1>6 DEF Joins, m, n
<1> QED  BY <1>7 DEF st

Decreased(inDegree, x) ==
    [id \in GraphNodes |-> inDegree[id] - IF id \in getChildren(x) THEN 1 ELSE 0]

Freed(left, x) == SetToSeq({id \in getChildren(x) : left[id] = 0})

LEMMA QueueStep ==
    ASSUME FiniteGraph, NEW order, NEW m, NEW inDegree, Sorting(order, m, inDegree),
           m < Len(order),
           NEW left, left = Decreased(inDegree, order[m + 1]),
           NEW q, q = Freed(left, order[m + 1])
    PROVE  /\ q \in Seq(GraphNodes)
           /\ left \in [GraphNodes -> Int]
           /\ Sorting(order \o q, m + 1, left)
<1> DEFINE x == order[m + 1]
           P(id) == getParents(id)
           D == Left(order, m)
           E == Left(order, m + 1)
           ready == {id \in getChildren(x) : left[id] = 0}
           longer == order \o q
<1>0. /\ order \in Seq(GraphNodes) /\ m \in Nat /\ m < Len(order) /\ Distinct(order)
      /\ DOMAIN order = 1..Len(order) /\ Len(order) \in Nat /\ m + 1 \in DOMAIN order
      /\ x \in GraphNodes
    BY DEF Sorting
<1>1. E = D \cup {x} /\ x \notin D
  <2>1. 1..(m + 1) = (1..m) \cup {m + 1} /\ m + 1 \notin 1..m /\ 1..m \subseteq DOMAIN order
      BY <1>0
  <2>2. E = D \cup {x}
      BY <2>1 DEF Left
  <2>3. x \notin D
      BY <1>0, <2>1 DEF Left, Distinct
  <2> QED  BY <2>2, <2>3
<1> HIDE DEF D, E
<1>2. getChildren(x) \subseteq GraphNodes /\ \A id : id \in getChildren(x) <=> x \in P(id)
  <2>1. \A id : id \in getChildren(x) <=> x \in P(id)
      BY NodesFinite
  <2>2. ASSUME NEW id, x \in P(id) PROVE id \in GraphNodes
    <3>1. <<x, id>> \in graph /\ <<x, id>>[2] = id
        BY <2>2, NodesFinite
    <3> QED  BY <3>1, NodesFinite
  <2> QED  BY <2>1, <2>2
<1>3. ASSUME NEW id \in GraphNodes
      PROVE  left[id] = Cardinality(P(id) \ E) /\ left[id] \in Int
  <2>1. IsFiniteSet(P(id) \ D) /\ IsFiniteSet(P(id) \ E)
      BY NodesFinite, FS_Subset
  <2>2. inDegree[id] = Cardinality(P(id) \ D) /\ Cardinality(P(id) \ D) \in Nat
      BY <2>1, FS_CardinalityType DEF Sorting, D
  <2>3. P(id) \ E = (P(id) \ D) \ {x}
      BY <1>1
  <2>4. Cardinality((P(id) \ D) \ {x}) = IF x \in P(id) \ D THEN Cardinality(P(id) \ D) - 1
                                                       ELSE Cardinality(P(id) \ D)
      BY <2>1, FS_RemoveElement
  <2>5. x \in P(id) \ D <=> id \in getChildren(x)
      BY <1>1, <1>2
  <2>6. left[id] = inDegree[id] - IF id \in getChildren(x) THEN 1 ELSE 0
      BY DEF Decreased
  <2> HIDE DEF x, P
  <2> QED  BY ONLY <2>2, <2>3, <2>4, <2>5, <2>6
<1>4. left \in [GraphNodes -> Int]
    BY <1>3 DEF Decreased
<1>5. \A id : id \in ready <=> id \in GraphNodes /\ x \in P(id) /\ P(id) \subseteq E
  <2> SUFFICES ASSUME NEW id \in GraphNodes PROVE left[id] = 0 <=> P(id) \subseteq E
      BY <1>2
  <2>1. IsFiniteSet(P(id) \ E)
      BY NodesFinite, FS_Subset
  <2>2. Cardinality(P(id) \ E) = 0 <=> P(id) \ E = {}
      BY <2>1, FS_EmptySet
  <2> QED  BY <1>3, <2>2
<1>6. q \in Seq(ready) /\ Distinct(q) /\ Range(q) = ready
  <2>1. IsFiniteSet(ready)
      BY <1>5, NodesFinite, FS_Subset
  <2>2. q = SetToSeq(ready)
      BY DEF Freed
  <2> QED  BY <2>1, <2>2, Enumerated
<1> HIDE DEF ready
<1>7. q \in Seq(GraphNodes) /\ Len(q) \in Nat /\ DOMAIN q = 1..Len(q)
  <2>1. ready \subseteq GraphNodes
      BY <1>5
  <2> QED  BY <1>6, <2>1
<1>8. /\ longer \in Seq(GraphNodes) /\ Len(longer) = Len(order) + Len(q)
      /\ DOMAIN longer = 1..(Len(order) + Len(q))
      /\ \A k \in DOMAIN order : k \in DOMAIN longer /\ longer[k] = order[k]
      /\ \A k \in DOMAIN q : Len(order) + k \in DOMAIN longer /\ longer[Len(order) + k] = q[k]
      /\ \A k \in DOMAIN longer : k \in DOMAIN order \/ \E i \in DOMAIN q : k = Len(order) + i
  <2>1. Joins(longer, GraphNodes, order, q)
      BY <1>0, <1>7, Joined
  <2> HIDE DEF longer
  <2> QED  BY <2>1 DEF Joins
<1> HIDE DEF longer
<1>9. /\ Left(longer, m + 1) = E
      /\ \A j \in 1..(m + 1) : longer[j] = order[j]
  <2>1. 1..(m + 1) \subseteq DOMAIN order
      BY <1>0
  <2>2. ASSUME NEW j \in 1..(m + 1) PROVE longer[j] = order[j]
    <3>1. j \in DOMAIN order
        BY <2>1
    <3> QED  BY <1>8, <3>1
  <2> QED  BY <2>2 DEF Left, E
<1>10. Range(order) = {id \in GraphNodes : P(id) \subseteq D}
    BY DEF Sorting, D
<1>11. Range(longer) = Range(order) \cup ready
  <2>0. /\ \A i \in DOMAIN order : order[i] \in Range(order)
        /\ \A i \in DOMAIN q : q[i] \in ready
      BY <1>6 DEF Range
  <2>1. ASSUME NEW k \in DOMAIN longer PROVE longer[k] \in Range(order) \cup ready
    <3>1. CASE k \in DOMAIN order
        BY <1>8, <2>0, <3>1
    <3>2. CASE k \notin DOMAIN order
      <4>1. PICK i \in DOMAIN q : k = Len(order) + i
          BY <1>8, <3>2
      <4>2. longer[k] = q[i]
          BY <1>8, <4>1
      <4> QED  BY <2>0, <4>2
    <3> QED  BY <3>1, <3>2
  <2>2. Range(order) \subseteq Range(longer)
    <3>1. \A k \in DOMAIN order : order[k] \in Range(longer)
        BY <1>8 DEF Range
    <3> QED  BY <3>1 DEF Range
  <2>3. ready \subseteq Range(longer)
    <3>1. \A k \in DOMAIN q : q[k] \in Range(longer)
        BY <1>8 DEF Range
    <3> QED  BY <1>6, <3>1 DEF Range
  <2>4. Range(longer) \subseteq Range(order) \cup ready
      BY <2>1 DEF Range
  <2> QED  BY <2>2, <2>3, <2>4
<1>12. Range(longer) = {id \in GraphNodes : P(id) \subseteq E}
    BY <1>1, <1>5, <1>10, <1>11
<1>13. Range(order) \cap ready = {}
    BY <1>1, <1>5, <1>10
<1>14. Distinct(longer)
  <2>0. /\ \A i \in DOMAIN order : order[i] \in Range(order)
        /\ \A i \in DOMAIN q : q[i] \in ready
      BY <1>6 DEF Range
  <2> SUFFICES ASSUME NEW i \in DOMAIN longer, NEW k \in DOMAIN longer, longer[i] = longer[k]
               PROVE  i = k
      BY DEF Distinct
  <2>1. CASE i \in DOMAIN order /\ k \in DOMAIN order
      BY <1>0, <1>8, <2>1 DEF Distinct
  <2>2. CASE \E a, b \in DOMAIN q : i = Len(order) + a /\ k = Len(order) + b
    <3>1. PICK a \in DOMAIN q, b \in DOMAIN q : i = Len(order) + a /\ k = Len(order) + b
        BY <2>2
    <3>2. longer[i] = q[a] /\ longer[k] = q[b]
        BY <1>8, <3>1
    <3>3. q[a] = q[b]
        BY <3>2
    <3>4. a = b
        BY <1>6, <3>3 DEF Distinct
    <3> QED  BY <3>1, <3>4
  <2>3. CASE \/ i \in DOMAIN order /\ \E b \in DOMAIN q : k = Len(order) + b
             \/ k \in DOMAIN order /\ \E a \in DOMAIN q : i = Len(order) + a
      BY <1>8, <1>13, <2>0, <2>3
  <2> QED  BY <1>8, <2>1, <2>2, <2>3
<1>15. ASSUME NEW k \in DOMAIN longer, NEW p \in P(longer[k])
       PROVE  \E j \in 1..(m + 1) : j < k /\ longer[j] = p
  <2>1. CASE k \in DOMAIN order
    <3>1. PICK j \in 1..m : j < k /\ order[j] = p
        BY <1>8, <1>15, <2>1 DEF Sorting
    <3>2. j \in 1..(m + 1)
        BY <1>0
    <3> QED  BY <1>9, <3>1, <3>2
  <2>2. CASE k \notin DOMAIN order
    <3>1. PICK i \in DOMAIN q : k = Len(order) + i
        BY <1>8, <2>2
    <3>2. longer[k] \in ready
        BY <1>6, <1>8, <3>1 DEF Range
    <3>3. p \in E
        BY <1>5, <1>15, <3>2
    <3>4. PICK j \in 1..(m + 1) : order[j] = p
        BY <3>3 DEF E, Left
    <3>5. j < k
        BY <1>0, <1>7, <3>1
    <3> QED  BY <1>9, <3>4, <3>5
  <2> QED  BY <2>1, <2>2
<1>16. m + 1 \in 0..Len(longer)
    BY <1>0, <1>7, <1>8
<1>17. Sorting(longer, m + 1, left)
    BY <1>3, <1>8, <1>9, <1>12, <1>14, <1>15, <1>16 DEF Sorting
<1> QED  BY <1>4, <1>7, <1>17 DEF longer

\* Moving the head of one sequence to the end of another leaves them, end to
\* end, as they were.
LEMMA HeadMoves ==
    ASSUME NEW S, NEW r \in Seq(S), NEW s \in Seq(S), s # <<>>
    PROVE  /\ Append(r, Head(s)) \in Seq(S) /\ Tail(s) \in Seq(S)
           /\ Len(Append(r, Head(s))) = Len(r) + 1
           /\ Len(r) < Len(r \o s)
           /\ (r \o s)[Len(r) + 1] = Head(s)
           /\ Append(r, Head(s)) \o Tail(s) = r \o s
<1> DEFINE a == Append(r, Head(s))
           t == Tail(s)
           m == Len(r)
           n == Len(s)
<1>1. /\ t \in Seq(S) /\ Len(t) = n - 1 /\ n \in Nat /\ n > 0 /\ m \in Nat
      /\ Head(s) \in S /\ Head(s) = s[1]
      /\ \A i \in 1..(n - 1) : t[i] = s[i + 1]
    OBVIOUS
<1>2. /\ a \in Seq(S) /\ Len(a) = m + 1 /\ a[m + 1] = Head(s)
      /\ \A i \in 1..m : a[i] = r[i]
    BY <1>1, AppendProperties
<1>3. /\ r \o s \in Seq(S) /\ Len(r \o s) = m + n
      /\ \A i \in 1..(m + n) : (r \o s)[i] = IF i <= m THEN r[i] ELSE s[i - m]
    BY ConcatProperties
<1> HIDE DEF a, t
<1>4. /\ a \o t \in Seq(S) /\ Len(a \o t) = Len(a) + Len(t)
      /\ \A i \in 1..(Len(a) + Len(t)) : (a \o t)[i] = IF i <= Len(a) THEN a[i] ELSE t[i - Len(a)]
    BY <1>1, <1>2, ConcatProperties
<1> HIDE DEF m, n
<1>5. Len(a) + Len(t) = m + n
    BY <1>1, <1>2
<1>6. ASSUME NEW i \in 1..(m + n)
      PROVE  (a \o t)[i] = (r \o s)[i]
  <2>0. /\ (a \o t)[i] = IF i <= m + 1 THEN a[i] ELSE t[i - (m + 1)]
        /\ (r \o s)[i] = IF i <= m THEN r[i] ELSE s[i - m]
      BY <1>2, <1>3, <1>4, <1>5
  <2>1. CASE i <= m
    <3>1. i \in 1..m /\ i <= m + 1
        BY <1>1, <2>1
    <3> QED  BY <1>2, <2>0, <2>1, <3>1
  <2>2. CASE i = m + 1
    <3>1. i <= m + 1 /\ ~(i <= m) /\ i - m = 1
        BY <1>1, <2>2
    <3> QED  BY <1>1, <1>2, <2>0, <2>2, <3>1
  <2>3. CASE i > m + 1
    <3>1. /\ ~(i <= m + 1) /\ ~(i <= m) /\ i - (m + 1) \in 1..(n - 1)
          /\ (i - (m + 1)) + 1 = i - m
        BY <1>1, <2>3
    <3>2. t[i - (m + 1)] = s[(i - (m + 1)) + 1]
        BY <1>1, <3>1
    <3> QED  BY <2>0, <3>1, <3>2
  <2>4. i <= m \/ i = m + 1 \/ i > m + 1
      BY <1>1
  <2> QED  BY <2>1, <2>2, <2>3, <2>4
<1>7. a \o t = r \o s
  <2>1. Len(a \o t) = Len(r \o s) /\ \A i \in 1..Len(a \o t) : (a \o t)[i] = (r \o s)[i]
      BY <1>3, <1>4, <1>5, <1>6
  <2> QED  BY <1>3, <1>4, <2>1, SeqEqual
<1>8. m < Len(r \o s) /\ (r \o s)[m + 1] = Head(s)
  <2>1. m + 1 \in 1..(m + n) /\ ~(m + 1 <= m) /\ (m + 1) - m = 1
      BY <1>1
  <2>2. (r \o s)[m + 1] = s[(m + 1) - m]
      BY <1>3, <2>1
  <2> QED  BY <1>1, <1>3, <2>1, <2>2
<1> QED  BY <1>1, <1>2, <1>7, <1>8 DEF a, t, m

\* A turn takes one node off the queue.
LEMMA TurnSorting ==
    ASSUME FiniteGraph, NEW acc, SortingAcc(acc), acc.queue # <<>>
    PROVE  SortingAcc(KahnStep(acc)) /\ Len(KahnStep(acc).result) = Len(acc.result) + 1
<1> DEFINE r == acc.result
           s == acc.queue
           x == Head(s)
           left == Decreased(acc.inDegree, x)
           q == Freed(left, x)
           next == [queue |-> Tail(s) \o q, inDegree |-> left, result |-> Append(r, x)]
<1>1. r \in Seq(GraphNodes) /\ s \in Seq(GraphNodes) /\ s # <<>>
    BY DEF SortingAcc, Accs
<1>2. KahnStep(acc) = next
    BY DEF KahnStep, Decreased, Freed
<1>3. Sorting(Order(acc), Len(r), acc.inDegree)
    BY DEF SortingAcc
<1> HIDE DEF r, s
<1>4. /\ Append(r, x) \in Seq(GraphNodes) /\ Tail(s) \in Seq(GraphNodes)
      /\ Len(Append(r, x)) = Len(r) + 1
      /\ Len(r) < Len(r \o s)
      /\ (r \o s)[Len(r) + 1] = x
      /\ Append(r, x) \o Tail(s) = r \o s
    BY <1>1, HeadMoves
<1>5. Order(acc) = r \o s
    BY DEF Order, r, s
<1> HIDE DEF x
<1>6. /\ q \in Seq(GraphNodes) /\ left \in [GraphNodes -> Int]
      /\ Sorting((r \o s) \o q, Len(r) + 1, left)
  <2>1. left = Decreased(acc.inDegree, (r \o s)[Len(r) + 1]) /\ q = Freed(left, (r \o s)[Len(r) + 1])
      BY <1>4
  <2>2. Sorting(r \o s, Len(r), acc.inDegree) /\ Len(r) < Len(r \o s)
      BY <1>3, <1>4, <1>5
  <2> HIDE DEF left, q
  <2> QED  BY <2>1, <2>2, QueueStep
<1> HIDE DEF left, q
<1>7. Order(next) = (r \o s) \o q
  <2>1. Order(next) = Append(r, x) \o (Tail(s) \o q)
      BY DEF Order
  <2>2. ASSUME NEW a \in Seq(GraphNodes), NEW t \in Seq(GraphNodes)
        PROVE  (a \o t) \o q = a \o (t \o q)
    <3>1. q \in Seq(GraphNodes)
        BY <1>6
    <3> HIDE DEF next
    <3> QED  BY <3>1, ConcatAssociative
  <2> DEFINE a == Append(r, x)
             t == Tail(s)
  <2>3. a \in Seq(GraphNodes) /\ t \in Seq(GraphNodes) /\ a \o t = r \o s
      BY <1>4
  <2>4. Order(next) = a \o (t \o q)
      BY <2>1
  <2> HIDE DEF a, t, next
  <2>5. (a \o t) \o q = a \o (t \o q)
      BY <2>2, <2>3
  <2> QED  BY ONLY <2>3, <2>4, <2>5
<1>8. next \in Accs /\ Len(next.result) = Len(r) + 1 /\ next.inDegree = left
    BY <1>4, <1>6 DEF Accs
<1> QED  BY <1>2, <1>6, <1>7, <1>8 DEF SortingAcc, r

Sortings == {acc \in Accs : SortingAcc(acc)}

LEMMA SortLoop ==
    ASSUME FiniteGraph
    PROVE  \E f :
               /\ f \in [0..Cardinality(GraphNodes) -> Sortings]
               /\ f[0] = KahnStart
               /\ \A i \in 1..Cardinality(GraphNodes) : f[i] = KahnTurn(f[i - 1])
               /\ topologicalSort = f[Cardinality(GraphNodes)].result
<1> DEFINE n == Cardinality(GraphNodes)
           F == [i \in 1..n |-> [s \in Sortings |-> KahnTurn(s)]]
           Run(g) == [i \in 0..n |-> IF i = 0 THEN KahnStart ELSE KahnTurn(g[i - 1])]
<1>0. n \in Nat
    BY NodesFinite
<1>i. KahnStart \in Sortings
    BY StartSorting DEF Sortings, SortingAcc
<1>1. \A s \in Sortings : KahnTurn(s) \in Sortings
    BY TurnSorting DEF Sortings, KahnTurn, SortingAcc
<1>2. F \in [1..n -> [Sortings -> Sortings]]
    BY <1>1
<1>3. \A i \in 1..n, s \in Sortings : F[i][s] = KahnTurn(s)
    OBVIOUS
<1> HIDE DEF F, n
<1>4. PICK f : IsRun(f, n, Sortings, KahnStart, F)
    BY <1>0, <1>i, <1>2, LoopExists
<1> USE DEF IsRun
<1>5. \A i \in 1..n : f[i] = KahnTurn(f[i - 1])
  <2>1. \A i \in 1..n : f[i - 1] \in Sortings
      BY <1>0, <1>4
  <2> QED  BY <1>3, <1>4, <2>1
<1>6. f = Run(f)
  <2>1. \A i \in 0..n : f[i] = Run(f)[i]
      BY <1>0, <1>4, <1>5
  <2> QED  BY <1>4, <2>1
<1> DEFINE g == CHOOSE h : h = Run(h)
<1>7. g = Run(g)
    BY <1>6
<1>8. topologicalSort = g[n].result
    BY DEF topologicalSort, n
<1> HIDE DEF g
<1>9. \A i \in 0..n : g[i] = IF i = 0 THEN KahnStart ELSE KahnTurn(g[i - 1])
    BY <1>7
<1>10. SameTurns(f, g, n)
  <2>1. f[0] = g[0]
      BY <1>0, <1>4, <1>9
  <2>2. \A i \in 1..n : g[i] = KahnTurn(g[i - 1])
      BY <1>0, <1>9
  <2> QED  BY <1>5, <2>1, <2>2 DEF SameTurns
<1>11. topologicalSort = f[n].result
    BY <1>0, <1>8, <1>10, LoopUnique
<1> QED  BY <1>4, <1>5, <1>11 DEF n

\* What the sort returns, whether or not it throws.
Sorted(q) ==
    /\ q \in Seq(GraphNodes)
    /\ Distinct(q)
    /\ Range(q) = {id \in GraphNodes : getParents(id) \subseteq Range(q)}
    /\ \A k \in DOMAIN q : \A p \in getParents(q[k]) : \E j \in DOMAIN q : j < k /\ q[j] = p

\* There are turns enough: each node is queued once at most.
LEMMA QueueEmpties ==
    ASSUME FiniteGraph
    PROVE  Sorted(topologicalSort)
<1> DEFINE n == Cardinality(GraphNodes)
<1>0. n \in Nat
    BY NodesFinite
<1>1. PICK f : /\ f \in [0..n -> Sortings]
               /\ f[0] = KahnStart
               /\ \A i \in 1..n : f[i] = KahnTurn(f[i - 1])
               /\ topologicalSort = f[n].result
    BY SortLoop
<1> DEFINE T == {m \in Nat : m <= n => f[m].queue = <<>> \/ Len(f[m].result) = m}
<1>2. 0 \in T
    BY <1>1 DEF KahnStart
<1>3. ASSUME NEW m \in Nat, m \in T PROVE m + 1 \in T
  <2>1. CASE m + 1 <= n
    <3>1. m + 1 \in 1..n /\ (m + 1) - 1 = m /\ m <= n /\ m \in 0..n
        BY <1>0, <2>1
    <3>2. f[m + 1] = KahnTurn(f[m]) /\ SortingAcc(f[m])
        BY <1>1, <3>1 DEF Sortings
    <3>3. CASE f[m].queue = <<>>
        BY <3>2, <3>3 DEF KahnTurn
    <3>4. CASE f[m].queue # <<>>
      <4>1. f[m + 1] = KahnStep(f[m]) /\ Len(f[m].result) = m
          BY <1>3, <3>1, <3>2, <3>4 DEF KahnTurn
      <4> QED  BY <3>2, <3>4, <4>1, TurnSorting
    <3> QED  BY <3>3, <3>4
  <2>2. CASE ~(m + 1 <= n)
      BY <2>2
  <2> QED  BY <2>1, <2>2
<1> DEFINE r == f[n].result
           s == f[n].queue
<1>4. s = <<>> \/ Len(r) = n
  <2> HIDE DEF T
  <2>1. n \in T
      BY <1>0, <1>2, <1>3, Induction
  <2> QED  BY <1>0, <2>1 DEF T
<1>5. /\ r \in Seq(GraphNodes) /\ s \in Seq(GraphNodes)
      /\ Sorting(r \o s, Len(r), f[n].inDegree)
    BY <1>0, <1>1 DEF Sortings, SortingAcc, Accs, Order
<1>6. s = <<>>
  <2>1. Cardinality(Range(r \o s)) = Len(r \o s)
      BY <1>5, DistinctCount DEF Sorting
  <2>2. Range(r \o s) \in SUBSET GraphNodes
      BY <1>5 DEF Sorting
  <2>3. Len(r \o s) <= n
      BY <2>1, <2>2, NodesFinite, FS_Subset
  <2>4. Len(r \o s) = Len(r) + Len(s) /\ Len(r) \in Nat /\ Len(s) \in Nat
      BY <1>5, ConcatProperties
  <2>5. Len(r) = n => Len(s) = 0
      BY <1>0, <2>3, <2>4
  <2> QED  BY <1>4, <1>5, <2>5, EmptySeq
<1>7. r \o s = r
    BY <1>5, <1>6
<1>8. Left(r, Len(r)) = Range(r) /\ DOMAIN r = 1..Len(r)
    BY <1>5 DEF Left, Range
<1> HIDE DEF r
<1>9. Sorted(r)
    BY <1>5, <1>7, <1>8 DEF Sorting, Sorted
<1> QED  BY <1>1, <1>9 DEF r

\* A node that is its own parent is never queued.
LEMMA SelfEdgeThrows ==
    ASSUME FiniteGraph, NEW q, Sorted(q), NEW x, <<x, x>> \in graph
    PROVE  Throws(q)
<1>1. x \in getParents(x) /\ x \in GraphNodes
  <2>1. <<x, x>>[2] = x
      OBVIOUS
  <2> QED  BY <2>1, NodesFinite
<1>2. x \notin Range(q)
  <2> SUFFICES ASSUME NEW k \in DOMAIN q, q[k] = x PROVE FALSE
      BY DEF Range
  <2>1. PICK j \in DOMAIN q : j < k /\ q[j] = x
      BY <1>1 DEF Sorted
  <2>2. j = k /\ k \in 1..Len(q)
      BY <2>1 DEF Sorted, Distinct
  <2> QED  BY <2>1, <2>2
<1>3. Range(q) \in SUBSET GraphNodes /\ Range(q) # GraphNodes
    BY <1>1, <1>2 DEF Sorted
<1>4. Cardinality(Range(q)) = Len(q)
    BY DistinctCount DEF Sorted
<1>5. Cardinality(GraphNodes) # Cardinality(Range(q))
    BY <1>3, NodesFinite, FS_Subset
<1> QED  BY <1>4, <1>5 DEF Throws

\* Of nodes that are never queued each has another as a parent, so that two of
\* them would reach each other.
LEMMA EveryNodeSorted ==
    ASSUME FiniteGraph, NoMutual(graph), NEW q, Sorted(q), \A x \in Ids : <<x, x>> \notin graph
    PROVE  Range(q) = GraphNodes
<1> DEFINE U == GraphNodes \ Range(q)
           A(x) == {y \in U : IsAncestorOf(graph, y, x)}
           Sizes == {Cardinality(A(x)) : x \in U}
<1> SUFFICES ASSUME U # {} PROVE FALSE
    BY DEF Sorted
<1>1. U \subseteq Ids /\ IsFiniteSet(U) /\ graph \in SUBSET Edges
    BY NodesFinite, FS_Subset DEF FiniteGraph
<1>2. \A x \in U : A(x) \in SUBSET U /\ IsFiniteSet(A(x)) /\ Cardinality(A(x)) \in Nat
    BY <1>1, FS_Subset, FS_CardinalityType
<1>3. PICK x \in U : \A y \in U : Cardinality(A(x)) <= Cardinality(A(y))
  <2> HIDE DEF A, U
  <2>1. Sizes \in SUBSET Nat /\ Sizes # {}
      BY <1>2
  <2>2. PICK c \in Sizes : \A d \in Sizes : c <= d
      BY <2>1, Least
  <2> QED  BY <2>2
<1>4. PICK p \in U : <<p, x>> \in graph
  <2>1. ~(getParents(x) \subseteq Range(q))
      BY DEF Sorted
  <2> QED  BY <2>1, NodesFinite
<1>5. p # x /\ p \in Ids /\ x \in Ids
    BY <1>1, <1>4
<1>6. x \in Reach(graph, p)
  <2>1. p \in Reach(graph, p) /\ Closed(graph, Reach(graph, p))
      BY <1>1, <1>5, ReachIsLeast
  <2>2. <<p, x>>[1] = p /\ <<p, x>>[2] = x
      OBVIOUS
  <2> QED  BY <1>4, <2>1, <2>2 DEF Closed
<1>7. p \in A(x)
    BY <1>5, <1>6, AncestorIsReach
<1>8. p \notin A(p)
    BY DEF IsAncestorOf
<1>9. ASSUME NEW y \in A(p) PROVE y \in A(x)
  <2>1. y \in Ids /\ y # p /\ p \in Reach(graph, y)
      BY <1>1, <1>5, <1>9, AncestorIsReach
  <2>2. x \in Reach(graph, y)
      BY <1>1, <1>6, <2>1, ReachIsTransitive
  <2>3. y # x
    <3> SUFFICES ASSUME y = x PROVE FALSE
        OBVIOUS
    <3>1. IsAncestorOf(graph, p, x) /\ IsAncestorOf(graph, x, p)
        BY <1>5, <1>6, <2>1, AncestorIsReach
    <3> QED  BY <1>5, <3>1 DEF NoMutual
  <2> QED  BY <1>5, <1>9, <2>1, <2>2, <2>3, AncestorIsReach
<1>10. A(p) \in SUBSET A(x) /\ A(p) # A(x)
    BY <1>7, <1>8, <1>9
<1> HIDE DEF A
<1>11. Cardinality(A(p)) <= Cardinality(A(x)) /\ Cardinality(A(x)) # Cardinality(A(p))
    BY <1>2, <1>10, FS_Subset
<1> QED  BY <1>2, <1>3, <1>11

\* The sort fails on a graph with a self-edge, and only on such: whatever edges
\* failed emits left, every other one is sorted with parents first.
THEOREM SortFailsOnlyOnSelfEdgesHolds == Spec => []SortFailsOnlyOnSelfEdges
<1>1. Init => StackOK /\ IsFiniteSet(graph)
    BY InitStackOK, FS_EmptySet DEF Init
<1>2. (StackOK /\ IsFiniteSet(graph)) /\ [Next]_vars => (StackOK /\ IsFiniteSet(graph))'
    BY NextStackOK, NextFinite
<1>3. ASSUME FiniteGraph, NoMutual(graph) PROVE SortFailsOnlyOnSelfEdges
  <2> DEFINE q == topologicalSort
  <2>0. Sorted(q)
      BY <1>3, QueueEmpties
  <2> HIDE DEF q
  <2>1. CASE \E x \in Ids : <<x, x>> \in graph
    <3>1. Throws(q)
        BY <1>3, <2>0, <2>1, SelfEdgeThrows
    <3> QED  BY <2>1, <3>1 DEF SortFailsOnlyOnSelfEdges, q
  <2>2. CASE ~\E x \in Ids : <<x, x>> \in graph
    <3>1. Range(q) = GraphNodes
        BY <1>3, <2>0, <2>2, EveryNodeSorted
    <3>2. ~Throws(q)
        BY <2>0, <3>1, DistinctCount DEF Sorted, Throws
    <3>3. ASSUME NEW edge \in graph
          PROVE  \E i, k \in DOMAIN q : i < k /\ edge = <<q[i], q[k]>>
      <4>1. edge = <<edge[1], edge[2]>> /\ edge[2] \in GraphNodes /\ edge[1] \in getParents(edge[2])
          BY <1>3, NodesFinite
      <4>2. PICK k \in DOMAIN q : q[k] = edge[2]
          BY <3>1, <4>1 DEF Range
      <4>3. PICK i \in DOMAIN q : i < k /\ q[i] = edge[1]
          BY <2>0, <4>1, <4>2 DEF Sorted
      <4> QED  BY <4>1, <4>2, <4>3
    <3> QED  BY <2>2, <3>2, <3>3 DEF SortFailsOnlyOnSelfEdges, q
  <2> QED  BY <2>1, <2>2
<1>4. NoMutualAncestors <=> NoMutual(graph)
    BY DEF NoMutualAncestors, NoMutual
<1>5. (StackOK /\ IsFiniteSet(graph)) /\ NoMutualAncestors => SortFailsOnlyOnSelfEdges
    BY <1>3, <1>4 DEF StackOK, TypeOK, FiniteGraph
<1> QED  BY <1>1, <1>2, <1>5, NoMutualAncestorsHolds, PTL DEF Spec

-----------------------------------------------------------------------------
(* Imports.                                                                *)

\* A history that can be emitted again, event by event.
Sound(h) ==
    /\ \A i \in DOMAIN h : h[i].defect \in {"none", "mismatch"}
    /\ \A i \in DOMAIN h : ParentIds(h[i]) \subseteq {h[k].id : k \in 1..(i - 1)}
    /\ \A i, k \in DOMAIN h : h[i].id = h[k].id => i = k

IsClean(f) == f.kind = "import" /\ f.run = "clean"

\* What is left of an import, f, completes the history h with state s to one
\* that replays to the state that was exported.
Completes(f, h, s) ==
    /\ Sound(h \o f.events)
    /\ ~ReplayThrows(h \o f.events)
    /\ f.expected = Replay(h \o f.events)
    /\ s = Replay(h)

CleanOK(f) == Completes(f, history, state)

BelowSpoiled ==
    \A i, k \in DOMAIN stack : i < k /\ stack[i].kind = "import" => ~IsClean(stack[k])

ExportOK ==
    /\ Sound(exported.history)
    /\ ReplayThrows(exported.history) \/ Replay(exported.history) = exported.state

CleanImports == \A i \in DOMAIN stack : IsClean(stack[i]) => CleanOK(stack[i])

\* Beside soundness: at most one import is undisturbed, the one called last,
\* and it has yet to emit the rest of what was exported.
ImportsInv == Sound(history) /\ ExportOK /\ BelowSpoiled /\ CleanImports

LEMMA SoundAppend ==
    ASSUME NEW h \in Seq(Events), Sound(h), NEW e \in Events, e.defect \in {"none", "mismatch"},
           ParentIds(e) \subseteq {h[k].id : k \in DOMAIN h},
           e.id \notin {h[k].id : k \in DOMAIN h}
    PROVE  Sound(Append(h, e))
<1> DEFINE new == Append(h, e)
<1>1. /\ Len(h) \in Nat /\ DOMAIN h = 1..Len(h)
      /\ \A i \in DOMAIN h : new[i] = h[i]
      /\ new[Len(h) + 1] = e
      /\ \A i \in DOMAIN new : i \in DOMAIN h \/ i = Len(h) + 1
    BY AppendedHistory
<1> HIDE DEF new
<1>2. ASSUME NEW i \in DOMAIN new
      PROVE  /\ new[i].defect \in {"none", "mismatch"}
             /\ ParentIds(new[i]) \subseteq {new[k].id : k \in 1..(i - 1)}
  <2>1. CASE i \in DOMAIN h
    <3>1. \A k \in 1..(i - 1) : new[k] = h[k]
        BY <1>1, <2>1
    <3>2. ParentIds(h[i]) \subseteq {h[k].id : k \in 1..(i - 1)} /\ h[i].defect \in {"none", "mismatch"}
        BY <2>1 DEF Sound
    <3> QED  BY <1>1, <2>1, <3>1, <3>2
  <2>2. CASE i = Len(h) + 1
    <3>1. 1..(i - 1) = DOMAIN h /\ new[i] = e
        BY <1>1, <2>2
    <3>2. {new[k].id : k \in 1..(i - 1)} = {h[k].id : k \in DOMAIN h}
        BY <1>1, <3>1
    <3> QED  BY <3>1, <3>2
  <2> QED  BY <1>1, <2>1, <2>2
<1>3. \A i, k \in DOMAIN new : new[i].id = new[k].id => i = k
  <2>1. \A i, k \in DOMAIN h : h[i].id = h[k].id => i = k
      BY DEF Sound
  <2>2. \A i \in DOMAIN h : h[i].id # e.id
      OBVIOUS
  <2> QED  BY <1>1, <2>1, <2>2
<1> QED  BY <1>2, <1>3 DEF Sound, new

LEMMA NextSound == StackOK /\ Sound(history) /\ [Next]_vars => Sound(history')
<1> SUFFICES ASSUME StackOK, Sound(history), [Next]_vars PROVE Sound(history')
    OBVIOUS
<1>1. StoreStep /\ history \in Seq(Events)
    BY NextIsStoreStep DEF StackOK, TypeOK
<1>2. CASE UNCHANGED history
    BY <1>2
<1>3. CASE history' = <<>>
    BY <1>3 DEF Sound
<1>4. ASSUME NEW e \in Events, EmitAppends(e) PROVE Sound(history')
    BY <1>1, <1>4, SoundAppend DEF EmitAppends, ReferencesExist, Stored
<1> QED  BY <1>1, <1>2, <1>3, <1>4 DEF StoreStep, ClearAll, EmitStep

\* Moving the next event of an import to the end of the history.
LEMMA MoveHead ==
    ASSUME NEW h \in Seq(Events), NEW rest \in Seq(Events), rest # <<>>
    PROVE  /\ Head(rest) \in Events /\ Tail(rest) \in Seq(Events)
           /\ h \o rest \in Seq(Events)
           /\ Append(h, Head(rest)) \o Tail(rest) = h \o rest
           /\ Len(h) + 1 \in DOMAIN (h \o rest)
           /\ (h \o rest)[Len(h) + 1] = Head(rest)
           /\ \A i \in DOMAIN h : i \in DOMAIN (h \o rest) /\ (h \o rest)[i] = h[i]
<1> DEFINE a == Append(h, Head(rest))
           n == Len(h)
           m == Len(rest)
<1>0. n \in Nat /\ m \in Nat /\ m > 0 /\ DOMAIN h = 1..n
    BY EmptySeq
<1>1. /\ Head(rest) = rest[1] /\ Head(rest) \in Events
      /\ Tail(rest) \in Seq(Events) /\ Len(Tail(rest)) = m - 1
      /\ \A i \in 1..(m - 1) : Tail(rest)[i] = rest[i + 1]
    BY HeadTailProperties
<1>2. /\ a \in Seq(Events) /\ Len(a) = n + 1
      /\ \A i \in 1..n : a[i] = h[i]
      /\ a[n + 1] = rest[1]
    BY <1>1, AppendedHistory
<1> DEFINE all == h \o rest
           moved == a \o Tail(rest)
<1>3. /\ all \in Seq(Events) /\ Len(all) = n + m
      /\ \A i \in 1..(n + m) : all[i] = IF i <= n THEN h[i] ELSE rest[i - n]
    BY ConcatProperties
<1> DEFINE b == Tail(rest)
<1> HIDE DEF a, b, n, m
<1>4. /\ moved \in Seq(Events) /\ Len(moved) = n + m
      /\ \A i \in 1..(n + m) : moved[i] = IF i <= n + 1 THEN a[i] ELSE b[i - (n + 1)]
  <2>1. a \in Seq(Events) /\ b \in Seq(Events) /\ Len(a) = n + 1 /\ Len(b) = m - 1
      BY <1>1, <1>2 DEF b
  <2>2. /\ a \o b \in Seq(Events) /\ Len(a \o b) = Len(a) + Len(b)
        /\ \A i \in 1..(Len(a) + Len(b)) :
               (a \o b)[i] = IF i <= Len(a) THEN a[i] ELSE b[i - Len(a)]
      BY <2>1, ConcatProperties
  <2>3. Len(a) + Len(b) = n + m
      BY <1>0, <2>1
  <2>4. moved = a \o b
      BY DEF a, b
  <2> QED  BY <2>1, <2>2, <2>3, <2>4
<1> HIDE DEF all, moved
<1>5. ASSUME NEW i \in 1..(n + m) PROVE moved[i] = all[i]
  <2>1. CASE i <= n
      BY <1>0, <1>2, <1>3, <1>4, <2>1
  <2>2. CASE i = n + 1
      BY <1>0, <1>2, <1>3, <1>4, <2>2
  <2>3. CASE i > n + 1
    <3>1. i - (n + 1) \in 1..(m - 1) /\ (i - (n + 1)) + 1 = i - n
        BY <1>0, <2>3
    <3>2. Tail(rest)[i - (n + 1)] = rest[i - n]
        BY <1>1, <3>1
    <3>3. ~(i <= n) /\ ~(i <= n + 1)
        BY <1>0, <2>3
    <3> QED  BY <1>3, <1>4, <3>2, <3>3 DEF b
  <2> QED  BY <1>0, <2>1, <2>2, <2>3
<1>6. moved = all
  <2> QED  BY <1>3, <1>4, <1>5, SeqEqual
<1>7. all[n + 1] = rest[1] /\ n + 1 \in DOMAIN all
    BY <1>0, <1>3
<1>8. \A i \in DOMAIN h : i \in DOMAIN all /\ all[i] = h[i]
    BY <1>0, <1>3
<1> QED  BY <1>1, <1>3, <1>6, <1>7, <1>8 DEF a, all, moved, n

LEMMA ReplayAppend ==
    ASSUME NEW h \in Seq(Events), NEW e \in Events
    PROVE  /\ Replay(h) \in Seq(Ids)
           /\ Replay(Append(h, e)) = Append(Replay(h), e.id)
<1> DEFINE n == Len(h)
           r == Replay(h)
<1>1. /\ n \in Nat /\ DOMAIN h = 1..n
      /\ DOMAIN Append(h, e) = 1..(n + 1)
      /\ \A i \in 1..n : Append(h, e)[i] = h[i]
      /\ Append(h, e)[n + 1] = e
    BY AppendedHistory
<1>2. \A i \in 1..n : h[i].id \in Ids
    BY <1>1, EventTypes
<1>3. /\ r \in Seq(Ids) /\ Len(r) = n /\ e.id \in Ids
      /\ \A i \in 1..n : r[i] = h[i].id
    BY <1>1, <1>2, EventTypes DEF Replay
<1> HIDE DEF n, r
<1>4. /\ Append(r, e.id) \in Seq(Ids) /\ Len(Append(r, e.id)) = n + 1
      /\ \A i \in 1..n : Append(r, e.id)[i] = r[i]
      /\ Append(r, e.id)[n + 1] = e.id
    BY <1>3, AppendProperties
<1>5. Append(r, e.id) = [i \in 1..(n + 1) |-> Append(r, e.id)[i]]
    BY <1>1, <1>4
<1>6. \A i \in 1..(n + 1) : Append(r, e.id)[i] = Append(h, e)[i].id
    BY <1>1, <1>3, <1>4
<1>7. Replay(Append(h, e)) = [i \in 1..(n + 1) |-> Append(h, e)[i].id]
    BY <1>1 DEF Replay
<1> QED  BY <1>3, <1>5, <1>6, <1>7 DEF r

\* A turn of an undisturbed import emits its event: no check of emit fails.
LEMMA CleanEmit ==
    ASSUME TypeOK, GraphMatchesStore, NEW f \in Frames, f.events # <<>>, CleanOK(f),
           NEW caller, NEW unwound, EmitOutcome(Head(f.events), caller, unwound)
    PROVE  /\ stack' = <<NotifyFrame(subs)>> \o caller
           /\ Completes([f EXCEPT !.events = Tail(@)], history', state')
<1> DEFINE e == Head(f.events)
           all == history \o f.events
           n == Len(history)
           g == [f EXCEPT !.events = Tail(@)]
<1>0. /\ history \in Seq(Events) /\ f.events \in Seq(Events) /\ f.events # <<>>
      /\ n \in Nat /\ DOMAIN history = 1..n
    BY DEF TypeOK, Frames
<1>1. /\ e \in Events /\ Tail(f.events) \in Seq(Events) /\ all \in Seq(Events)
      /\ Append(history, e) \o Tail(f.events) = all
      /\ n + 1 \in DOMAIN all /\ all[n + 1] = e
      /\ \A i \in DOMAIN history : i \in DOMAIN all /\ all[i] = history[i]
    BY <1>0, MoveHead
<1>2. /\ Sound(all) /\ ~ReplayThrows(all) /\ f.expected = Replay(all)
      /\ state = Replay(history)
    BY DEF CleanOK, Completes
<1> HIDE DEF e, all, n
<1>3. {all[k].id : k \in 1..((n + 1) - 1)} = Stored
  <2>1. 1..((n + 1) - 1) = DOMAIN history
      BY <1>0
  <2> QED  BY <1>1, <2>1 DEF Stored
<1>4. e.defect \in {"none", "mismatch"} /\ ReferencesExist(e)
  <2>1. ParentIds(all[n + 1]) \subseteq {all[k].id : k \in 1..((n + 1) - 1)}
      BY <1>1, <1>2 DEF Sound
  <2> QED  BY <1>1, <1>2, <1>3, <2>1 DEF Sound, ReferencesExist
<1>5. e.id \notin Stored
  <2> SUFFICES ASSUME NEW i \in DOMAIN history, history[i].id = e.id PROVE FALSE
      BY DEF Stored
  <2>1. i \in DOMAIN all /\ all[i].id = all[n + 1].id
      BY <1>1
  <2>2. i = n + 1
      BY <1>1, <1>2, <2>1 DEF Sound
  <2> QED  BY <1>0, <2>2
<1>6. ~ReducerThrows(state, e)
  <2>1. Needs[all[n + 1].id] \subseteq {all[k].id : k \in 1..((n + 1) - 1)}
      BY <1>1, <1>2 DEF ReplayThrows
  <2>2. {state[i] : i \in DOMAIN state} = Stored
      BY <1>2 DEF Replay, Stored
  <2> QED  BY <1>1, <1>3, <2>1, <2>2 DEF ReducerThrows
<1>7. Refused(graph, e.parents, e.id) = {}
  <2> SUFFICES ASSUME NEW i \in DOMAIN e.parents, IsAncestorOf(graph, e.id, e.parents[i])
               PROVE  FALSE
      BY DEF Refused, WouldCreateCycle
  <2>1. e.id # e.parents[i] /\ e.id \in Ids
      BY <1>1, EventTypes DEF IsAncestorOf
  <2>2. {e.id} \in SUBSET Ids /\ Closed(graph, {e.id})
      BY <1>5, <2>1 DEF Closed, GraphMatchesStore
  <2>3. e.parents[i] \in {e.id}
      BY <2>2 DEF IsAncestorOf
  <2> QED  BY <2>1, <2>3
<1>8. EmitReduced(e, caller)
    BY <1>4, <1>5, <1>6, <1>7 DEF EmitOutcome, EmitRejected, EmitNotAppended, EmitNotReduced, e
<1>9. /\ history' = Append(history, e) /\ state' = Append(state, e.id)
      /\ stack' = <<NotifyFrame(subs)>> \o caller
    BY <1>8 DEF EmitReduced, EmitAppends, Reduce
<1>10. state' = Replay(history')
    BY <1>0, <1>1, <1>2, <1>9, ReplayAppend
<1>11. g.events = Tail(f.events) /\ g.expected = f.expected
    BY DEF Frames
<1> HIDE DEF g
<1>12. history' \o g.events = all
    BY <1>1, <1>9, <1>11
<1>13. Completes(g, history', state')
    BY <1>2, <1>10, <1>11, <1>12 DEF CleanOK, Completes
<1> QED  BY <1>9, <1>13 DEF g

\* Frames move on the stack, or lose a subscriber; history and state stay.
LEMMA FramesShift ==
    ASSUME ImportsInv, stack \in Seq(Frames), NEW d \in Int,
           UNCHANGED <<history, state>>, stack' \in Seq(Frames),
           \A i \in DOMAIN stack' : stack'[i].kind = "import" =>
               /\ i + d \in DOMAIN stack
               /\ stack'[i].kind = stack[i + d].kind
               /\ stack'[i].run = stack[i + d].run
               /\ stack'[i].events = stack[i + d].events
               /\ stack'[i].expected = stack[i + d].expected
    PROVE  BelowSpoiled' /\ CleanImports'
<1>1. ASSUME NEW i \in DOMAIN stack', NEW k \in DOMAIN stack',
             i < k, stack'[i].kind = "import", IsClean(stack'[k])
      PROVE  FALSE
  <2>1. i \in Int /\ k \in Int
      OBVIOUS
  <2>2. /\ i + d \in DOMAIN stack /\ k + d \in DOMAIN stack
        /\ stack[i + d].kind = "import" /\ IsClean(stack[k + d])
      BY <1>1 DEF IsClean
  <2>3. i + d < k + d
      BY <1>1, <2>1
  <2> QED  BY <2>2, <2>3 DEF ImportsInv, BelowSpoiled
<1>2. ASSUME NEW i \in DOMAIN stack', IsClean(stack'[i])
      PROVE  CleanOK(stack[i])'
  <2>1. i + d \in DOMAIN stack /\ IsClean(stack[i + d])
      BY <1>2 DEF IsClean
  <2>2. CleanOK(stack[i + d])
      BY <2>1 DEF ImportsInv, CleanImports
  <2>3. stack'[i].events = stack[i + d].events /\ stack'[i].expected = stack[i + d].expected
      BY <1>2 DEF IsClean
  <2> QED  BY <2>2, <2>3 DEF CleanOK, Completes
<1> QED  BY <1>1, <1>2 DEF BelowSpoiled, CleanImports

NoClean(st) == \A i \in DOMAIN st : ~IsClean(st[i])

LEMMA PushedFrame ==
    ASSUME NEW n \in Frames, NEW t \in Seq(Frames)
    PROVE  /\ <<n>> \o t \in Seq(Frames)
           /\ DOMAIN (<<n>> \o t) = 1..(Len(t) + 1)
           /\ DOMAIN t = 1..Len(t) /\ Len(t) \in Nat
           /\ (<<n>> \o t)[1] = n
           /\ \A i \in 2..(Len(t) + 1) : i - 1 \in DOMAIN t /\ (<<n>> \o t)[i] = t[i - 1]
<1>1. <<n>> \in Seq(Frames) /\ Len(<<n>>) = 1 /\ <<n>>[1] = n
    OBVIOUS
<1>2. /\ <<n>> \o t \in Seq(Frames)
      /\ Len(<<n>> \o t) = 1 + Len(t)
      /\ \A i \in 1..(1 + Len(t)) :
             (<<n>> \o t)[i] = IF i <= 1 THEN <<n>>[i] ELSE t[i - 1]
    BY <1>1, ConcatProperties
<1>3. Len(t) \in Nat /\ DOMAIN t = 1..Len(t)
    OBVIOUS
<1> DEFINE new == <<n>> \o t
<1> HIDE DEF new
<1>4. /\ new \in Seq(Frames) /\ Len(new) = 1 + Len(t)
      /\ \A i \in 1..(1 + Len(t)) : new[i] = IF i <= 1 THEN <<n>>[i] ELSE t[i - 1]
    BY <1>2 DEF new
<1>5. DOMAIN new = 1..(Len(t) + 1) /\ new[1] = n
    BY <1>1, <1>3, <1>4
<1>6. \A i \in 2..(Len(t) + 1) : i - 1 \in DOMAIN t /\ new[i] = t[i - 1]
    BY <1>3, <1>4
<1> QED  BY <1>3, <1>4, <1>5, <1>6 DEF new

\* A loop over an import over frames without an undisturbed import.
LEMMA TwoOnTop ==
    ASSUME NEW n \in Frames, n.kind = "notify", NEW f \in Frames,
           NEW t \in Seq(Frames), NoClean(t),
           stack' = <<n>> \o (<<f>> \o t), IsClean(f) => Completes(f, history', state')
    PROVE  BelowSpoiled' /\ CleanImports'
<1> DEFINE u == <<f>> \o t
<1>1. /\ u \in Seq(Frames) /\ Len(t) \in Nat /\ DOMAIN u = 1..(Len(t) + 1)
      /\ u[1] = f
      /\ \A i \in 2..(Len(t) + 1) : i - 1 \in DOMAIN t /\ u[i] = t[i - 1]
    BY PushedFrame
<1> HIDE DEF u
<1>2. Len(u) = Len(t) + 1
    BY <1>1
<1>3. /\ DOMAIN stack' = 1..(Len(t) + 2)
      /\ stack'[1] = n
      /\ \A i \in 2..(Len(t) + 2) : stack'[i] = u[i - 1]
  <2>1. stack' = <<n>> \o u
      BY DEF u
  <2> QED  BY <1>1, <1>2, <2>1, PushedFrame
<1>4. stack'[2] = f
    BY <1>1, <1>3
<1>5. \A i \in 3..(Len(t) + 2) : ~IsClean(stack'[i])
  <2> SUFFICES ASSUME NEW i \in 3..(Len(t) + 2) PROVE ~IsClean(stack'[i])
      OBVIOUS
  <2>1. i \in 2..(Len(t) + 2) /\ i - 1 \in 2..(Len(t) + 1)
      BY <1>1
  <2>2. stack'[i] = t[(i - 1) - 1] /\ (i - 1) - 1 \in DOMAIN t
      BY <1>1, <1>3, <2>1
  <2> QED  BY <2>2 DEF NoClean
<1>6. ~IsClean(stack'[1])
    BY <1>3 DEF IsClean
<1>7. \A i \in DOMAIN stack' : IsClean(stack'[i]) => i = 2
    BY <1>1, <1>3, <1>5, <1>6
<1>8. BelowSpoiled'
  <2> SUFFICES ASSUME NEW i \in DOMAIN stack', NEW k \in DOMAIN stack',
                      i < k, stack'[i].kind = "import", IsClean(stack'[k])
               PROVE  FALSE
      BY DEF BelowSpoiled
  <2>1. k = 2 /\ i = 1
      BY <1>1, <1>3, <1>7
  <2> QED  BY <1>3, <2>1
<1>9. ASSUME NEW i \in DOMAIN stack', IsClean(stack'[i]) PROVE CleanOK(stack[i])'
    BY <1>4, <1>7, <1>9 DEF CleanOK
<1> QED  BY <1>8, <1>9 DEF CleanImports

LEMMA NoCleanOK ==
    ASSUME NoClean(stack')
    PROVE  BelowSpoiled' /\ CleanImports'
BY DEF NoClean, BelowSpoiled, CleanImports

LEMMA SpoilNoClean ==
    ASSUME NEW st \in Seq(Frames)
    PROVE  NoClean(Spoil(st))
<1> SUFFICES ASSUME NEW i \in DOMAIN Spoil(st) PROVE ~IsClean(Spoil(st)[i])
    BY DEF NoClean
<1>1. i \in DOMAIN st /\ st[i] \in Frames
    BY ElementOfSeq DEF Spoil
<1>2. CASE st[i].kind = "import"
  <2>1. Spoil(st)[i] = [st[i] EXCEPT !.run = "spoiled"]
      BY <1>1, <1>2 DEF Spoil
  <2>2. [st[i] EXCEPT !.run = "spoiled"].run = "spoiled"
      BY <1>1 DEF Frames
  <2> QED  BY <2>1, <2>2 DEF IsClean
<1>3. CASE st[i].kind # "import"
    BY <1>1, <1>3 DEF Spoil, IsClean
<1> QED  BY <1>2, <1>3

LEMMA PushNoClean ==
    ASSUME NEW n \in Frames, ~IsClean(n), NEW t \in Seq(Frames), NoClean(t)
    PROVE  NoClean(<<n>> \o t)
<1> DEFINE u == <<n>> \o t
<1>1. /\ DOMAIN u = 1..(Len(t) + 1) /\ u[1] = n /\ Len(t) \in Nat
      /\ \A i \in 2..(Len(t) + 1) : i - 1 \in DOMAIN t /\ u[i] = t[i - 1]
    BY PushedFrame
<1> HIDE DEF u
<1>2. \A i \in DOMAIN u : i = 1 \/ i \in 2..(Len(t) + 1)
    BY <1>1
<1>3. NoClean(u)
    BY <1>1, <1>2 DEF NoClean
<1> QED  BY <1>3 DEF u

\* What is under a running import, and the import itself once it is spoiled.
LEMMA UnderImport ==
    ASSUME ImportsInv, stack \in Seq(Frames), stack # <<>>, stack[1].kind = "import"
    PROVE  NoClean(Tail(stack))
<1> SUFFICES ASSUME NEW i \in DOMAIN Tail(stack) PROVE ~IsClean(Tail(stack)[i])
    BY DEF NoClean
<1>1. Len(stack) \in Nat \ {0} /\ Len(Tail(stack)) = Len(stack) - 1
    BY StackSteps
<1>2. i + 1 \in DOMAIN stack /\ Tail(stack)[i] = stack[i + 1] /\ 1 \in DOMAIN stack /\ 1 < i + 1
    BY <1>1, HeadTailProperties
<1> QED  BY <1>2 DEF ImportsInv, BelowSpoiled

\* An emit by a client, under which every import is spoiled, or by a spoiled
\* import.
LEMMA EmitNoClean ==
    ASSUME TypeOK, NEW e, NEW caller \in Seq(Frames), NEW unwound \in Seq(Frames),
           NoClean(caller), NoClean(unwound), EmitOutcome(e, caller, unwound)
    PROVE  NoClean(stack')
<1>1. NotifyFrame(subs) \in Frames /\ ~IsClean(NotifyFrame(subs))
    BY FrameTypes DEF TypeOK, IsClean, NotifyFrame, Frame
<1>2. stack' = unwound \/ stack' = <<NotifyFrame(subs)>> \o caller
    BY DEF EmitOutcome, EmitRejected, EmitNotAppended, EmitNotReduced, EmitReduced
<1> QED  BY <1>1, <1>2, PushNoClean

LEMMA ImportEmitStep ==
    ASSUME TypeOK, GraphMatchesStore, ImportsInv, ImportEmit
    PROVE  /\ BelowSpoiled' /\ CleanImports'
           /\ IsClean(stack[1]) => Len(stack') > Len(stack)
<1> DEFINE g == [stack[1] EXCEPT !.events = Tail(@)]
           t == Tail(stack)
<1>1. /\ stack \in Seq(Frames) /\ stack # <<>> /\ stack[1] \in Frames
      /\ t \in Seq(Frames) /\ Len(t) = Len(stack) - 1 /\ Len(stack) \in Nat \ {0}
    BY StackSteps DEF TypeOK
<1>2. /\ stack[1].kind = "import" /\ stack[1].events # <<>>
      /\ EmitOutcome(Head(stack[1].events), <<g>> \o t, t)
    BY DEF ImportEmit, Running
<1>3. g \in Frames /\ g.kind = stack[1].kind /\ g.run = stack[1].run
    BY <1>1, <1>2, HeadTailProperties DEF Frames
<1>4. NoClean(t)
    BY <1>1, <1>2, UnderImport
<1>5. CASE IsClean(stack[1])
  <2>1. CleanOK(stack[1])
    <3>1. 1 \in DOMAIN stack
        BY <1>1
    <3> QED  BY <1>5, <3>1 DEF ImportsInv, CleanImports
  <2>2. stack' = <<NotifyFrame(subs)>> \o (<<g>> \o t) /\ Completes(g, history', state')
      BY <1>1, <1>2, <2>1, CleanEmit
  <2>3. NotifyFrame(subs) \in Frames /\ NotifyFrame(subs).kind = "notify"
      BY FrameTypes DEF TypeOK, NotifyFrame, Frame
  <2> HIDE DEF g, t
  <2>4. BelowSpoiled' /\ CleanImports'
      BY <1>1, <1>3, <1>4, <2>2, <2>3, TwoOnTop
  <2>5. Len(stack') > Len(stack)
    <3> DEFINE u == <<g>> \o t
    <3>1. u \in Seq(Frames) /\ Len(u) = Len(t) + 1
        BY <1>1, <1>3, PushedFrame
    <3> HIDE DEF u
    <3>2. DOMAIN (<<NotifyFrame(subs)>> \o u) = 1..(Len(u) + 1) /\ stack' \in Seq(Frames)
        BY <2>2, <2>3, <3>1, PushedFrame DEF u
    <3>3. Len(stack') = Len(u) + 1
        BY <2>2, <3>1, <3>2 DEF u
    <3> QED  BY <1>1, <3>1, <3>3
  <2> QED  BY <2>4, <2>5
<1>6. CASE ~IsClean(stack[1])
  <2>1. ~IsClean(g)
      BY <1>3, <1>6 DEF IsClean
  <2> HIDE DEF g, t
  <2>2. NoClean(<<g>> \o t) /\ <<g>> \o t \in Seq(Frames)
      BY <1>1, <1>3, <1>4, <2>1, PushNoClean, PushedFrame
  <2>3. NoClean(stack')
      BY <1>1, <1>2, <1>4, <2>2, EmitNoClean
  <2> QED  BY <1>6, <2>3, NoCleanOK
<1> QED  BY <1>5, <1>6

\* Import itself: what is left to emit is the whole export.
LEMMA ImportStep ==
    ASSUME TypeOK, ImportsInv, Import
    PROVE  BelowSpoiled' /\ CleanImports'
<1> DEFINE n == NotifyFrame(subs)
           f == ImportFrame(exported.history, exported.state)
           t == Spoil(stack)
<1>1. /\ n \in Frames /\ n.kind = "notify" /\ f \in Frames
      /\ f.events = exported.history /\ f.expected = exported.state
      /\ f.run = "clean" => ~ReplayThrows(exported.history)
    BY FrameTypes DEF TypeOK, NotifyFrame, ImportFrame, Frame
<1>2. t \in Seq(Frames) /\ NoClean(t)
    BY SpoilType, SpoilNoClean DEF TypeOK
<1> HIDE DEF n, f, t
<1>3. stack' = <<n>> \o (<<f>> \o t)
    BY <1>1, <1>2 DEF Import, n, f, t
<1>4. ASSUME IsClean(f) PROVE Completes(f, history', state')
  <2>1. ~ReplayThrows(exported.history) /\ Sound(exported.history)
        /\ Replay(exported.history) = exported.state
      BY <1>1, <1>4 DEF IsClean, ImportsInv, ExportOK
  <2>2. history' = <<>> /\ state' = <<>>
      BY DEF Import, ClearAll
  <2>3. history' \o f.events = exported.history
      BY <1>1, <2>2, ConcatEmptySeq DEF TypeOK
  <2>4. Replay(<<>>) = <<>>
      BY DEF Replay
  <2> QED  BY <1>1, <2>1, <2>2, <2>3, <2>4 DEF CleanOK, Completes
<1> QED  BY <1>1, <1>2, <1>3, <1>4, TwoOnTop

LEMMA ImportsStep ==
    ASSUME StackOK, GraphMatchesStore, ReplayAgrees, ImportsInv, [Next]_vars
    PROVE  ImportsInv'
<1>0. TypeOK /\ TypeOK' /\ stack \in Seq(Frames) /\ stack # <<>> /\ stack[1] \in Frames
      /\ Len(stack) \in Nat \ {0}
    BY NextTypeOK, StackSteps DEF StackOK, TypeOK
<1>s. stack' \in Seq(Frames)
    BY <1>0 DEF TypeOK
<1>1. Sound(history)'
    BY NextSound DEF ImportsInv
<1>2. ExportOK'
  <2>1. CASE Export
      BY <2>1 DEF Export, ExportOK, ImportsInv, ReplayAgrees
  <2>2. CASE UNCHANGED exported
      BY <2>2 DEF ExportOK, ImportsInv
  <2> QED  BY <2>1, <2>2 DEF Next, vars, Emit, EmitOutcome, Reset, Import, ImportEmit, ImportEnd,
                             Subscribe, Unsubscribe, Deliver, Return
<1>3. BelowSpoiled' /\ CleanImports'
  <2>n. NotifyFrame(subs) \in Frames /\ ~IsClean(NotifyFrame(subs))
      BY <1>0, FrameTypes DEF TypeOK, IsClean, NotifyFrame, Frame
  <2>p. Spoil(stack) \in Seq(Frames) /\ NoClean(Spoil(stack))
      BY <1>0, SpoilType, SpoilNoClean
  <2>1. ASSUME NEW e \in Events, Emit(e) PROVE BelowSpoiled' /\ CleanImports'
      BY <1>0, <2>p, <2>1, EmitNoClean, NoCleanOK DEF Emit
  <2>2. CASE Reset
    <3>1. NoClean(<<NotifyFrame(subs)>> \o Spoil(stack))
        BY <2>n, <2>p, PushNoClean
    <3> QED  BY <2>2, <3>1, NoCleanOK DEF Reset
  <2>3. CASE Import
      BY <1>0, <2>3, ImportStep
  <2>4. CASE ImportEmit
      BY <1>0, <2>4, ImportEmitStep
  <2>5. CASE Export \/ UNCHANGED vars
    <3>1. UNCHANGED <<history, state, stack>>
        BY <2>5 DEF Export, vars
    <3> QED  BY <3>1 DEF ImportsInv, BelowSpoiled, CleanImports, CleanOK, Completes
  <2>6. CASE ImportEnd \/ Return
    <3>1. UNCHANGED <<history, state>> /\ stack' = Tail(stack)
        BY <2>6 DEF ImportEnd, Return
    <3>2. \A i \in DOMAIN stack' : i + 1 \in DOMAIN stack /\ stack'[i] = stack[i + 1]
        BY <1>0, <3>1, HeadTailProperties
    <3>3. 1 \in Int
        OBVIOUS
    <3> QED  BY <1>0, <1>s, <3>1, <3>2, <3>3, FramesShift
  <2>7. CASE Deliver
    <3> DEFINE u == Tail(stack)
               g == [stack[1] EXCEPT !.subs = Tail(@)]
    <3>1. /\ UNCHANGED <<history, state>> /\ stack[1].kind = "notify"
          /\ stack' = <<HandlerFrame, g>> \o u
        BY <2>7 DEF Deliver, Running
    <3>2. g \in Frames /\ g.kind = "notify"
        BY <1>0, <2>7, <3>1, HeadTailProperties DEF Deliver, Frames
    <3>3. /\ HandlerFrame \in Frames /\ HandlerFrame.kind = "handler"
          /\ u \in Seq(Frames)
        BY <1>0, FrameTypes, StackSteps DEF HandlerFrame, Frame
    <3> HIDE DEF g, u
    <3>4. stack' = <<HandlerFrame>> \o (<<g>> \o u)
        BY <3>1, <3>2, <3>3
    <3>5. /\ \A i \in DOMAIN stack' : i = 1 \/ i = 2 \/ (i - 2 \in DOMAIN u /\ stack'[i] = u[i - 2])
          /\ stack'[1].kind = "handler" /\ stack'[2].kind = "notify"
      <4> DEFINE w == <<g>> \o u
      <4>1. /\ w \in Seq(Frames) /\ DOMAIN w = 1..(Len(u) + 1) /\ Len(u) \in Nat /\ w[1] = g
            /\ \A i \in 2..(Len(u) + 1) : i - 1 \in DOMAIN u /\ w[i] = u[i - 1]
          BY <3>2, <3>3, PushedFrame
      <4> HIDE DEF w
      <4>2. /\ Len(w) = Len(u) + 1 /\ DOMAIN stack' = 1..(Len(w) + 1) /\ stack'[1] = HandlerFrame
            /\ \A i \in 2..(Len(w) + 1) : stack'[i] = w[i - 1]
          BY <3>3, <3>4, <4>1, PushedFrame DEF w
      <4>3. stack'[2] = g
          BY <4>1, <4>2
      <4>4. ASSUME NEW i \in 3..(Len(u) + 2)
            PROVE  i - 2 \in DOMAIN u /\ stack'[i] = u[i - 2]
        <5>1. i \in 2..(Len(w) + 1) /\ i - 1 \in 2..(Len(u) + 1) /\ (i - 1) - 1 = i - 2
            BY <4>1, <4>2
        <5> QED  BY <4>1, <4>2, <5>1
      <4> QED  BY <3>2, <3>3, <4>1, <4>2, <4>3, <4>4
    <3>6. \A i \in DOMAIN u : i + 1 \in DOMAIN stack /\ u[i] = stack[i + 1]
        BY <1>0, HeadTailProperties DEF u
    <3>7. \A i \in DOMAIN stack' : stack'[i].kind = "import" =>
              i + (-1) \in DOMAIN stack /\ stack'[i] = stack[i + (-1)]
      <4> SUFFICES ASSUME NEW i \in DOMAIN stack', stack'[i].kind = "import"
                   PROVE  i + (-1) \in DOMAIN stack /\ stack'[i] = stack[i + (-1)]
          OBVIOUS
      <4>1. i - 2 \in DOMAIN u /\ stack'[i] = u[i - 2] /\ i \in Int
          BY <1>s, <3>5
      <4>2. (i - 2) + 1 = i + (-1)
          BY <4>1
      <4> QED  BY <3>6, <4>1, <4>2
    <3>8. -1 \in Int
        OBVIOUS
    <3> QED  BY <1>0, <1>s, <3>1, <3>7, <3>8, FramesShift
  <2>8. ASSUME NEW s \in Subscribers, Subscribe(s) \/ Unsubscribe(s)
        PROVE  BelowSpoiled' /\ CleanImports'
    <3>1. UNCHANGED <<history, state>> /\ (stack' = LoopsVisit(s) \/ stack' = LoopsSkip(s))
        BY <2>8 DEF Subscribe, Unsubscribe
    <3>2. ASSUME NEW i \in DOMAIN stack'
          PROVE  /\ i \in DOMAIN stack
                 /\ stack'[i].kind = stack[i].kind
                 /\ stack'[i].run = stack[i].run
                 /\ stack'[i].events = stack[i].events
                 /\ stack'[i].expected = stack[i].expected
      <4>1. i \in DOMAIN stack
          BY <3>1 DEF LoopsVisit, LoopsSkip
      <4>2. stack[i] \in Frames
          BY <1>0, <4>1, ElementOfSeq
      <4>3. \E q : stack'[i] = [stack[i] EXCEPT !.subs = q] \/ stack'[i] = stack[i]
          BY <3>1, <4>1 DEF LoopsVisit, LoopsSkip
      <4> QED  BY <4>1, <4>2, <4>3 DEF Frames
    <3>3. ASSUME NEW i \in DOMAIN stack'
          PROVE  /\ i + 0 \in DOMAIN stack
                 /\ stack'[i].kind = stack[i + 0].kind
                 /\ stack'[i].run = stack[i + 0].run
                 /\ stack'[i].events = stack[i + 0].events
                 /\ stack'[i].expected = stack[i + 0].expected
      <4>1. i + 0 = i
          BY <1>s
      <4> QED  BY <3>2, <4>1
    <3>4. 0 \in Int
        OBVIOUS
    <3> QED  BY <1>0, <1>s, <3>1, <3>3, <3>4, FramesShift
  <2> QED  BY <2>1, <2>2, <2>3, <2>4, <2>5, <2>6, <2>7, <2>8 DEF Next
<1> QED  BY <1>1, <1>2, <1>3 DEF ImportsInv

LEMMA ImportsInit == Init => ImportsInv
<1> SUFFICES ASSUME Init PROVE ImportsInv
    OBVIOUS
<1>1. Sound(history) /\ ExportOK
    BY DEF Init, Sound, ExportOK, Replay
<1>2. BelowSpoiled /\ CleanImports
    BY DEF Init, BelowSpoiled, CleanImports, IsClean, HandlerFrame, Frame
<1> QED  BY <1>1, <1>2 DEF ImportsInv

\* An import no callback disturbs ends with the state that was exported, and
\* none of its emits throws, whatever engine it is called on.
THEOREM ImportRoundTripHolds == Spec => ImportRoundTrip
<1> DEFINE Ends == /\ Running("import")
                   /\ stack[1].run = "clean"
                   /\ Len(stack') < Len(stack)
           Restored == stack[1].events = <<>> /\ state = stack[1].expected
<1>1. ASSUME StackOK, GraphMatchesStore, ImportsInv, [Next]_vars, Ends
      PROVE  Restored
  <2>0. /\ TypeOK /\ stack \in Seq(Frames) /\ stack # <<>> /\ stack[1] \in Frames
        /\ 1 \in DOMAIN stack /\ stack[1].kind = "import" /\ Len(stack) \in Nat
        /\ history \in Seq(Events)
      BY <1>1, StackSteps DEF StackOK, TypeOK, Running
  <2>1. IsClean(stack[1]) /\ CleanOK(stack[1])
      BY <1>1, <2>0 DEF IsClean, ImportsInv, CleanImports
  <2>2. ~ImportEmit
    <3> SUFFICES ASSUME ImportEmit PROVE FALSE
        OBVIOUS
    <3>1. Len(stack') > Len(stack) /\ Len(stack') \in Nat
        BY <1>1, <2>0, <2>1, ImportEmitStep, NextTypeOK DEF TypeOK
    <3> QED  BY <1>1, <2>0, <3>1
  <2>3. ~UNCHANGED stack
      BY <1>1, <2>0
  <2>4. ImportEnd
      BY <1>1, <2>0, <2>2, <2>3 DEF Next, vars, Running, MayCall, Emit, Reset, Export, Import,
                                    Subscribe, Unsubscribe, Deliver, Return
  <2>5. stack[1].events = <<>>
      BY <2>4 DEF ImportEnd
  <2>6. history \o stack[1].events = history
      BY <2>0, <2>5, ConcatEmptySeq
  <2> QED  BY <2>1, <2>5, <2>6 DEF CleanOK, Completes
<1>2. StackOK /\ GraphMatchesStore /\ ImportsInv /\ [Next]_vars => [Ends => Restored]_vars
    BY <1>1
<1>3. (StackOK /\ ImportsInv) /\ GraphMatchesStore /\ ReplayAgrees /\ [Next]_vars
          => (StackOK /\ ImportsInv)'
    BY NextStackOK, ImportsStep
<1>4. Init => StackOK /\ ImportsInv
    BY InitStackOK, ImportsInit
<1> QED
    BY <1>2, <1>3, <1>4, GraphMatchesStoreHolds, ReplayAgreesHolds, PTL DEF Spec, ImportRoundTrip

=============================================================================
