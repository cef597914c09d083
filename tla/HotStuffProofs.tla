--------------------------- MODULE HotStuffProofs ---------------------------
(* Proofs about HotStuff, for every set of validators and every stake.     *)
EXTENDS HotStuff, SequenceTheorems, TLAPS

LEMMA PhaseRange == Phases = {1, 2, 3} /\ Prepare = 1 /\ Commit = 3 /\ Outcomes = {1, 2, 3, 4}
BY DEF Phases, Prepare, PreCommit, Commit, Outcomes

-----------------------------------------------------------------------------
(* Certificates, as facts about a set C of votes.                          *)

Cert(C, b, phase) ==
    \E set \in SUBSET Validators :
        IsQuorum(set) /\ \A u \in set : [block |-> b, phase |-> phase, from |-> u] \in C

InOrder(C) == \A vote \in C : vote.phase > 1 => Cert(C, vote.block, vote.phase - 1)

\* More votes make no certificate fewer.
LEMMA CertMonotone ==
    ASSUME NEW C, NEW D, C \subseteq D, NEW b, NEW phase, Cert(C, b, phase)
    PROVE  Cert(D, b, phase)
BY DEF Cert

\* With every vote of a later phase resting on a certificate, a certificate of
\* a phase rests on one of the phase before.
LEMMA CertDown ==
    ASSUME NEW C, InOrder(C), NEW b, NEW phase \in Nat, phase > 0, Cert(C, b, phase + 1)
    PROVE  Cert(C, b, phase)
<1>1. PICK set \in SUBSET Validators :
        IsQuorum(set) /\ \A u \in set : [block |-> b, phase |-> phase + 1, from |-> u] \in C
  BY DEF Cert
<1>2. CASE set = {}
  BY <1>1, <1>2 DEF Cert
<1>3. CASE set # {}
  <2>1. PICK u \in set : TRUE
    BY <1>3
  <2>2. [block |-> b, phase |-> phase + 1, from |-> u] \in C
    BY <1>1
  <2>3. Cert(C, b, (phase + 1) - 1)
    BY <2>2 DEF InOrder
  <2>. QED  BY <2>3
<1>. QED  BY <1>2, <1>3

\* A chain of votes leaves a certificate in every phase it has passed.
LEMMA ChainCertifies ==
    ASSUME NEW C, NEW v \in Validators, NEW b, NEW phase \in Phases, NEW reached \in Outcomes,
           NEW votes \in [Validators -> Phases \cup {0}],
           \A u \in Validators :
               votes[u] # 0 => [block |-> b, phase |-> votes[u], from |-> u] \in C,
           Reaches(v, votes, phase, reached),
           NEW p \in phase..(reached - 1)
    PROVE  Cert(C \cup ChainVotes(v, b, phase, reached), b, p)
<1> DEFINE at == IF p = phase THEN votes ELSE OwnVote(votes, v, p)
           set == {u \in Validators : at[u] = p}
<1>1. p \in Phases /\ p # 0
  BY PhaseRange
<1>2. checkQuorum(at, p)
  BY DEF Reaches
<1>3. IsQuorum(set)
  BY <1>2 DEF checkQuorum
<1>4. ASSUME NEW u \in set
      PROVE  [block |-> b, phase |-> p, from |-> u] \in C \cup ChainVotes(v, b, phase, reached)
  <2>1. CASE votes[u] = p
    BY <2>1, <1>1
  <2>2. CASE votes[u] # p
    <3>1. p # phase /\ at[u] = p /\ at = [votes EXCEPT ![v] = p]
      BY <2>2 DEF OwnVote
    <3>2. u = v
      BY <3>1, <2>2
    <3>3. phase < p /\ p <= reached
      BY <3>1, PhaseRange
    <3>. QED  BY <3>2, <3>3, <1>1 DEF ChainVotes
  <2>. QED  BY <2>1, <2>2
<1>. QED  BY <1>3, <1>4 DEF Cert

-----------------------------------------------------------------------------
(* The inductive invariant.                                                *)

\* A vote that is counted was cast: pendingVotes may drop votes, and never
\* makes one up.
PendingCast ==
    \A v, u \in Validators : \A b \in Hashes :
        pendingVotes[v][b][u] # 0 =>
            [block |-> b, phase |-> pendingVotes[v][b][u], from |-> u] \in cast

\* A validator's height is that of a block it committed.
HeightCommitted ==
    \A v \in Validators :
        currentHeight[v] = 0 \/ \E b \in committed[v] : proposed[b].height = currentHeight[v]

IInv ==
    /\ TypeOK
    /\ PendingCast
    /\ HeightCommitted
    /\ PhasesInOrder
    /\ CommitsCertified
    /\ LocksCertified
    /\ ParentsCertified
    /\ NoHeightGaps

LEMMA InitInv == Init => IInv
<1> SUFFICES ASSUME Init PROVE IInv
  OBVIOUS
<1>1. TypeOK
  <2>1. proposed \in Seq(Block) /\ Len(proposed) = 0 /\ DOMAIN proposed = {}
    BY DEF Init
  <2>2. MaxBlocks \in Nat /\ MaxView \in Nat
    BY BoundsAssumption
  <2>. QED  BY <2>1, <2>2 DEF Init, TypeOK, NoVotes
<1>2. PendingCast /\ HeightCommitted /\ PhasesInOrder
  BY DEF Init, PendingCast, HeightCommitted, PhasesInOrder, NoVotes
<1>3. CommitsCertified /\ LocksCertified /\ ParentsCertified /\ NoHeightGaps
  BY DEF Init, CommitsCertified, LocksCertified, ParentsCertified, NoHeightGaps
<1>. QED  BY <1>1, <1>2, <1>3 DEF IInv

-----------------------------------------------------------------------------
(* A chain of votes preserves the invariant, wherever it started.  C is    *)
(* what has been cast when it starts: at most v's prepare vote is new.     *)

MayPropose(C, v, b) ==
    \A vote \in C :
        \/ vote \in cast
        \/ /\ vote.phase = 1 /\ vote.block = b /\ vote.from = v
           /\ proposed'[b].height = currentHeight[v] + 1

\* What a step may do to the blocks: new ones extend certified blocks.
ProposedGrows ==
    /\ proposed' \in Seq(Block) /\ Len(proposed') <= MaxBlocks
    /\ DOMAIN proposed \subseteq DOMAIN proposed'
    /\ \A c \in DOMAIN proposed : proposed'[c] = proposed[c]
    /\ \A c \in DOMAIN proposed' :
          proposed'[c].parent # Genesis => Cert(cast, proposed'[c].parent, 1)
    /\ blocks' \in [Validators -> SUBSET DOMAIN proposed']

LEMMA ChainStep ==
    ASSUME IInv, NEW v \in Validators, ProposedGrows, NEW b \in DOMAIN proposed',
           NEW C \in SUBSET [block : DOMAIN proposed', phase : Phases, from : Validators],
           cast \subseteq C, MayPropose(C, v, b),
           NEW phase \in Phases, NEW reached \in Outcomes,
           NEW votes \in [Validators -> Phases \cup {0}],
           \A u \in Validators :
               votes[u] # 0 => [block |-> b, phase |-> votes[u], from |-> u] \in C,
           Chain(v, b, votes, phase, reached),
           cast' = C \cup ChainVotes(v, b, phase, reached)
    PROVE  IInv'
<1> USE DEF ProposedGrows
<1>1. phase <= reached /\ Reaches(v, votes, phase, reached)
  BY DEF Chain
<1>2. \A p \in phase..(reached - 1) : Cert(cast', b, p)
  BY <1>1, ChainCertifies
<1>3. cast \subseteq cast' /\ C \subseteq cast'
  OBVIOUS
<1>4. DOMAIN proposed' \subseteq Hashes
  <2>1. Len(proposed') \in Nat /\ DOMAIN proposed' = 1..Len(proposed')
    OBVIOUS
  <2>. QED  BY <2>1, BoundsAssumption DEF Hashes
<1>5. TypeOK'
  <2>1. ChainVotes(v, b, phase, reached)
          \subseteq [block : DOMAIN proposed', phase : Phases, from : Validators]
    BY DEF ChainVotes
  <2>2. cast' \subseteq [block : DOMAIN proposed', phase : Phases, from : Validators]
    BY <2>1
  <2>3. currentView' \in [Validators -> 0..MaxView]
    <3>1. currentView \in [Validators -> 0..MaxView] /\ MaxView \in Nat
      BY BoundsAssumption DEF IInv, TypeOK
    <3>2. \/ currentView' = currentView
          \/ currentView[v] < MaxView /\ currentView' = [currentView EXCEPT ![v] = @ + 1]
      BY DEF Chain
    <3>3. currentView[v] < MaxView => currentView[v] + 1 \in 0..MaxView
      BY <3>1
    <3>. QED  BY <3>1, <3>2, <3>3
  <2>4. currentHeight' \in [Validators -> Nat]
    <3>1. proposed'[b] \in Block
      OBVIOUS
    <3>2. proposed'[b].height \in Nat
      BY <3>1 DEF Block
    <3>. QED  BY <3>2 DEF Chain, IInv, TypeOK
  <2>5. lockedBlock' \in [Validators -> DOMAIN proposed' \cup {Genesis}]
    <3>1. lockedBlock \in [Validators -> DOMAIN proposed' \cup {Genesis}]
      BY DEF IInv, TypeOK
    <3>. QED  BY <3>1 DEF Chain
  <2>6. pendingVotes' \in [Validators -> [Hashes -> [Validators -> Phases \cup {0}]]]
    <3>1. pendingVotes \in [Validators -> [Hashes -> [Validators -> Phases \cup {0}]]]
      BY DEF IInv, TypeOK
    <3>2. CASE reached > Commit
      <4>1. pendingVotes' = [pendingVotes EXCEPT ![v] = [c \in Hashes |-> NoVotes]]
        BY <3>2 DEF Chain
      <4>2. [c \in Hashes |-> NoVotes] \in [Hashes -> [Validators -> Phases \cup {0}]]
        BY DEF NoVotes
      <4>. QED  BY <3>1, <4>1, <4>2
    <3>3. CASE ~(reached > Commit)
      <4>1. reached \in Phases
        BY <3>3, PhaseRange
      <4>2. OwnVote(votes, v, reached) \in [Validators -> Phases \cup {0}]
        BY <4>1 DEF OwnVote
      <4>3. PICK row \in [Validators -> Phases \cup {0}] :
                pendingVotes' = [pendingVotes EXCEPT ![v][b] = row]
        BY <3>3, <4>2 DEF Chain
      <4>. QED  BY <3>1, <4>3, <1>4
    <3>. QED  BY <3>2, <3>3
  <2>7. committed' \in [Validators -> SUBSET DOMAIN proposed']
    <3>1. committed \in [Validators -> SUBSET DOMAIN proposed']
      BY DEF IInv, TypeOK
    <3>. QED  BY <3>1 DEF Chain
  <2>. QED  BY <2>2, <2>3, <2>4, <2>5, <2>6, <2>7 DEF TypeOK
<1>6. InOrder(cast')
  <2> SUFFICES ASSUME NEW vote \in cast', vote.phase > 1
               PROVE  Cert(cast', vote.block, vote.phase - 1)
    BY DEF InOrder
  <2>1. CASE vote \in cast
    <3>1. Cert(cast, vote.block, vote.phase - 1)
      BY <2>1, PhaseRange DEF IInv, PhasesInOrder, Certified, Cert
    <3>. QED  BY <3>1, <1>3, CertMonotone
  <2>2. CASE vote \in C \ cast
    BY <2>2 DEF MayPropose
  <2>3. CASE vote \in ChainVotes(v, b, phase, reached)
    <3>1. vote.block = b /\ vote.phase \in Phases /\ phase < vote.phase /\ vote.phase <= reached
      BY <2>3 DEF ChainVotes
    <3>2. vote.phase - 1 \in phase..(reached - 1)
      BY <3>1, PhaseRange
    <3>. QED  BY <3>1, <3>2, <1>2
  <2>. QED  BY <2>1, <2>2, <2>3
<1>7. PhasesInOrder'
  BY <1>6, PhaseRange DEF PhasesInOrder, InOrder, Certified, Cert
<1>8. PendingCast'
  <2> SUFFICES ASSUME NEW w \in Validators, NEW u \in Validators, NEW c \in Hashes,
                      pendingVotes'[w][c][u] # 0
               PROVE  [block |-> c, phase |-> pendingVotes'[w][c][u], from |-> u] \in cast'
    BY DEF PendingCast
  <2>1. pendingVotes \in [Validators -> [Hashes -> [Validators -> Phases \cup {0}]]]
    BY DEF IInv, TypeOK
  <2>2. CASE pendingVotes'[w][c][u] = pendingVotes[w][c][u]
    BY <2>2, <1>3 DEF IInv, PendingCast
  <2>3. CASE reached > Commit /\ w = v
    BY <2>3, <2>1 DEF Chain, NoVotes
  <2>4. CASE ~(reached > Commit) /\ w = v /\ c = b /\ reached = phase
    <3>1. pendingVotes'[w][c] = votes
      BY <2>4, <2>1 DEF Chain
    <3>. QED  BY <3>1, <2>4
  <2>5. CASE ~(reached > Commit) /\ w = v /\ c = b /\ reached # phase
    <3>1. pendingVotes'[w][c] = [votes EXCEPT ![v] = reached]
      <4>1. pendingVotes' = [pendingVotes EXCEPT ![v][b] = OwnVote(votes, v, reached)]
        BY <2>5 DEF Chain
      <4>. QED  BY <4>1, <2>5, <2>1 DEF OwnVote
    <3>2. CASE u = v
      <4>1. pendingVotes'[w][c][u] = reached
        BY <3>1, <3>2
      <4>2. reached \in Phases /\ phase < reached
        BY <2>5, <1>1, PhaseRange
      <4>. QED  BY <4>1, <4>2, <3>2, <2>5, PhaseRange DEF ChainVotes
    <3>3. CASE u # v
      BY <3>1, <3>3, <2>5
    <3>. QED  BY <3>2, <3>3
  <2>6. CASE w # v \/ (~(reached > Commit) /\ c # b)
    BY <2>6, <2>1, <2>2 DEF Chain
  <2>. QED  BY <2>3, <2>4, <2>5, <2>6
<1>9. HeightCommitted'
  <2> SUFFICES ASSUME NEW w \in Validators
               PROVE  \/ currentHeight'[w] = 0
                      \/ \E c \in committed'[w] : proposed'[c].height = currentHeight'[w]
    BY DEF HeightCommitted
  <2>1. /\ currentHeight \in [Validators -> Nat]
        /\ committed \in [Validators -> SUBSET DOMAIN proposed]
    BY DEF IInv, TypeOK
  <2>2. CASE reached > Commit /\ w = v
    BY <2>1, <2>2 DEF Chain
  <2>3. CASE ~(reached > Commit /\ w = v)
    <3>1. currentHeight'[w] = currentHeight[w] /\ committed'[w] = committed[w]
      BY <2>1, <2>3 DEF Chain
    <3>. QED  BY <3>1, <2>1 DEF IInv, HeightCommitted
  <2>. QED  BY <2>2, <2>3
<1>10. reached > Commit => \A p \in Phases : Cert(cast', b, p)
  <2> SUFFICES ASSUME reached > Commit
               PROVE  Cert(cast', b, 1) /\ Cert(cast', b, 2) /\ Cert(cast', b, 3)
    BY PhaseRange
  <2>1. Cert(cast', b, 3)
    <3>1. 3 \in phase..(reached - 1)
      BY PhaseRange
    <3>. QED  BY <3>1, <1>2
  <2>2. Cert(cast', b, 2 + 1)
    BY <2>1
  <2>3. Cert(cast', b, 2)
    BY <2>2, <1>6, CertDown
  <2>4. Cert(cast', b, 1 + 1)
    BY <2>3
  <2>5. Cert(cast', b, 1)
    BY <2>4, <1>6, CertDown
  <2>. QED  BY <2>1, <2>3, <2>5
<1>11. CommitsCertified'
  <2> SUFFICES ASSUME NEW w \in Validators, NEW c \in committed'[w], NEW p \in Phases
               PROVE  Cert(cast', c, p)
    BY DEF CommitsCertified, Certified, Cert
  <2>1. CASE c \in committed[w]
    <3>1. Cert(cast, c, p)
      BY <2>1 DEF IInv, CommitsCertified, Certified, Cert
    <3>. QED  BY <3>1, <1>3, CertMonotone
  <2>2. CASE c \notin committed[w]
    <3>1. reached > Commit
      BY <2>2 DEF Chain
    <3>2. committed' = [committed EXCEPT ![v] = @ \cup {b}]
      BY <3>1 DEF Chain
    <3>3. c = b
      BY <2>2, <3>2 DEF IInv, TypeOK
    <3>. QED  BY <3>1, <3>3, <1>10
  <2>. QED  BY <2>1, <2>2
<1>12. LocksCertified'
  <2> SUFFICES ASSUME NEW w \in Validators, lockedBlock'[w] # Genesis
               PROVE  Cert(cast', lockedBlock'[w], 1)
    BY PhaseRange DEF LocksCertified, Certified, Cert
  <2>1. CASE lockedBlock'[w] = lockedBlock[w]
    <3>1. Cert(cast, lockedBlock[w], 1)
      BY <2>1, PhaseRange DEF IInv, LocksCertified, Certified, Cert
    <3>. QED  BY <3>1, <2>1, <1>3, CertMonotone
  <2>2. CASE lockedBlock'[w] # lockedBlock[w]
    <3>1. lockedBlock'[w] = b /\ (reached > Commit \/ (phase = Prepare /\ reached > phase))
      BY <2>2 DEF Chain, IInv, TypeOK
    <3>2. CASE reached > Commit
      BY <3>1, <3>2, <1>10, PhaseRange
    <3>3. CASE phase = Prepare /\ reached > phase
      <4>1. 1 \in phase..(reached - 1)
        BY <3>3, PhaseRange
      <4>. QED  BY <3>1, <4>1, <1>2
    <3>. QED  BY <3>1, <3>2, <3>3
  <2>. QED  BY <2>1, <2>2
<1>13. ParentsCertified'
  <2> SUFFICES ASSUME NEW c \in DOMAIN proposed', proposed'[c].parent # Genesis
               PROVE  Cert(cast', proposed'[c].parent, 1)
    BY PhaseRange DEF ParentsCertified, Certified, Cert
  <2>. QED  BY <1>3, CertMonotone
<1>14. NoHeightGaps'
  <2> SUFFICES ASSUME NEW vote \in cast', proposed'[vote.block].height # 1, vote.phase = Prepare
               PROVE  \E c \in committed'[vote.from] :
                          proposed'[c].height = proposed'[vote.block].height - 1
    BY DEF NoHeightGaps
  <2>1. committed \in [Validators -> SUBSET DOMAIN proposed]
        /\ cast \subseteq [block : DOMAIN proposed, phase : Phases, from : Validators]
    BY DEF IInv, TypeOK
  <2>2. \A w \in Validators : committed[w] \subseteq committed'[w]
    BY <2>1 DEF Chain
  <2>3. CASE vote \in cast
    <3>1. vote.block \in DOMAIN proposed /\ vote.from \in Validators
      BY <2>1, <2>3
    <3>2. PICK c \in committed[vote.from] :
              proposed[c].height = proposed[vote.block].height - 1
      BY <2>3, <3>1 DEF IInv, NoHeightGaps
    <3>. QED  BY <3>1, <3>2, <2>1, <2>2
  <2>4. CASE vote \in C \ cast
    <3>1. vote.block = b /\ vote.from = v /\ proposed'[b].height = currentHeight[v] + 1
      BY <2>4 DEF MayPropose
    <3>2. currentHeight[v] \in Nat /\ currentHeight[v] # 0
      BY <3>1 DEF IInv, TypeOK
    <3>3. PICK c \in committed[v] : proposed[c].height = currentHeight[v]
      BY <3>2 DEF IInv, HeightCommitted
    <3>4. c \in committed'[v] /\ proposed'[c].height = currentHeight[v]
      BY <3>3, <2>1, <2>2
    <3>. QED  BY <3>1, <3>2, <3>4
  <2>5. CASE vote \in ChainVotes(v, b, phase, reached)
    BY <2>5, PhaseRange DEF ChainVotes
  <2>. QED  BY <2>3, <2>4, <2>5
<1>. QED  BY <1>5, <1>7, <1>8, <1>9, <1>11, <1>12, <1>13, <1>14 DEF IInv

-----------------------------------------------------------------------------
(* The actions: each is a chain of votes, but for the view timeout.        *)

LEMMA CastPrepareStep ==
    ASSUME IInv, NEW v \in Validators, ProposedGrows, NEW b \in DOMAIN proposed',
           proposed'[b].height = currentHeight[v] + 1,
           NEW reached \in Outcomes, CastPrepare(v, b, reached)
    PROVE  IInv'
<1> DEFINE vote == [block |-> b, phase |-> 1, from |-> v]
           C == cast \cup {vote}
           votes == OwnVote(pendingVotes[v][b], v, 1)
<1>1. b \in Hashes
  <2>1. Len(proposed') \in Nat /\ DOMAIN proposed' = 1..Len(proposed')
    BY DEF ProposedGrows
  <2>. QED  BY <2>1, BoundsAssumption DEF Hashes, ProposedGrows
<1>2. C \in SUBSET [block : DOMAIN proposed', phase : Phases, from : Validators]
  <2>1. cast \subseteq [block : DOMAIN proposed', phase : Phases, from : Validators]
    BY DEF IInv, TypeOK, ProposedGrows
  <2>. QED  BY <2>1, PhaseRange
<1>3. pendingVotes[v][b] \in [Validators -> Phases \cup {0}]
  BY <1>1 DEF IInv, TypeOK
<1>4. votes \in [Validators -> Phases \cup {0}]
  BY <1>3, PhaseRange DEF OwnVote
<1>5. \A u \in Validators :
        votes[u] # 0 => [block |-> b, phase |-> votes[u], from |-> u] \in C
  <2> SUFFICES ASSUME NEW u \in Validators, votes[u] # 0
               PROVE  [block |-> b, phase |-> votes[u], from |-> u] \in C
    OBVIOUS
  <2>1. CASE u = v
    BY <2>1, <1>3 DEF OwnVote
  <2>2. CASE u # v
    <3>1. votes[u] = pendingVotes[v][b][u]
      BY <2>2, <1>3 DEF OwnVote
    <3>. QED  BY <3>1, <1>1 DEF IInv, PendingCast
  <2>. QED  BY <2>1, <2>2
<1>6. MayPropose(C, v, b)
  BY DEF MayPropose
<1>7. Chain(v, b, votes, 1, reached) /\ cast' = C \cup ChainVotes(v, b, 1, reached)
  BY PhaseRange DEF CastPrepare
<1>8. 1 \in Phases
  BY PhaseRange
<1> HIDE DEF C, votes
<1>9. cast \subseteq C
  BY DEF C
<1>. QED  BY <1>2, <1>4, <1>5, <1>6, <1>7, <1>8, <1>9, ChainStep

\* The certificates of the blocks there are.
LEMMA OldParents ==
    ASSUME IInv
    PROVE  \A c \in DOMAIN proposed :
               proposed[c].parent # Genesis => Cert(cast, proposed[c].parent, 1)
BY PhaseRange DEF IInv, ParentsCertified, Certified, Cert

LEMMA SameBlocks ==
    ASSUME IInv, UNCHANGED proposed, blocks' \in [Validators -> SUBSET DOMAIN proposed]
    PROVE  ProposedGrows
BY OldParents DEF ProposedGrows, IInv, TypeOK

LEMMA ProposeStep == ASSUME IInv, NEW v \in Validators, Propose(v) PROVE IInv'
<1> DEFINE block == [view |-> currentView[v], height |-> currentHeight[v] + 1,
                     parent |-> lockedBlock[v], proposer |-> v]
           b == Len(proposed) + 1
<1>1. /\ proposed \in Seq(Block) /\ Len(proposed) <= MaxBlocks /\ MaxBlocks \in Nat
      /\ lockedBlock[v] \in DOMAIN proposed \cup {Genesis}
      /\ currentView[v] \in Nat /\ currentHeight[v] \in Nat
  BY BoundsAssumption DEF IInv, TypeOK
<1>2. proposed' = Append(proposed, block) /\ Len(proposed) < MaxBlocks
  BY DEF Propose
<1>3. lockedBlock[v] \in Hashes \cup {Genesis}
  BY <1>1 DEF Hashes
<1>4. block \in Block
  BY <1>1, <1>3 DEF Block
<1> HIDE DEF block
<1>5. /\ proposed' \in Seq(Block) /\ Len(proposed') = b /\ DOMAIN proposed' = 1..b
      /\ \A c \in DOMAIN proposed : proposed'[c] = proposed[c]
      /\ proposed'[b] = block /\ DOMAIN proposed = 1..Len(proposed) /\ Len(proposed) \in Nat
  BY <1>1, <1>2, <1>4
<1>6. blocks' \in [Validators -> SUBSET DOMAIN proposed']
  <2>1. blocks \in [Validators -> SUBSET DOMAIN proposed']
    BY <1>5 DEF IInv, TypeOK
  <2>2. blocks' = [blocks EXCEPT ![v] = @ \cup {b}]
    BY DEF Propose
  <2>. QED  BY <2>1, <2>2, <1>5
<1>7. \A c \in DOMAIN proposed' :
        proposed'[c].parent # Genesis => Cert(cast, proposed'[c].parent, 1)
  <2> SUFFICES ASSUME NEW c \in DOMAIN proposed', proposed'[c].parent # Genesis
               PROVE  Cert(cast, proposed'[c].parent, 1)
    OBVIOUS
  <2>1. CASE c \in DOMAIN proposed
    BY <2>1, <1>5, OldParents
  <2>2. CASE c = b
    <3>1. proposed'[c].parent = lockedBlock[v]
      BY <2>2, <1>5 DEF block
    <3>. QED  BY <3>1, PhaseRange DEF IInv, LocksCertified, Certified, Cert
  <2>. QED  BY <2>1, <2>2, <1>5
<1>8. ProposedGrows
  BY <1>1, <1>2, <1>5, <1>6, <1>7 DEF ProposedGrows
<1>9. b \in DOMAIN proposed' /\ proposed'[b].height = currentHeight[v] + 1
  BY <1>5 DEF block
<1>10. PICK reached \in Outcomes : CastPrepare(v, b, reached)
  BY DEF Propose
<1>. QED  BY <1>8, <1>9, <1>10, CastPrepareStep

LEMMA OnProposalStep == ASSUME IInv, NEW v \in Validators, OnProposal(v) PROVE IInv'
<1>1. PICK b \in DOMAIN proposed :
        /\ validateBlock(v, proposed[b])
        /\ blocks' = [blocks EXCEPT ![v] = @ \cup {b}]
        /\ UNCHANGED proposed
        /\ \E reached \in Outcomes : CastPrepare(v, b, reached)
  BY DEF OnProposal
<1>2. ProposedGrows
  BY <1>1, SameBlocks DEF IInv, TypeOK
<1>3. b \in DOMAIN proposed' /\ proposed'[b].height = currentHeight[v] + 1
  BY <1>1 DEF validateBlock
<1>. QED  BY <1>1, <1>2, <1>3, CastPrepareStep

LEMMA OnVoteStep == ASSUME IInv, NEW v \in Validators, OnVote(v) PROVE IInv'
<1> DEFINE counted(vote) == [pendingVotes[v][vote.block] EXCEPT ![vote.from] = vote.phase]
<1>1. PICK vote \in cast :
        /\ UNCHANGED <<proposed, blocks>>
        /\ IF vote.block \in blocks[v]
              THEN \E reached \in Outcomes :
                      /\ Chain(v, vote.block, counted(vote), vote.phase, reached)
                      /\ cast' = cast \cup ChainVotes(v, vote.block, vote.phase, reached)
              ELSE /\ pendingVotes' = [pendingVotes EXCEPT ![v][vote.block] = counted(vote)]
                   /\ UNCHANGED <<cast, currentView, currentHeight, lockedBlock, committed>>
  BY DEF OnVote
<1> DEFINE b == vote.block
           votes == counted(vote)
<1>2. /\ vote.block \in DOMAIN proposed /\ vote.phase \in Phases /\ vote.from \in Validators
      /\ vote = [block |-> b, phase |-> vote.phase, from |-> vote.from]
  BY DEF IInv, TypeOK
<1>3. b \in Hashes
  BY <1>2, BoundsAssumption DEF IInv, TypeOK, Hashes
<1>4. pendingVotes[v][b] \in [Validators -> Phases \cup {0}]
  BY <1>3 DEF IInv, TypeOK
<1>5. votes \in [Validators -> Phases \cup {0}]
  BY <1>2, <1>4
<1>6. \A u \in Validators :
        votes[u] # 0 => [block |-> b, phase |-> votes[u], from |-> u] \in cast
  <2> SUFFICES ASSUME NEW u \in Validators, votes[u] # 0
               PROVE  [block |-> b, phase |-> votes[u], from |-> u] \in cast
    OBVIOUS
  <2>1. CASE u = vote.from
    <3>1. votes[u] = vote.phase
      BY <2>1, <1>4
    <3>. QED  BY <2>1, <3>1, <1>2
  <2>2. CASE u # vote.from
    <3>1. votes[u] = pendingVotes[v][b][u]
      BY <2>2, <1>4
    <3>. QED  BY <3>1, <1>3 DEF IInv, PendingCast
  <2>. QED  BY <2>1, <2>2
<1>7. CASE b \in blocks[v]
  <2>1. PICK reached \in Outcomes :
          /\ Chain(v, b, votes, vote.phase, reached)
          /\ cast' = cast \cup ChainVotes(v, b, vote.phase, reached)
    BY <1>1, <1>7
  <2>2. ProposedGrows /\ b \in DOMAIN proposed'
    BY <1>1, <1>2, SameBlocks DEF IInv, TypeOK
  <2>3. cast \in SUBSET [block : DOMAIN proposed', phase : Phases, from : Validators]
    BY <1>1 DEF IInv, TypeOK
  <2>4. MayPropose(cast, v, b)
    BY DEF MayPropose
  <2>5. cast \subseteq cast
    OBVIOUS
  <2> HIDE DEF b, votes
  <2>. QED  BY <1>2, <1>5, <1>6, <2>1, <2>2, <2>3, <2>4, <2>5, ChainStep
<1>8. CASE b \notin blocks[v]
  <2>1. /\ pendingVotes' = [pendingVotes EXCEPT ![v][b] = votes]
        /\ UNCHANGED <<proposed, blocks, cast, currentView, currentHeight, lockedBlock, committed>>
    BY <1>1, <1>8
  <2>2. PendingCast'
    <3> SUFFICES ASSUME NEW w \in Validators, NEW u \in Validators, NEW c \in Hashes,
                        pendingVotes'[w][c][u] # 0
                 PROVE  [block |-> c, phase |-> pendingVotes'[w][c][u], from |-> u] \in cast
      BY <2>1 DEF PendingCast
    <3>1. pendingVotes \in [Validators -> [Hashes -> [Validators -> Phases \cup {0}]]]
      BY DEF IInv, TypeOK
    <3> HIDE DEF b, votes
    <3>2. CASE w = v /\ c = b
      <4>1. pendingVotes'[w][c] = votes
        BY <3>1, <3>2, <2>1
      <4>. QED  BY <3>2, <4>1, <1>6
    <3>3. CASE ~(w = v /\ c = b)
      <4>1. pendingVotes'[w][c] = pendingVotes[w][c]
        BY <3>1, <3>3, <2>1
      <4>. QED  BY <4>1 DEF IInv, PendingCast
    <3>. QED  BY <3>2, <3>3
  <2>3. TypeOK'
    <3> HIDE DEF b, votes
    <3>1. pendingVotes' \in [Validators -> [Hashes -> [Validators -> Phases \cup {0}]]]
      BY <2>1, <1>3, <1>5 DEF IInv, TypeOK
    <3>. QED  BY <2>1, <3>1 DEF IInv, TypeOK
  <2>. QED  BY <2>1, <2>2, <2>3 DEF IInv, HeightCommitted, PhasesInOrder, CommitsCertified,
              LocksCertified, ParentsCertified, NoHeightGaps, Certified
<1>. QED  BY <1>7, <1>8

LEMMA OnViewTimeoutStep == ASSUME IInv, NEW v \in Validators, OnViewTimeout(v) PROVE IInv'
<1>1. UNCHANGED <<proposed, cast, currentHeight, lockedBlock, pendingVotes, blocks, committed>>
  BY DEF OnViewTimeout
<1>2. currentView' \in [Validators -> 0..MaxView]
  BY BoundsAssumption DEF OnViewTimeout, IInv, TypeOK
<1>. QED  BY <1>1, <1>2 DEF IInv, TypeOK, PendingCast, HeightCommitted, PhasesInOrder,
            CommitsCertified, LocksCertified, ParentsCertified, NoHeightGaps, Certified

LEMMA NextInv == IInv /\ [Next]_vars => IInv'
<1> SUFFICES ASSUME IInv, [Next]_vars PROVE IInv'
  OBVIOUS
<1>1. ASSUME NEW v \in Validators, Propose(v) PROVE IInv'
  BY <1>1, ProposeStep
<1>2. ASSUME NEW v \in Validators, OnProposal(v) PROVE IInv'
  BY <1>2, OnProposalStep
<1>3. ASSUME NEW v \in Validators, OnVote(v) PROVE IInv'
  BY <1>3, OnVoteStep
<1>4. ASSUME NEW v \in Validators, OnViewTimeout(v) PROVE IInv'
  BY <1>4, OnViewTimeoutStep
<1>5. CASE UNCHANGED vars
  BY <1>5 DEF vars, IInv, TypeOK, PendingCast, HeightCommitted, PhasesInOrder,
      CommitsCertified, LocksCertified, ParentsCertified, NoHeightGaps, Certified
<1>. QED  BY <1>1, <1>2, <1>3, <1>4, <1>5 DEF Next

THEOREM InductiveInvariant == Spec => []IInv
BY InitInv, NextInv, PTL DEF Spec

-----------------------------------------------------------------------------
(* What the invariant gives, for every set of validators, every stake and  *)
(* every network.                                                          *)

\* Every variable of every validator keeps its type.
THEOREM TypeCorrect == Spec => []TypeOK
<1>1. IInv => TypeOK
  BY DEF IInv
<1>. QED  BY <1>1, InductiveInvariant, PTL

\* No vote of onQuorumCertificate is cast before a quorum in the phase before.
THEOREM PhasesInOrderHolds == Spec => []PhasesInOrder
<1>1. IInv => PhasesInOrder
  BY DEF IInv
<1>. QED  BY <1>1, InductiveInvariant, PTL

\* commitBlock is reached only for a block with a quorum in all three phases.
THEOREM CommitsCertifiedHolds == Spec => []CommitsCertified
<1>1. IInv => CommitsCertified
  BY DEF IInv
<1>. QED  BY <1>1, InductiveInvariant, PTL

\* lockedBlock, which propose and validateBlock follow, has a prepare quorum.
THEOREM LocksCertifiedHolds == Spec => []LocksCertified
<1>1. IInv => LocksCertified
  BY DEF IInv
<1>. QED  BY <1>1, InductiveInvariant, PTL

\* So has the parent of every block proposed.
THEOREM ParentsCertifiedHolds == Spec => []ParentsCertified
<1>1. IInv => ParentsCertified
  BY DEF IInv
<1>. QED  BY <1>1, InductiveInvariant, PTL

\* A validator that prepares a block has committed one of the height below.
THEOREM NoHeightGapsHolds == Spec => []NoHeightGaps
<1>1. IInv => NoHeightGaps
  BY DEF IInv
<1>. QED  BY <1>1, InductiveInvariant, PTL

=============================================================================
