------------------------------ MODULE HotStuff ------------------------------
(***************************************************************************)
(* Block agreement (consensus/hotstuff-bft.ts): validators that follow the *)
(* code, over a network that loses, repeats and reorders proposals and     *)
(* votes.                                                                  *)
(*                                                                         *)
(* A handler runs to its end without giving way: the awaits in the chain   *)
(* vote, onVote, onQuorumCertificate, vote are on calls that never wait.   *)
(* A block's hash is its place in the sequence proposed (each carries its  *)
(* own timestamp).  Signatures verify and transactions are valid.          *)
(* prepareQC, preCommitQC, lockedQC and qcs are written, never read.       *)
(***************************************************************************)
EXTENDS Integers, Sequences, FiniteSets, Functions

CONSTANTS
    Validators,
    Order,          \* the validators, sorted by id
    Stake,
    Links,          \* <<u, v>>: what u broadcasts may reach v
    MaxBlocks,      \* bound on the blocks proposed
    MaxView         \* bound on the view a validator leaves

ASSUME OrderAssumption ==
    /\ Order \in [1..Cardinality(Validators) -> Validators]
    /\ \A v \in Validators : \E i \in 1..Cardinality(Validators) : Order[i] = v
ASSUME StakeAssumption == Stake \in [Validators -> Nat]
ASSUME LinksAssumption == Links \subseteq Validators \X Validators
ASSUME BoundsAssumption == MaxBlocks \in Nat \ {0} /\ MaxView \in Nat

\* The phases in their order; 0 stands for no vote.
Prepare == 1
PreCommit == 2
Commit == 3
Phases == {Prepare, PreCommit, Commit}

Hashes == 1..MaxBlocks
Genesis == 0

Block == [view : Nat, height : Nat \ {0}, parent : Hashes \cup {Genesis},
          proposer : Validators]
Vote == [block : Hashes, phase : Phases, from : Validators]

VARIABLES
    proposed,       \* the blocks proposed so far: the hash of proposed[b] is b
    cast,           \* the votes broadcast so far
    currentView,
    currentHeight,
    lockedBlock,
    pendingVotes,   \* pendingVotes[v][b][u]: the last vote v has from u on b
    blocks,         \* blocks[v]: the blocks v has stored
    committed       \* committed[v]: the blocks v emitted "commit" for

vars == <<proposed, cast, currentView, currentHeight, lockedBlock, pendingVotes,
          blocks, committed>>

NoVotes == [u \in Validators |-> 0]

Init ==
    /\ proposed = <<>>
    /\ cast = {}
    /\ currentView = [v \in Validators |-> 0]
    /\ currentHeight = [v \in Validators |-> 0]
    /\ lockedBlock = [v \in Validators |-> Genesis]
    /\ pendingVotes = [v \in Validators |-> [b \in Hashes |-> NoVotes]]
    /\ blocks = [v \in Validators |-> {}]
    /\ committed = [v \in Validators |-> {}]

-----------------------------------------------------------------------------
(* Stake and quorums.                                                      *)

StakeOf(set) == FoldFunctionOnSet(+, 0, Stake, set)

totalStake == StakeOf(Validators)
quorumStake == (totalStake * 2) \div 3

IsQuorum(set) == StakeOf(set) >= quorumStake

isLeader(v, view) == Order[(view % Cardinality(Validators)) + 1] = v

\* Faulty: a vote in any phase counts.
checkAnyPhase(votes, phase) == IsQuorum({u \in Validators : votes[u] # 0})

\* Faulty: half of the stake is enough.
checkHalf(votes, phase) == StakeOf({u \in Validators : votes[u] = phase}) * 2 >= totalStake

checkQuorum(votes, phase) == IsQuorum({u \in Validators : votes[u] = phase})

-----------------------------------------------------------------------------
(* What a vote of the given phase sets off at v, once it is among votes: a *)
(* quorum in one phase makes v vote in the next, which may complete the    *)
(* quorum of that phase in turn.  The chain stops in the phase reached, or *)
(* past Commit when the block is committed.                                *)

OwnVote(votes, v, phase) == [votes EXCEPT ![v] = phase]

\* Faulty: the block is committed with the validator's own commit vote.
ReachesUncounted(v, votes, phase, reached) ==
    LET at(p) == IF p = phase THEN votes ELSE OwnVote(votes, v, p)
    IN  /\ \A p \in phase..(reached - 1) : p = Commit \/ checkQuorum(at(p), p)
        /\ reached < Commit => ~checkQuorum(at(reached), reached)

Reaches(v, votes, phase, reached) ==
    LET at(p) == IF p = phase THEN votes ELSE OwnVote(votes, v, p)
    IN  /\ \A p \in phase..(reached - 1) : checkQuorum(at(p), p)
        /\ reached <= Commit => ~checkQuorum(at(reached), reached)

\* The votes of a chain from phase to reached.
ChainVotes(v, b, phase, reached) ==
    {[block |-> b, phase |-> p, from |-> v] : p \in {q \in Phases : phase < q /\ q <= reached}}

\* onVote up to its last await, in a validator that has stored the block.
\* reached > phase = Prepare: the quorum of prepare votes locks the block.
Chain(v, b, votes, phase, reached) ==
    /\ phase <= reached
    /\ Reaches(v, votes, phase, reached)
    /\ IF reached > Commit
          THEN /\ currentView[v] < MaxView
               /\ currentHeight' = [currentHeight EXCEPT ![v] = proposed'[b].height]
               /\ currentView' = [currentView EXCEPT ![v] = @ + 1]
               /\ pendingVotes' = [pendingVotes EXCEPT ![v] = [c \in Hashes |-> NoVotes]]
               /\ committed' = [committed EXCEPT ![v] = @ \cup {b}]
          ELSE /\ pendingVotes' = [pendingVotes EXCEPT ![v][b] =
                        IF reached = phase THEN votes ELSE OwnVote(votes, v, reached)]
               /\ UNCHANGED <<currentView, currentHeight, committed>>
    /\ lockedBlock' = IF reached > Commit \/ (phase = Prepare /\ reached > phase)
                      THEN [lockedBlock EXCEPT ![v] = b] ELSE lockedBlock

\* vote(b, Prepare): v broadcasts its vote and counts it.
CastPrepare(v, b, reached) ==
    /\ Chain(v, b, OwnVote(pendingVotes[v][b], v, Prepare), Prepare, reached)
    /\ cast' = cast \cup {[block |-> b, phase |-> Prepare, from |-> v]}
                    \cup ChainVotes(v, b, Prepare, reached)

Outcomes == Phases \cup {Commit + 1}

-----------------------------------------------------------------------------
(* The handlers.                                                           *)

\* Faulty: the newest block stored is extended.
ProposeOnNewest(v) ==
    LET parent == IF blocks[v] = {} THEN Genesis
                  ELSE CHOOSE b \in blocks[v] : \A c \in blocks[v] : c <= b
        block == [view |-> currentView[v], height |-> currentHeight[v] + 1,
                  parent |-> parent, proposer |-> v]
        b == Len(proposed) + 1
    IN  /\ isLeader(v, currentView[v])
        /\ Len(proposed) < MaxBlocks
        /\ proposed' = Append(proposed, block)
        /\ blocks' = [blocks EXCEPT ![v] = @ \cup {b}]
        /\ \E reached \in Outcomes : CastPrepare(v, b, reached)

Propose(v) ==
    LET block == [view |-> currentView[v], height |-> currentHeight[v] + 1,
                  parent |-> lockedBlock[v], proposer |-> v]
        b == Len(proposed) + 1
    IN  /\ isLeader(v, currentView[v])
        /\ Len(proposed) < MaxBlocks
        /\ proposed' = Append(proposed, block)
        /\ blocks' = [blocks EXCEPT ![v] = @ \cup {b}]
        /\ \E reached \in Outcomes : CastPrepare(v, b, reached)

\* Faulty: the height is not checked.
validateAnyHeight(v, block) ==
    /\ block.view = currentView[v]
    /\ lockedBlock[v] # Genesis => block.parent = lockedBlock[v]

validateBlock(v, block) ==
    /\ block.height = currentHeight[v] + 1
    /\ block.view = currentView[v]
    /\ lockedBlock[v] # Genesis => block.parent = lockedBlock[v]

\* A proposal that is refused changes nothing.
OnProposal(v) ==
    \E b \in DOMAIN proposed :
        /\ <<proposed[b].proposer, v>> \in Links
        /\ validateBlock(v, proposed[b])
        /\ isLeader(proposed[b].proposer, proposed[b].view)
        /\ blocks' = [blocks EXCEPT ![v] = @ \cup {b}]
        /\ UNCHANGED proposed
        /\ \E reached \in Outcomes : CastPrepare(v, b, reached)

\* A quorum for a block that is not stored yet is passed over.
OnVote(v) ==
    \E vote \in cast :
        LET b == vote.block
            votes == [pendingVotes[v][b] EXCEPT ![vote.from] = vote.phase]
        IN  /\ vote.from # v /\ <<vote.from, v>> \in Links
            /\ UNCHANGED <<proposed, blocks>>
            /\ IF b \in blocks[v]
                  THEN \E reached \in Outcomes :
                          /\ Chain(v, b, votes, vote.phase, reached)
                          /\ cast' = cast \cup ChainVotes(v, b, vote.phase, reached)
                  ELSE /\ pendingVotes' = [pendingVotes EXCEPT ![v][b] = votes]
                       /\ UNCHANGED <<cast, currentView, currentHeight, lockedBlock, committed>>

OnViewTimeout(v) ==
    /\ currentView[v] < MaxView
    /\ currentView' = [currentView EXCEPT ![v] = @ + 1]
    /\ UNCHANGED <<proposed, cast, currentHeight, lockedBlock, pendingVotes, blocks, committed>>

Next ==
    \E v \in Validators :
        \/ Propose(v)
        \/ OnProposal(v)
        \/ OnVote(v)
        \/ OnViewTimeout(v)

Spec == Init /\ [][Next]_vars

-----------------------------------------------------------------------------
(* Properties.                                                             *)

TypeOK ==
    /\ proposed \in Seq(Block) /\ Len(proposed) <= MaxBlocks
    /\ cast \subseteq [block : DOMAIN proposed, phase : Phases, from : Validators]
    /\ currentView \in [Validators -> 0..MaxView]
    /\ currentHeight \in [Validators -> Nat]
    /\ lockedBlock \in [Validators -> DOMAIN proposed \cup {Genesis}]
    /\ pendingVotes \in [Validators -> [Hashes -> [Validators -> Phases \cup {0}]]]
    /\ blocks \in [Validators -> SUBSET DOMAIN proposed]
    /\ committed \in [Validators -> SUBSET DOMAIN proposed]

\* A quorum of validators has voted for the block in the phase.
Certified(b, phase) ==
    \E set \in SUBSET Validators :
        IsQuorum(set) /\ \A u \in set : [block |-> b, phase |-> phase, from |-> u] \in cast

\* "Three-phase commit": no validator votes in a phase before a quorum voted
\* in the phase before, whatever was lost, repeated or late.
PhasesInOrder == \A vote \in cast : vote.phase > Prepare => Certified(vote.block, vote.phase - 1)

\* A block is committed only after quorums in all three phases, although the
\* votes that made them are counted from a map that keeps one per validator.
CommitsCertified ==
    \A v \in Validators : \A b \in committed[v], phase \in Phases : Certified(b, phase)

\* A block is locked, and so extended, only when a quorum prepared it.
LocksCertified ==
    \A v \in Validators : lockedBlock[v] # Genesis => Certified(lockedBlock[v], Prepare)

ParentsCertified ==
    \A b \in DOMAIN proposed :
        proposed[b].parent # Genesis => Certified(proposed[b].parent, Prepare)

\* Heights have no gaps: a validator that votes to prepare a block of height
\* h > 1 has committed a block of height h - 1, although a late commit quorum
\* may have taken it back to an earlier height in between.
NoHeightGaps ==
    \A vote \in cast :
        \/ proposed[vote.block].height = 1
        \/ vote.phase # Prepare
        \/ \E b \in committed[vote.from] :
              proposed[b].height = proposed[vote.block].height - 1

\* "Safety": no two validators commit different blocks at one height.
Agreement ==
    \A u, v \in Validators : \A b \in committed[u], c \in committed[v] :
        proposed[b].height = proposed[c].height => b = c

=============================================================================
