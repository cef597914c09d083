----------------------------- MODULE MerkleTree -----------------------------
(***************************************************************************)
(* The hashes two stores compare: the MerkleTree of a segment and the root *)
(* of a whole store (storage/lsm-storage.ts), and the MerkleEventLog of    *)
(* distributed/fault-tolerance.ts.  sha256 is a constructor: its value is  *)
(* its argument, which keeps different arguments apart, and hashes of      *)
(* leaves and of nodes too.  Keys and values are sequences of numbers: a   *)
(* leaf is the hash of one followed by the other, nothing in between.      *)
(***************************************************************************)
EXTENDS Integers, Sequences, FiniteSets, SequencesExt

\* sha256 of a key and its value, of two hashes, of the roots of a store.
LeafHash(key, value) == [bytes |-> key \o value]
NodeHash(left, right) == [left |-> left, right |-> right]
RootsHash(roots) == [roots |-> roots]

\* new Uint8Array(32): the root without leaves.
Zeros == [zeros |-> 32]

-----------------------------------------------------------------------------
(* MerkleTree.  leaves maps each key to its value.                         *)

\* The order of the code's sort.
Before(x, y) ==
    \/ IsStrictPrefix(x, y)
    \/ \E i \in DOMAIN x \cap DOMAIN y :
          x[i] < y[i] /\ SubSeq(x, 1, i - 1) = SubSeq(y, 1, i - 1)

sortedKeys(leaves) ==
    [i \in 1..Cardinality(DOMAIN leaves) |->
        CHOOSE k \in DOMAIN leaves : Cardinality({x \in DOMAIN leaves : Before(x, k)}) = i - 1]

Hashes(leaves) ==
    [i \in DOMAIN sortedKeys(leaves) |->
        LeafHash(sortedKeys(leaves)[i], leaves[sortedKeys(leaves)[i]])]

\* One level up: pairs are hashed, and an odd hash at the end is passed on.
nextLevel(hashes) ==
    [i \in 1..((Len(hashes) + 1) \div 2) |->
        IF 2 * i <= Len(hashes) THEN NodeHash(hashes[2 * i - 1], hashes[2 * i])
                                ELSE hashes[2 * i - 1]]

buildTree(hashes) ==
    FoldLeft(LAMBDA level, turn : IF Len(level) = 1 THEN level ELSE nextLevel(level),
             hashes, hashes)[1]

getRoot(leaves) == IF DOMAIN leaves = {} THEN Zeros ELSE buildTree(Hashes(leaves))

\* buildProof at a level: the hash beside the index, unless it is the odd one.
Sibling(hashes, index) ==
    LET pairIndex == IF index % 2 = 1 THEN index + 1 ELSE index - 1
    IN  IF pairIndex <= Len(hashes) THEN <<hashes[pairIndex]>> ELSE <<>>

getProof(leaves, key) ==
    FoldLeft(LAMBDA acc, turn :
                 IF Len(acc.level) = 1 THEN acc
                 ELSE [level |-> nextLevel(acc.level),
                       index |-> (acc.index + 1) \div 2,
                       proof |-> acc.proof \o Sibling(acc.level, acc.index)],
             [level |-> Hashes(leaves),
              index |-> CHOOSE i \in DOMAIN sortedKeys(leaves) : sortedKeys(leaves)[i] = key,
              proof |-> <<>>],
             Hashes(leaves)).proof

\* The segments' roots, oldest first, then the memtable's if it has entries.
getMerkleRoot(tables, memtable) ==
    LET roots == [i \in DOMAIN tables |-> getRoot(tables[i])]
                     \o IF DOMAIN memtable = {} THEN <<>> ELSE <<getRoot(memtable)>>
    IN  RootsHash(roots)

-----------------------------------------------------------------------------
(* MerkleEventLog, a sequence of events; indices count from 1.             *)

rangeHash(events, from, to) == RootsHash(SubSeq(events, from, to))

rootHash(events) == IF events = <<>> THEN Zeros ELSE rangeHash(events, 1, Len(events))

missingFrom(events, remoteIds) == {i \in DOMAIN events : events[i] \notin remoteIds}

=============================================================================
