--------------------------- MODULE MCLSMStorage ---------------------------
(* Instances of LSMStorage for TLC, and MerkleTree on bounded inputs. *)
EXTENDS LSMStorage, MerkleTree

CONSTANTS k1, k2, c1, c2

\* One caller for every key.
MCOneCaller == [c \in Clients |-> Keys]

\* A caller per key.
MCKeyEach == [c \in Clients |-> IF c = c1 THEN {k1} ELSE {k2}]

\* Every two keys share a bit of the filter.
MCHashBits == [k \in Keys |-> IF k = k1 THEN {0, 1} ELSE {1, 2}]

\* Tables of up to three keys of one length with two values each, and larger
\* ones whose levels end in odd hashes.
MCKeys(n) == {<<i>> : i \in 1..n}
MCLeaves == UNION {[keys -> {<<0>>, <<1, 0>>}] : keys \in SUBSET MCKeys(3)}
                \cup {[k \in MCKeys(n) |-> <<0>>] : n \in 4..7}

\* How a reader who knows the leaf's place checks a proof.
RootFrom(leaves, key) ==
    LET Up(acc, turn) ==
            IF acc.size = 1 THEN acc
            ELSE LET odd == acc.index % 2 = 1
                     alone == odd /\ acc.index = acc.size
                 IN  [size |-> (acc.size + 1) \div 2,
                      index |-> (acc.index + 1) \div 2,
                      proof |-> IF alone THEN acc.proof ELSE Tail(acc.proof),
                      hash |-> IF alone THEN acc.hash
                               ELSE IF odd THEN NodeHash(acc.hash, Head(acc.proof))
                               ELSE NodeHash(Head(acc.proof), acc.hash)]
    IN  FoldLeft(Up, [size |-> Cardinality(DOMAIN leaves),
                      index |-> Cardinality({k \in DOMAIN leaves : ~Before(key, k)}),
                      proof |-> getProof(leaves, key),
                      hash |-> LeafHash(key, leaves[key])],
                 Hashes(leaves)).hash

\* A proof leads from its leaf to the root.
ASSUME ProofsLeadToRoot ==
    \A leaves \in MCLeaves : \A key \in DOMAIN leaves : RootFrom(leaves, key) = getRoot(leaves)

\* Tables with keys of one length and with one root are one table.
ASSUME RootsTellTablesApart ==
    Cardinality({getRoot(leaves) : leaves \in MCLeaves}) = Cardinality(MCLeaves)

\* With keys of different lengths they need not be: a leaf does not say where
\* its key ends.
ASSUME RootsConfuseLengths ==
    getRoot(<<1>> :> <<2, 3>>) = getRoot(<<1, 2>> :> <<3>>)

\* The root of a store does not only depend on what it holds: the same entry in
\* a segment and in the memtable have different roots.
ASSUME StoreRootFollowsLayout ==
    LET one == <<1>> :> <<0>>
        two == <<2>> :> <<1>>
    IN  getMerkleRoot(<<one>>, two) # getMerkleRoot(<<>>, one @@ two)

\* Event logs with one root are one log, and nothing is missing from it.
ASSUME LogRootsTellLogsApart ==
    LET logs == UNION {[1..n -> {1, 2, 3}] : n \in 0..3}
    IN  /\ Cardinality({rootHash(log) : log \in logs}) = Cardinality(logs)
        /\ \A log \in logs : missingFrom(log, {log[i] : i \in DOMAIN log}) = {}

=============================================================================
