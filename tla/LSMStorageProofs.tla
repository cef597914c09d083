------------------------- MODULE LSMStorageProofs -------------------------
(***************************************************************************)
(* Proofs about LSMStorage, for every number of keys and clients, every    *)
(* memtable size, threshold and width of a compaction: types, and that     *)
(* what was acknowledged is read back from memory and from the disk until  *)
(* one of the steps the history variables record.                          *)
(***************************************************************************)
EXTENDS LSMStorage, FiniteSetTheorems, SequenceTheorems, WellFoundedInduction, TLAPS

-----------------------------------------------------------------------------
(* Types.                                                                  *)

InPersist == Kinds \cup {"install"}

MergesSome ==
    compactor.at \in InPersist => compactor.merging # <<>> /\ compactor.segment \in Timestamps

ClientRecords ==
    [at : {"idle", "wal", "memtable", "install", "clear"} \cup Kinds,
     key : Keys \cup {Absent}, value : Entry \cup {Absent}, segment : Timestamps \cup {0}]

CompactorRecords ==
    [at : {"idle", "install", "unlink"} \cup Kinds, segment : Timestamps \cup {0},
     merging : Seq(Timestamps), unlinking : Seq(Timestamps), kind : Kinds]

CompactorOK ==
    /\ compactor \in CompactorRecords
    /\ compactor.at = "unlink" <=> compactor.unlinking # <<>>
    /\ MergesSome

LEMMA Bounds ==
    /\ MaxSegments \in Nat \ {0} /\ MaxPuts \in Nat \ {0} /\ MergeWidth \in Nat \ {0}
    /\ Timestamps \subseteq Nat
    /\ \A n \in Nat : n < MaxSegments => n + 1 \in Timestamps
    /\ \A n \in Nat : n < MaxPuts => n + 1 \in Values
BY SizesAssumption DEF Timestamps, Values

LEMMA RestingType ==
    /\ Resting \in CompactorRecords
    /\ Resting.at = "idle" /\ Resting.unlinking = <<>> /\ Resting.merging = <<>>
<1>1. <<>> \in Seq(Timestamps)
    OBVIOUS
<1> QED  BY <1>1 DEF Resting, CompactorRecords, Kinds

LEMMA IdleType == Idle \in ClientRecords
BY DEF Idle, ClientRecords

LEMMA EmptyTableType == EmptyTable \in Tables
BY DEF EmptyTable, Tables

LEMMA DecodedType ==
    /\ \A v \in Entry : Decoded(v) \in Entry /\ Decoded(Decoded(v)) = Decoded(v)
    /\ Decoded(Absent) = Absent /\ Decoded(Tombstone) = Tombstone
    /\ \A v : Decoded(v) = Absent => v = Absent
<1>1. Absent \notin Nat /\ Tombstone \notin Nat /\ Garbled \notin Nat /\ Absent # Garbled
    BY MarkersAssumption
<1>2. \A v \in Binary : v \in Nat
    BY BinaryAssumption, Bounds
<1>3. \A v \in Entry : Decoded(v) \in Entry
    BY DEF Decoded, Entry
<1>4. \A v \in Entry : Decoded(Decoded(v)) = Decoded(v)
    BY <1>1, <1>2 DEF Decoded
<1> QED  BY <1>1, <1>2, <1>3, <1>4 DEF Decoded

LEMMA OldestType ==
    ASSUME NEW order \in Seq(Timestamps), Len(order) >= 2
    PROVE  Oldest(order) \in Seq(Timestamps) /\ Oldest(order) # <<>>
<1> DEFINE n == IF Len(order) < MergeWidth THEN Len(order) ELSE MergeWidth
<1>1. n \in 1..Len(order)
    BY Bounds
<1>2. /\ SubSeq(order, 1, n) \in Seq(Timestamps)
      /\ Len(SubSeq(order, 1, n)) = n
    BY <1>1, SubSeqProperties
<1>3. Oldest(order) = SubSeq(order, 1, n)
    BY DEF Oldest
<1> HIDE DEF n
<1> QED  BY <1>1, <1>2, <1>3

LEMMA Least ==
    ASSUME NEW T \in SUBSET Nat, T # {}
    PROVE  \E m \in T : \A n \in T : m <= n
<1> DEFINE R == {ss \in Nat \X Nat : ss[1] < ss[2]}
<1>1. IsWellFoundedOn(R, Nat)
    BY NatLessThanWellFounded DEF OpToRel
<1> HIDE DEF R
<1>2. PICK m \in T : \A n \in T : ~(<<n, m>> \in R)
    BY <1>1, WFMin
<1>3. \A n \in T : ~(n < m)
    BY <1>2 DEF R
<1> QED  BY <1>3

LEMMA Greatest ==
    ASSUME NEW n \in Nat, NEW T \in SUBSET (1..n), T # {}
    PROVE  \E m \in T : \A i \in T : i <= m
<1> DEFINE D == {n - i : i \in T}
<1>1. D \in SUBSET Nat /\ D # {}
  <2>1. \A i \in T : i \in 1..n /\ n - i \in Nat
      OBVIOUS
  <2> QED  BY <2>1
<1>2. PICK d \in D : \A x \in D : d <= x
    BY <1>1, Least
<1>3. PICK m \in T : d = n - m
    BY <1>2
<1>4. \A i \in T : n - m <= n - i
    BY <1>2, <1>3
<1> QED  BY <1>4

\* Sorting by timestamp: the timestamps of a set have ranks 1, 2, ..., one each.
Upto(S, t) == {u \in S : u <= t}

LEMMA Ranked ==
    ASSUME NEW S \in SUBSET Timestamps, IsFiniteSet(S)
    PROVE  /\ \A t \in S : Cardinality(Upto(S, t)) \in 1..Cardinality(S)
           /\ \A t, u \in S : t < u => Cardinality(Upto(S, t)) < Cardinality(Upto(S, u))
           /\ \A i \in 1..Cardinality(S) : \E t \in S : Cardinality(Upto(S, t)) = i
<1> DEFINE n == Cardinality(S)
           rank == [t \in S |-> Cardinality(Upto(S, t))]
<1>1. n \in Nat
    BY FS_CardinalityType
<1>2. ASSUME NEW t \in S
      PROVE  /\ Upto(S, t) \subseteq S /\ t \in Upto(S, t)
             /\ IsFiniteSet(Upto(S, t)) /\ Cardinality(Upto(S, t)) \in 1..n
  <2>1. Upto(S, t) \in SUBSET S /\ t \in Upto(S, t)
      BY Bounds DEF Upto
  <2>2. IsFiniteSet(Upto(S, t)) /\ Cardinality(Upto(S, t)) <= n
      BY <2>1, FS_Subset
  <2>3. Cardinality(Upto(S, t)) \in Nat /\ Cardinality(Upto(S, t)) # 0
      BY <2>1, <2>2, FS_CardinalityType, FS_EmptySet
  <2> QED  BY <1>1, <2>1, <2>2, <2>3
<1>3. ASSUME NEW t \in S, NEW u \in S, t < u
      PROVE  Cardinality(Upto(S, t)) < Cardinality(Upto(S, u))
  <2>1. Upto(S, t) \in SUBSET Upto(S, u) /\ u \notin Upto(S, t) /\ u \in Upto(S, u)
    <3>1. \A x \in S : x \in Nat
        BY Bounds
    <3>2. \A x \in S : x <= t => x <= u
        BY <1>3, <3>1
    <3>3. ~(u <= t) /\ u <= u
        BY <1>3, <3>1
    <3> QED  BY <3>2, <3>3 DEF Upto
  <2>2. /\ Cardinality(Upto(S, t)) <= Cardinality(Upto(S, u))
        /\ Cardinality(Upto(S, u)) = Cardinality(Upto(S, t)) => Upto(S, u) = Upto(S, t)
      BY <1>2, <2>1, FS_Subset
  <2>3. Cardinality(Upto(S, t)) \in Nat /\ Cardinality(Upto(S, u)) \in Nat
      BY <1>2
  <2> QED  BY <2>1, <2>2, <2>3
<1>4. \A t, u \in S : t # u => rank[t] # rank[u]
  <2> SUFFICES ASSUME NEW t \in S, NEW u \in S, t # u PROVE rank[t] # rank[u]
      OBVIOUS
  <2>1. t < u \/ u < t
      BY Bounds
  <2> QED  BY <1>2, <1>3, <2>1
<1> DEFINE R == {rank[t] : t \in S}
<1>5. R \in SUBSET (1..n)
    BY <1>2
<1>6. IsFiniteSet(1..n) /\ Cardinality(1..n) = n
    BY <1>1, FS_Interval
<1>7. IsFiniteSet(R) /\ Cardinality(R) = n
  <2>1. rank \in Bijection(S, R)
      BY <1>4 DEF Bijection, Injection, IsInjective, Surjection
  <2>2. ExistsBijection(S, R)
      BY <2>1 DEF ExistsBijection
  <2> QED  BY <1>5, <1>6, <2>2, FS_Bijection
<1>8. R = 1..n
    BY <1>5, <1>6, <1>7, FS_Subset
<1> QED  BY <1>2, <1>3, <1>8

\* What is newest comes from one of the tables.
LEMMA NewestType ==
    ASSUME NEW n \in Nat, NEW tables, DOMAIN tables = 1..n,
           \A i \in 1..n : tables[i] \in Tables, NEW k \in Keys
    PROVE  Newest(tables, k) \in Entry \cup {Absent}
<1> DEFINE has == {i \in DOMAIN tables : tables[i][k] # Absent}
<1>1. CASE has = {}
    BY <1>1 DEF Newest
<1>2. CASE has # {}
  <2>1. \E i \in has : \A j \in has : j <= i
      BY <1>2, Greatest
  <2> DEFINE last == CHOOSE i \in has : \A j \in has : j <= i
  <2>2. last \in has
      BY <2>1
  <2>3. Newest(tables, k) = tables[last][k]
      BY <1>2 DEF Newest
  <2> HIDE DEF last
  <2> QED  BY <2>2, <2>3 DEF Tables
<1> QED  BY <1>1, <1>2

LEMMA MergedType ==
    ASSUME NEW order \in Seq(Timestamps), contents \in [Timestamps -> Tables]
    PROVE  Merged(order) \in Tables
<1>1. /\ DOMAIN Entries(order) = 1..Len(order) /\ Len(order) \in Nat
      /\ \A i \in 1..Len(order) : Entries(order)[i] \in Tables
    BY DEF Entries
<1>2. \A k \in Keys : Newest(Entries(order), k) \in Entry \cup {Absent}
    BY <1>1, NewestType
<1> QED  BY <1>2 DEF Merged, Tables

\* The steps of a compaction, and what starts one.
LEMMA StartCompactionTypes ==
    ASSUME StoreOK, CompactorOK, StartCompaction
    PROVE  /\ CompactorOK'
           /\ contents' \in [Timestamps -> Tables]
           /\ clock' \in Timestamps \cup {0}
<1>1. CASE UNCHANGED <<clock, contents, compactor>>
    BY <1>1 DEF StoreOK, CompactorOK, MergesSome, InPersist
<1>2. CASE ~UNCHANGED <<clock, contents, compactor>>
  <2> DEFINE m == Oldest(segments)
  <2>1. /\ Len(segments) >= 2 /\ clock < MaxSegments /\ clock' = clock + 1
        /\ contents' = [contents EXCEPT ![clock + 1] = Merged(m)]
        /\ compactor' = [Resting EXCEPT !.at = "data", !.segment = clock + 1, !.merging = m]
      BY <1>2 DEF StartCompaction
  <2>2. m \in Seq(Timestamps) /\ m # <<>>
      BY <2>1, OldestType DEF StoreOK
  <2>3. clock + 1 \in Timestamps
      BY <2>1, Bounds DEF StoreOK
  <2>4. Merged(m) \in Tables
      BY <2>2, MergedType DEF StoreOK
  <2> HIDE DEF m
  <2>5. compactor' \in CompactorRecords
      BY <2>1, <2>2, <2>3, RestingType DEF CompactorRecords, Kinds
  <2>6. /\ compactor'.unlinking = <<>> /\ compactor'.at = "data" /\ compactor'.merging = m
        /\ compactor'.segment = clock + 1
      BY <2>1, RestingType DEF CompactorRecords
  <2>7. CompactorOK'
      BY <2>2, <2>3, <2>5, <2>6 DEF CompactorOK, MergesSome
  <2> QED  BY <2>1, <2>3, <2>4, <2>7 DEF StoreOK
<1> QED  BY <1>1, <1>2

LEMMA AfterType ==
    ASSUME NEW kind \in Kinds
    PROVE  /\ After[kind] \in InPersist
           /\ kind # "meta" => After[kind] \in Kinds
BY DEF After, Kinds, InPersist

LEMMA CompactorTypes ==
    ASSUME StoreOK, CompactorOK,
           CompactWrite \/ CompactFails \/ CompactInstall \/ CompactUnlink
    PROVE  CompactorOK' /\ files' \in [Timestamps -> SUBSET Kinds]
<1>0. compactor \in CompactorRecords /\ files \in [Timestamps -> SUBSET Kinds]
    BY DEF CompactorOK, StoreOK
<1>1. CASE CompactWrite
  <2>1. /\ compactor.at \in Kinds /\ compactor' = [compactor EXCEPT !.at = After[@]]
        /\ files' = [files EXCEPT ![compactor.segment] = @ \cup {compactor.at}]
      BY <1>1 DEF CompactWrite
  <2>2. /\ compactor' \in CompactorRecords /\ compactor'.at = After[compactor.at]
        /\ compactor'.unlinking = compactor.unlinking /\ compactor'.merging = compactor.merging
        /\ compactor'.segment = compactor.segment
      BY <1>0, <2>1, AfterType DEF CompactorRecords, InPersist
  <2>3. compactor.at # "unlink" /\ compactor'.at # "unlink"
      BY <2>1, <2>2, AfterType DEF Kinds, InPersist
  <2>4. files' \in [Timestamps -> SUBSET Kinds]
      BY <1>0, <2>1
  <2>5. compactor.at \in InPersist
      BY <2>1 DEF InPersist
  <2> QED  BY <2>2, <2>3, <2>4, <2>5 DEF CompactorOK, MergesSome
<1>2. CASE CompactFails
    BY <1>0, <1>2, RestingType DEF CompactFails, CompactorOK, MergesSome, InPersist, Kinds
<1>3. CASE CompactInstall
  <2>1. /\ compactor.at = "install" /\ UNCHANGED files
        /\ compactor' = [compactor EXCEPT !.at = "unlink", !.unlinking = compactor.merging]
      BY <1>3 DEF CompactInstall
  <2>2. compactor.merging # <<>>
      BY <2>1 DEF CompactorOK, MergesSome, InPersist
  <2>3. /\ compactor' \in CompactorRecords /\ compactor'.at = "unlink"
        /\ compactor'.unlinking = compactor.merging
      BY <1>0, <2>1 DEF CompactorRecords
  <2> QED  BY <1>0, <2>1, <2>2, <2>3 DEF CompactorOK, MergesSome, InPersist, Kinds
<1>4. CASE CompactUnlink
  <2> DEFINE u == compactor.unlinking
  <2>1. u \in Seq(Timestamps) /\ u # <<>> /\ compactor.at = "unlink" /\ compactor.kind \in Kinds
      BY <1>0, <1>4 DEF CompactUnlink, CompactorOK, CompactorRecords
  <2>2. Tail(u) \in Seq(Timestamps) /\ Len(Tail(u)) = Len(u) - 1 /\ Len(u) \in Nat \ {0}
        /\ Head(u) \in Timestamps
      BY <2>1, HeadTailProperties, EmptySeq
  <2>3. files' \in [Timestamps -> SUBSET Kinds]
    <3>1. PICK removed : files' = [files EXCEPT ![Head(u)] = @ \ removed]
        BY <1>4 DEF CompactUnlink
    <3> QED  BY <1>0, <3>1
  <2>4. CASE compactor.kind = "meta" /\ Len(u) = 1
    <3>1. compactor' = Resting
        BY <1>4, <2>4 DEF CompactUnlink
    <3> QED  BY <2>3, <3>1, RestingType DEF CompactorOK, MergesSome, InPersist, Kinds
  <2>5. CASE compactor.kind = "meta" /\ Len(u) # 1
    <3>1. compactor' = [compactor EXCEPT !.kind = "data", !.unlinking = Tail(u)]
        BY <1>4, <2>5 DEF CompactUnlink, UnlinkNext
    <3>2. Tail(u) # <<>>
      <4>1. Len(Tail(u)) # 0
          BY <2>2, <2>5
      <4> QED  BY <4>1, EmptySeq
    <3> HIDE DEF u
    <3>3. /\ compactor' \in CompactorRecords /\ compactor'.at = "unlink"
          /\ compactor'.unlinking = Tail(u)
        BY <1>0, <2>1, <2>2, <3>1 DEF CompactorRecords, Kinds
    <3> QED  BY <2>3, <3>2, <3>3 DEF CompactorOK, MergesSome, InPersist, Kinds
  <2>6. CASE compactor.kind # "meta"
    <3>1. compactor' = [compactor EXCEPT !.kind = After[@]]
        BY <1>4, <2>6 DEF CompactUnlink, UnlinkNext
    <3>2. /\ compactor' \in CompactorRecords /\ compactor'.at = "unlink"
          /\ compactor'.unlinking = u
        BY <1>0, <2>1, <2>6, <3>1, AfterType DEF CompactorRecords
    <3> QED  BY <2>1, <2>3, <3>2 DEF CompactorOK, MergesSome, InPersist, Kinds
  <2> QED  BY <2>4, <2>5, <2>6
<1> QED  BY <1>1, <1>2, <1>3, <1>4

LEMMA BuildTypes ==
    ASSUME StoreOK, NEW c \in Clients, NEW table \in Tables, BuildSegment(c, table)
    PROVE  /\ client' \in [Clients -> ClientRecords]
           /\ contents' \in [Timestamps -> Tables]
           /\ clock' \in Timestamps \cup {0}
           /\ promised' = promised
<1>1. clock + 1 \in Timestamps
    BY Bounds DEF BuildSegment, StoreOK
<1>2. /\ clock' = clock + 1 /\ contents' = [contents EXCEPT ![clock + 1] = table]
      /\ client' = [client EXCEPT ![c].at = "data", ![c].segment = clock + 1]
      /\ promised' = promised
    BY DEF BuildSegment
<1>3. client \in [Clients -> ClientRecords]
    BY DEF StoreOK, ClientRecords
<1>4. [client[c] EXCEPT !.at = "data", !.segment = clock + 1] \in ClientRecords
    BY <1>1, <1>3 DEF ClientRecords, Kinds
<1>5. client' \in [Clients -> ClientRecords]
    BY <1>2, <1>3, <1>4
<1> QED  BY <1>1, <1>2, <1>5 DEF StoreOK

LEMMA AcknowledgeTypes ==
    ASSUME StoreOK, NEW c \in Clients, Acknowledge(c),
           client[c].key # Absent => client[c].value \in Entry
    PROVE  client' \in [Clients -> ClientRecords] /\ promised' \in [Keys -> SUBSET Entry]
<1>1. client \in [Clients -> ClientRecords]
    BY DEF StoreOK, ClientRecords
<1>2. client' \in [Clients -> ClientRecords]
    BY <1>1, IdleType DEF Acknowledge
<1>3. promised' \in [Keys -> SUBSET Entry]
    BY DEF Acknowledge, StoreOK
<1> QED  BY <1>2, <1>3

\* Whoever awaits has a value to put, but for a close, which has no key.
ValuesAwaited ==
    \A c \in Clients :
        /\ client[c].key # Absent => client[c].value \in Entry
        /\ client[c].at \in {"wal", "memtable"} => client[c].key \in Keys /\ client[c].value \in Entry
        /\ client[c].at \in InPersist => client[c].segment \in Timestamps

TypeInv == StoreOK /\ CompactorOK /\ ValuesAwaited

LEMMA ClientTypes ==
    ASSUME TypeInv, NEW c \in Clients,
           \/ \E k \in Keys, v \in Entry : Put(c, k, v)
           \/ WalPut(c) \/ MemtableSet(c) \/ Close(c)
           \/ FlushWrite(c) \/ FlushFails(c) \/ FlushInstall(c) \/ FlushClearWal(c)
    PROVE  TypeInv'
<1>0. /\ StoreOK /\ CompactorOK /\ ValuesAwaited
      /\ client \in [Clients -> ClientRecords] /\ client[c] \in ClientRecords
      /\ files \in [Timestamps -> SUBSET Kinds]
    BY DEF TypeInv, StoreOK, ClientRecords
<1> DEFINE Same == UNCHANGED compactor
           Others == \A d \in Clients : d # c => client'[d] = client[d]
           Awaits == /\ client'[c].key # Absent => client'[c].value \in Entry
                     /\ client'[c].at \in {"wal", "memtable"} =>
                            client'[c].key \in Keys /\ client'[c].value \in Entry
                     /\ client'[c].at \in InPersist => client'[c].segment \in Timestamps
<1>1. ASSUME client' \in [Clients -> ClientRecords], Others, Awaits
      PROVE  ValuesAwaited'
    BY <1>0, <1>1 DEF ValuesAwaited
<1>2. ASSUME UNCHANGED compactor PROVE CompactorOK'
    BY <1>0, <1>2 DEF CompactorOK, MergesSome
<1>3. ASSUME NEW k \in Keys, NEW v \in Entry, Put(c, k, v) PROVE TypeInv'
  <2> DEFINE r == [at |-> "wal", key |-> k, value |-> v, segment |-> 0]
  <2>1. /\ client' = [client EXCEPT ![c] = r] /\ puts' = puts + 1 /\ puts < MaxPuts
        /\ promised' = [promised EXCEPT ![k] = @ \cup {v}]
        /\ UNCHANGED <<mode, memtable, segments, compactor, wal, files, contents, clock>>
      BY <1>3 DEF Put
  <2>2. r \in ClientRecords /\ r.key = k /\ r.value = v /\ r.at \notin InPersist
      BY DEF ClientRecords, InPersist, Kinds
  <2> HIDE DEF r
  <2>3. client' \in [Clients -> ClientRecords] /\ client'[c] = r /\ Others
      BY <1>0, <2>1, <2>2
  <2>4. ValuesAwaited'
      BY <1>1, <2>2, <2>3
  <2>5. puts' \in 0..MaxPuts /\ promised' \in [Keys -> SUBSET Entry]
      BY <1>0, <2>1, Bounds DEF StoreOK
  <2>6. CompactorOK'
      BY <1>2, <2>1
  <2> QED  BY <1>0, <2>1, <2>3, <2>4, <2>5, <2>6 DEF TypeInv, StoreOK, ClientRecords
<1>4. CASE WalPut(c)
  <2>1. /\ client[c].at = "wal" /\ client' = [client EXCEPT ![c].at = "memtable"]
        /\ wal' = [wal EXCEPT ![client[c].key] = Decoded(client[c].value)]
        /\ UNCHANGED <<mode, memtable, segments, compactor, files, contents, clock, puts, promised>>
      BY <1>4 DEF WalPut
  <2>2. client[c].key \in Keys /\ client[c].value \in Entry
      BY <1>0, <2>1 DEF ValuesAwaited
  <2>3. [client[c] EXCEPT !.at = "memtable"] \in ClientRecords
      BY <1>0 DEF ClientRecords
  <2>4. client' \in [Clients -> ClientRecords] /\ Others
        /\ client'[c].key = client[c].key /\ client'[c].value = client[c].value
        /\ client'[c].at = "memtable"
      BY <1>0, <2>1, <2>3 DEF ClientRecords
  <2>5. ValuesAwaited'
      BY <1>1, <2>2, <2>4 DEF InPersist, Kinds
  <2>6. wal' \in Tables
      BY <1>0, <2>1, <2>2, DecodedType DEF StoreOK, Tables
  <2>7. CompactorOK'
      BY <1>2, <2>1
  <2> QED  BY <1>0, <2>1, <2>4, <2>5, <2>6, <2>7 DEF TypeInv, StoreOK, ClientRecords
<1>5. ASSUME client' \in [Clients -> ClientRecords],
             promised' \in [Keys -> SUBSET Entry], memtable' \in Tables, wal' \in Tables,
             clock' \in Timestamps \cup {0}, contents' \in [Timestamps -> Tables],
             CompactorOK', segments' \in Seq(Timestamps), files' \in [Timestamps -> SUBSET Kinds],
             UNCHANGED puts, mode' \in {mode, "closing"},
             Others, client'[c] = Idle \/ (/\ client'[c].key = client[c].key
                                           /\ client'[c].value = client[c].value
                                           /\ client'[c].at \notin {"wal", "memtable"}
                                           /\ client'[c].at \in InPersist =>
                                                  client'[c].segment \in Timestamps)
      PROVE  TypeInv'
  <2>1. Awaits
      BY <1>0, <1>5 DEF ValuesAwaited, Idle, InPersist, Kinds
  <2>2. ValuesAwaited'
      BY <1>1, <1>5, <2>1
  <2>3. /\ compactor' \in CompactorRecords
        /\ compactor'.at = "unlink" <=> compactor'.unlinking # <<>>
      BY <1>5 DEF CompactorOK
  <2> QED  BY <1>0, <1>5, <2>2, <2>3 DEF TypeInv, StoreOK, ClientRecords, CompactorRecords
<1>6. ASSUME Acknowledge(c)
      PROVE  client'[c] = Idle /\ Others
    BY <1>0, <1>6 DEF Acknowledge
<1>7. ASSUME NEW table \in Tables, BuildSegment(c, table)
      PROVE  /\ Others /\ client'[c].key = client[c].key
             /\ client'[c].value = client[c].value /\ client'[c].at = "data"
             /\ client'[c].segment \in Timestamps
    BY <1>0, <1>7, Bounds DEF BuildSegment, ClientRecords, StoreOK
<1>8. CASE MemtableSet(c)
  <2> DEFINE table == [memtable EXCEPT ![client[c].key] = client[c].value]
  <2>1. /\ client[c].at = "memtable" /\ memtable' = table
        /\ \/ BuildSegment(c, table)
           \/ Acknowledge(c) /\ UNCHANGED <<clock, contents>>
        /\ UNCHANGED <<mode, segments, compactor, wal, files, puts>>
      BY <1>8 DEF MemtableSet
  <2>2. client[c].key \in Keys /\ client[c].value \in Entry
      BY <1>0, <2>1 DEF ValuesAwaited
  <2>3. table \in Tables
      BY <1>0, <2>2 DEF StoreOK, Tables
  <2> HIDE DEF table
  <2>4. CASE BuildSegment(c, table)
      BY <1>0, <1>2, <1>5, <1>7, <2>1, <2>3, <2>4, BuildTypes DEF StoreOK
  <2>5. CASE Acknowledge(c) /\ UNCHANGED <<clock, contents>>
      BY <1>0, <1>2, <1>5, <1>6, <2>1, <2>2, <2>3, <2>5, AcknowledgeTypes DEF StoreOK
  <2> QED  BY <2>1, <2>4, <2>5
<1>9. CASE Close(c)
  <2>1. /\ client[c] = Idle /\ mode' = "closing"
        /\ \/ BuildSegment(c, memtable)
           \/ UNCHANGED <<client, contents, clock, promised>>
        /\ UNCHANGED <<memtable, segments, compactor, wal, files, puts>>
      BY <1>9 DEF Close
  <2>2. memtable \in Tables
      BY <1>0 DEF StoreOK
  <2>3. CASE BuildSegment(c, memtable)
      BY <1>0, <1>2, <1>5, <1>7, <2>1, <2>2, <2>3, BuildTypes DEF StoreOK
  <2>4. CASE UNCHANGED <<client, contents, clock, promised>>
    <3>1. Others /\ client'[c] = Idle
        BY <2>1, <2>4
    <3> QED  BY <1>0, <1>2, <1>5, <2>1, <2>4, <3>1 DEF StoreOK
  <2> QED  BY <2>1, <2>3, <2>4
<1>10. CASE FlushWrite(c)
  <2>1. /\ client[c].at \in Kinds /\ client' = [client EXCEPT ![c].at = After[@]]
        /\ files' = [files EXCEPT ![client[c].segment] = @ \cup {client[c].at}]
        /\ UNCHANGED <<mode, memtable, segments, compactor, wal, contents, clock, puts, promised>>
      BY <1>10 DEF FlushWrite
  <2>2. [client[c] EXCEPT !.at = After[@]] \in ClientRecords
      BY <1>0, <2>1, AfterType DEF ClientRecords, InPersist
  <2>3. client' \in [Clients -> ClientRecords] /\ Others
        /\ client'[c].key = client[c].key /\ client'[c].value = client[c].value
        /\ client'[c].at = After[client[c].at] /\ client'[c].segment = client[c].segment
      BY <1>0, <2>1, <2>2 DEF ClientRecords
  <2>4. client'[c].at \notin {"wal", "memtable"} /\ client[c].segment \in Timestamps
      BY <1>0, <2>1, <2>3, AfterType DEF ValuesAwaited, InPersist, Kinds
  <2>5. files' \in [Timestamps -> SUBSET Kinds]
      BY <1>0, <2>1
  <2> QED  BY <1>0, <1>2, <1>5, <2>1, <2>3, <2>4, <2>5 DEF StoreOK
<1>11. CASE FlushFails(c)
  <2>1. /\ client' = [client EXCEPT ![c] = Idle]
        /\ UNCHANGED <<mode, memtable, segments, compactor, wal, files, contents, clock, puts, promised>>
      BY <1>11 DEF FlushFails
  <2>2. client' \in [Clients -> ClientRecords] /\ Others /\ client'[c] = Idle
      BY <1>0, <2>1, IdleType
  <2> QED  BY <1>0, <1>2, <1>5, <2>1, <2>2 DEF StoreOK
<1>12. CASE FlushInstall(c)
  <2>1. /\ client[c].at = "install" /\ segments' = Append(segments, client[c].segment)
        /\ memtable' = EmptyTable /\ client' = [client EXCEPT ![c].at = "clear"]
        /\ UNCHANGED <<mode, compactor, wal, files, contents, clock, puts, promised>>
      BY <1>12 DEF FlushInstall
  <2>2. [client[c] EXCEPT !.at = "clear"] \in ClientRecords
      BY <1>0 DEF ClientRecords
  <2>3. client' \in [Clients -> ClientRecords] /\ Others
        /\ client'[c].key = client[c].key /\ client'[c].value = client[c].value
        /\ client'[c].at = "clear"
      BY <1>0, <2>1, <2>2 DEF ClientRecords
  <2>4. client[c].segment \in Timestamps
      BY <1>0, <2>1 DEF ValuesAwaited, InPersist
  <2>5. segments' \in Seq(Timestamps) /\ client'[c].at \notin InPersist
      BY <1>0, <2>1, <2>3, <2>4 DEF StoreOK, InPersist, Kinds
  <2> QED  BY <1>0, <1>2, <1>5, <2>1, <2>3, <2>5, EmptyTableType DEF StoreOK
<1>13. CASE FlushClearWal(c)
  <2>1. /\ wal' = EmptyTable /\ Acknowledge(c) /\ StartCompaction
        /\ UNCHANGED <<mode, memtable, segments, files, puts>>
      BY <1>13 DEF FlushClearWal
  <2>2. client[c].key # Absent => client[c].value \in Entry
      BY <1>0 DEF ValuesAwaited
  <2> QED  BY <1>0, <1>5, <1>6, <2>1, <2>2, AcknowledgeTypes, StartCompactionTypes, EmptyTableType DEF StoreOK
<1> QED  BY <1>3, <1>4, <1>8, <1>9, <1>10, <1>11, <1>12, <1>13

LEMMA InstallTypes ==
    ASSUME TypeInv, CompactInstall
    PROVE  segments' \in Seq(Timestamps)
<1> DEFINE n == Len(compactor.merging)
           rest == SubSeq(segments, n + 1, Len(segments))
           s == compactor.segment
<1>1. /\ compactor.at = "install" /\ segments' = <<s>> \o rest
    BY DEF CompactInstall
<1>2. s \in Timestamps /\ segments \in Seq(Timestamps) /\ n \in Nat
    BY <1>1 DEF TypeInv, StoreOK, CompactorOK, CompactorRecords, MergesSome, InPersist
<1>3. rest \in Seq(Timestamps)
  <2>1. n + 1 \in Int /\ Len(segments) \in Int /\ \A i \in (n + 1)..Len(segments) : segments[i] \in Timestamps
      BY <1>2
  <2> QED  BY <2>1, SubSeqProperties
<1>4. <<s>> \in Seq(Timestamps)
    BY <1>2
<1> HIDE DEF rest, s
<1> QED  BY <1>1, <1>3, <1>4, ConcatProperties

LEMMA OpenTypes ==
    ASSUME TypeInv, Open
    PROVE  segments' \in Seq(Timestamps)
<1>1. segments' = segments \/ segments' = ByTimestamp(Listed)
    BY DEF Open
<1>2. Listed \subseteq Timestamps /\ IsFiniteSet(Timestamps) /\ IsFiniteSet(Listed)
  <2>1. IsFiniteSet(1..MaxSegments)
      BY Bounds, FS_Interval
  <2>2. Listed \in SUBSET (1..MaxSegments)
      BY DEF Listed, Timestamps
  <2> QED  BY <2>1, <2>2, FS_Subset DEF Timestamps
<1> DEFINE n == Cardinality(Listed)
<1>3. n \in Nat
    BY <1>2, FS_CardinalityType
<1>4. ASSUME NEW i \in 1..n
      PROVE  \E t \in Listed : Cardinality({u \in Listed : u <= t}) = i
    BY <1>4, <1>2, Ranked DEF Upto
<1>5. \A i \in 1..n : ByTimestamp(Listed)[i] \in Timestamps
    BY <1>2, <1>4 DEF ByTimestamp
<1>6. ByTimestamp(Listed) \in [1..n -> Timestamps]
    BY <1>5 DEF ByTimestamp
<1>7. ByTimestamp(Listed) \in Seq(Timestamps)
    BY <1>3, <1>6
<1> QED  BY <1>1, <1>7 DEF TypeInv, StoreOK

LEMMA TypeInit == Init => TypeInv
<1> SUFFICES ASSUME Init PROVE TypeInv
    OBVIOUS
<1>1. /\ mode = "up" /\ memtable = EmptyTable /\ segments = <<>> /\ wal = EmptyTable
      /\ client = [c \in Clients |-> Idle] /\ compactor = Resting /\ clock = 0 /\ puts = 0
      /\ files = [t \in Timestamps |-> {}] /\ contents = [t \in Timestamps |-> EmptyTable]
      /\ promised = [k \in Keys |-> {Tombstone}]
    BY DEF Init
<1>2. client \in [Clients -> ClientRecords] /\ \A c \in Clients : client[c] = Idle
    BY <1>1, IdleType
<1>3. ValuesAwaited
    BY <1>2 DEF ValuesAwaited, Idle, InPersist, Kinds
<1>4. CompactorOK
    BY <1>1, RestingType DEF CompactorOK, MergesSome, InPersist, Kinds
<1>5. promised \in [Keys -> SUBSET Entry] /\ puts \in 0..MaxPuts
    BY <1>1, Bounds DEF Entry
<1>6. contents \in [Timestamps -> Tables] /\ files \in [Timestamps -> SUBSET Kinds]
    BY <1>1, EmptyTableType
<1> QED  BY <1>1, <1>2, <1>3, <1>4, <1>5, <1>6, EmptyTableType
         DEF TypeInv, StoreOK, CompactorOK, ClientRecords, CompactorRecords

LEMMA TypeNext == TypeInv /\ [Next]_vars => TypeInv'
<1> SUFFICES ASSUME TypeInv, [Next]_vars PROVE TypeInv'
    OBVIOUS
<1>0. /\ StoreOK /\ CompactorOK /\ ValuesAwaited /\ client \in [Clients -> ClientRecords]
      /\ compactor \in CompactorRecords
      /\ compactor.at = "unlink" <=> compactor.unlinking # <<>>
    BY DEF TypeInv, StoreOK, ClientRecords, CompactorOK
<1>1. ASSUME CompactorOK', client' \in [Clients -> ClientRecords], ValuesAwaited',
             segments' \in Seq(Timestamps), memtable' \in Tables,
             mode' \in {"up", "closing", "down", "broken"},
             files' \in [Timestamps -> SUBSET Kinds],
             UNCHANGED <<wal, contents, clock, puts, promised>>
      PROVE  TypeInv'
    BY <1>0, <1>1 DEF TypeInv, StoreOK, CompactorOK, ClientRecords, CompactorRecords
<1>2. ASSUME UNCHANGED client PROVE client' \in [Clients -> ClientRecords] /\ ValuesAwaited'
    BY <1>0, <1>2 DEF ValuesAwaited
<1>3. CASE \E c \in Clients :
              \/ \E k \in Keys, v \in Entry : Put(c, k, v)
              \/ WalPut(c) \/ MemtableSet(c) \/ Close(c)
              \/ FlushWrite(c) \/ FlushFails(c) \/ FlushInstall(c) \/ FlushClearWal(c)
    BY <1>3, ClientTypes
<1>4. CASE CompactWrite \/ CompactFails \/ CompactInstall \/ CompactUnlink
  <2>1. CompactorOK' /\ files' \in [Timestamps -> SUBSET Kinds]
      BY <1>0, <1>4, CompactorTypes
  <2>2. UNCHANGED <<mode, memtable, client, wal, contents, clock, puts, promised>>
      BY <1>4 DEF CompactWrite, CompactFails, CompactInstall, CompactUnlink
  <2>3. segments' \in Seq(Timestamps)
    <3>1. CompactInstall \/ UNCHANGED segments
        BY <1>4 DEF CompactWrite, CompactFails, CompactUnlink
    <3> QED  BY <1>0, <3>1, InstallTypes DEF StoreOK
  <2> QED  BY <1>0, <1>1, <1>2, <2>1, <2>2, <2>3 DEF StoreOK
<1>5. CASE Crash
  <2>1. /\ mode' = "down" /\ memtable' = EmptyTable /\ segments' = <<>>
        /\ client' = [c \in Clients |-> Idle] /\ compactor' = Resting
        /\ UNCHANGED <<wal, files, contents, clock, puts, promised>>
      BY <1>5 DEF Crash
  <2>2. client' \in [Clients -> ClientRecords] /\ \A c \in Clients : client'[c] = Idle
      BY <2>1, IdleType
  <2>3. ValuesAwaited'
      BY <2>2 DEF ValuesAwaited, Idle, InPersist, Kinds
  <2>4. CompactorOK'
      BY <2>1, RestingType DEF CompactorOK, MergesSome, InPersist, Kinds
  <2> QED  BY <1>0, <1>1, <2>1, <2>2, <2>3, <2>4, EmptyTableType DEF StoreOK
<1>6. CASE Open
  <2>1. /\ mode' \in {"up", "broken"} /\ memtable' \in {wal, memtable}
        /\ UNCHANGED <<client, compactor, wal, files, contents, clock, puts, promised>>
      BY <1>6 DEF Open
  <2>2. CompactorOK'
      BY <1>0, <2>1 DEF CompactorOK, MergesSome
  <2> QED  BY <1>0, <1>1, <1>2, <1>6, <2>1, <2>2, OpenTypes DEF StoreOK
<1>7. CASE UNCHANGED vars
    BY <1>0, <1>7 DEF vars, TypeInv, StoreOK, CompactorOK, MergesSome, ValuesAwaited
<1> QED  BY <1>3, <1>4, <1>5, <1>6, <1>7 DEF Next

LEMMA HistoryInit == Init => HistoryOK
BY DEF Init, HistoryOK

LEMMA HistoryNext == HistoryOK /\ [Next]_vars => HistoryOK'
<1> SUFFICES ASSUME HistoryOK, [Next]_vars PROVE HistoryOK'
    OBVIOUS
<1>1. ASSUME overlapped' \in BOOLEAN, untidy' \in BOOLEAN, reloaded' \in BOOLEAN
      PROVE  HistoryOK'
    BY <1>1 DEF HistoryOK
<1>2. overlapped \in BOOLEAN /\ untidy \in BOOLEAN /\ reloaded \in BOOLEAN
    BY DEF HistoryOK
<1>3. CASE history' = history
    BY <1>1, <1>2, <1>3 DEF history
<1>4. CASE \E c \in Clients, k \in Keys, v \in Entry : Put(c, k, v)
    BY <1>1, <1>2, <1>4 DEF Put
<1>5. CASE \E c \in Clients : FlushClearWal(c)
    BY <1>1, <1>2, <1>5 DEF FlushClearWal, StartCompaction
<1>6. CASE CompactUnlink
    BY <1>1, <1>2, <1>6 DEF CompactUnlink
<1>7. CASE Open
    BY <1>1, <1>2, <1>7 DEF Open
<1>8. CASE \E c \in Clients : WalPut(c) \/ MemtableSet(c) \/ Close(c)
                              \/ FlushWrite(c) \/ FlushFails(c) \/ FlushInstall(c)
    BY <1>3, <1>8 DEF WalPut, MemtableSet, Close, FlushWrite, FlushFails, FlushInstall
<1>9. CASE CompactWrite \/ CompactFails \/ CompactInstall \/ Crash
    BY <1>3, <1>9 DEF CompactWrite, CompactFails, CompactInstall, Crash
<1>10. CASE UNCHANGED vars
    BY <1>3, <1>10 DEF vars, history
<1> QED  BY <1>4, <1>5, <1>6, <1>7, <1>8, <1>9, <1>10 DEF Next

\* The log, the table, the segments, their files and the compaction under way
\* keep their types, whatever is interrupted, fails or is restarted; a put that
\* awaits its flush names a segment, and a compaction that unlinks has files
\* left to unlink.
THEOREM TypeCorrect == Spec => []TypeOK
<1>1. TypeInv /\ HistoryOK => TypeOK
    BY DEF TypeInv, TypeOK
<1> QED  BY TypeInit, TypeNext, HistoryInit, HistoryNext, <1>1, PTL DEF Spec

-----------------------------------------------------------------------------
(* What a read finds, among layers that are ordered by a number: the places *)
(* of the segments loaded, or the timestamps of those on the disk.          *)

Members(s) == {s[i] : i \in DOMAIN s}

Increasing(s) == \A i, j \in DOMAIN s : i < j => s[i] < s[j]

\* The tables of the segments of a sequence, by place.
Layers(cs, order) == [i \in DOMAIN order |-> cs[order[i]]]

\* v is the newest entry for k of the layers S, whose tables are in cs.
IsNewest(cs, S, k, v) ==
    \/ v = Absent /\ \A t \in S : cs[t][k] = Absent
    \/ \E t \in S : /\ cs[t][k] = v /\ v # Absent
                    /\ \A u \in S : u > t => cs[u][k] = Absent

Reads(cs, S, table, k, v) ==
    IF table[k] # Absent THEN v = table[k] ELSE IsNewest(cs, S, k, v)

\* Every key reads as promised from the layers S under a table.
Promised(cs, S, table, pr) ==
    \A k \in Keys : \E v \in Entry \cup {Absent} : Reads(cs, S, table, k, v) /\ Visible(v) \in pr[k]

\* A table is what compaction makes of the layers S.
IsMerged(cs, table, S) ==
    \A k \in Keys : \E v \in Entry \cup {Absent} :
        IsNewest(cs, S, k, v) /\ table[k] = (IF v = Tombstone THEN Absent ELSE v)

LEMMA Markers == Tombstone # Absent /\ Absent \notin Entry /\ Tombstone \in Entry
<1>1. Absent \notin Nat /\ Absent # Garbled /\ Absent # Tombstone
    BY MarkersAssumption
<1> QED  BY <1>1, Bounds DEF Entry, Values

LEMMA NewestUnique ==
    ASSUME NEW cs, NEW S \in SUBSET Nat, NEW k, NEW v, NEW w,
           IsNewest(cs, S, k, v), IsNewest(cs, S, k, w)
    PROVE  v = w
<1>1. ASSUME NEW t \in S, NEW u \in S, cs[t][k] # Absent, cs[u][k] # Absent,
             \A x \in S : x > t => cs[x][k] = Absent,
             \A x \in S : x > u => cs[x][k] = Absent
      PROVE  t = u
  <2>1. ~(t > u) /\ ~(u > t)
      BY <1>1
  <2> QED  BY <2>1
<1> QED  BY <1>1 DEF IsNewest

LEMMA NewestStays ==
    ASSUME NEW cs, NEW ds, NEW S, \A t \in S : ds[t] = cs[t], NEW k, NEW v, IsNewest(cs, S, k, v)
    PROVE  IsNewest(ds, S, k, v)
BY DEF IsNewest

LEMMA NewestOfTables ==
    ASSUME NEW n \in Nat, NEW tables, DOMAIN tables = 1..n, NEW k
    PROVE  /\ (\A i \in 1..n : tables[i][k] = Absent) => Newest(tables, k) = Absent
           /\ \A i \in 1..n :
                (tables[i][k] # Absent /\ \A j \in 1..n : j > i => tables[j][k] = Absent)
                    => Newest(tables, k) = tables[i][k]
<1> DEFINE has == {i \in DOMAIN tables : tables[i][k] # Absent}
<1>1. ASSUME \A i \in 1..n : tables[i][k] = Absent PROVE Newest(tables, k) = Absent
  <2>1. has = {}
      BY <1>1
  <2> QED  BY <2>1 DEF Newest
<1>2. ASSUME NEW i \in 1..n, tables[i][k] # Absent,
             \A j \in 1..n : j > i => tables[j][k] = Absent
      PROVE  Newest(tables, k) = tables[i][k]
  <2>1. i \in has /\ \A j \in has : j <= i
      BY <1>2
  <2>2. \A m \in has : (\A j \in has : j <= m) => m = i
      BY <2>1
  <2>3. (CHOOSE m \in has : \A j \in has : j <= m) = i
      BY <2>1, <2>2
  <2> QED  BY <2>1, <2>3 DEF Newest
<1> QED  BY <1>1, <1>2

LEMMA NewestIs ==
    ASSUME NEW n \in Nat, NEW tables, DOMAIN tables = 1..n, NEW k
    PROVE  IsNewest(tables, 1..n, k, Newest(tables, k))
<1> DEFINE has == {i \in 1..n : tables[i][k] # Absent}
<1>1. CASE has = {}
  <2>1. \A i \in 1..n : tables[i][k] = Absent
      BY <1>1
  <2> QED  BY <2>1, NewestOfTables DEF IsNewest
<1>2. CASE has # {}
  <2>1. PICK i \in has : \A j \in has : j <= i
      BY <1>2, Greatest
  <2>2. \A j \in 1..n : j > i => tables[j][k] = Absent
      BY <2>1
  <2>3. Newest(tables, k) = tables[i][k]
      BY <2>1, <2>2, NewestOfTables
  <2> QED  BY <2>1, <2>2, <2>3 DEF IsNewest
<1> QED  BY <1>1, <1>2

\* Segments in the order of their timestamps read the same by either number.
LEMMA ByPlace ==
    ASSUME NEW cs, NEW order \in Seq(Timestamps), Increasing(order), NEW k, NEW v
    PROVE  IsNewest(cs, Members(order), k, v) <=> IsNewest(Layers(cs, order), DOMAIN order, k, v)
<1> DEFINE n == Len(order)
           layers == Layers(cs, order)
<1>1. /\ n \in Nat /\ DOMAIN order = 1..n
      /\ \A i \in 1..n : layers[i] = cs[order[i]] /\ order[i] \in Members(order)
      /\ \A t \in Members(order) : \E i \in 1..n : order[i] = t
    BY DEF Layers, Members
<1>2. \A i \in 1..n : order[i] \in Nat
  <2>1. \A i \in 1..n : order[i] \in Timestamps
      BY <1>1
  <2> QED  BY <2>1, Bounds
<1> HIDE DEF layers, n
<1>3. \A i, j \in 1..n : j > i <=> order[j] > order[i]
  <2> SUFFICES ASSUME NEW i \in 1..n, NEW j \in 1..n PROVE j > i <=> order[j] > order[i]
      OBVIOUS
  <2>1. (i < j => order[i] < order[j]) /\ (j < i => order[j] < order[i])
      BY <1>1 DEF Increasing
  <2>2. i < j \/ j < i \/ i = j
      BY <1>1
  <2>3. order[i] \in Nat /\ order[j] \in Nat
      BY <1>2
  <2> QED  BY <1>1, <2>1, <2>2, <2>3
<1>4. ASSUME IsNewest(cs, Members(order), k, v) PROVE IsNewest(layers, 1..n, k, v)
  <2>1. CASE v = Absent /\ \A t \in Members(order) : cs[t][k] = Absent
      BY <1>1, <2>1 DEF IsNewest
  <2>2. ASSUME NEW t \in Members(order), cs[t][k] = v, v # Absent,
               \A u \in Members(order) : u > t => cs[u][k] = Absent
        PROVE  IsNewest(layers, 1..n, k, v)
    <3>1. PICK i \in 1..n : order[i] = t
        BY <1>1
    <3>2. layers[i][k] = v /\ \A j \in 1..n : j > i => layers[j][k] = Absent
        BY <1>1, <1>3, <2>2, <3>1
    <3> QED  BY <2>2, <3>2 DEF IsNewest
  <2> QED  BY <1>4, <2>1, <2>2 DEF IsNewest
<1>5. ASSUME IsNewest(layers, 1..n, k, v) PROVE IsNewest(cs, Members(order), k, v)
  <2>1. CASE v = Absent /\ \A i \in 1..n : layers[i][k] = Absent
    <3>1. \A t \in Members(order) : cs[t][k] = Absent
        BY <1>1, <2>1
    <3> QED  BY <2>1, <3>1 DEF IsNewest
  <2>2. ASSUME NEW i \in 1..n, layers[i][k] = v, v # Absent,
               \A j \in 1..n : j > i => layers[j][k] = Absent
        PROVE  IsNewest(cs, Members(order), k, v)
    <3>1. \A u \in Members(order) : u > order[i] => cs[u][k] = Absent
        BY <1>1, <1>3, <2>2
    <3>2. cs[order[i]][k] = v /\ order[i] \in Members(order)
        BY <1>1, <2>2
    <3> QED  BY <2>2, <3>1, <3>2 DEF IsNewest
  <2> QED  BY <1>5, <2>1, <2>2 DEF IsNewest
<1> QED  BY <1>1, <1>4, <1>5 DEF layers

LEMMA PromisedByPlace ==
    ASSUME NEW cs, NEW order \in Seq(Timestamps), Increasing(order), NEW table, NEW pr
    PROVE  Promised(cs, Members(order), table, pr)
               <=> Promised(Layers(cs, order), DOMAIN order, table, pr)
<1>1. \A k, v : Reads(cs, Members(order), table, k, v)
                    <=> Reads(Layers(cs, order), DOMAIN order, table, k, v)
    BY ByPlace DEF Reads
<1> QED  BY <1>1 DEF Promised

\* The filter never hides an entry.
LEMMA FilteredTable ==
    ASSUME NEW order \in Seq(Timestamps), NEW i \in DOMAIN order, NEW k \in Keys
    PROVE  SegmentTables(order)[i][k] = contents[order[i]][k]
<1> DEFINE table == contents[order[i]]
<1>1. SegmentTables(order)[i][k] = IF mightContain(Filter(table), k) THEN table[k] ELSE Absent
    BY DEF SegmentTables
<1>2. ASSUME table[k] # Absent PROVE mightContain(Filter(table), k)
    BY <1>2 DEF mightContain, Filter
<1> QED  BY <1>1, <1>2

LEMMA ReadIs ==
    ASSUME NEW order \in Seq(Timestamps), NEW table, NEW k \in Keys, NEW v,
           Reads(Layers(contents, order), DOMAIN order, table, k, v)
    PROVE  Newest(Append(SegmentTables(order), table), k) = v
<1> DEFINE n == Len(order)
           tables == Append(SegmentTables(order), table)
           layers == Layers(contents, order)
<1>1. n \in Nat /\ DOMAIN order = 1..n
    OBVIOUS
<1>2. /\ DOMAIN tables = 1..(n + 1) /\ tables[n + 1] = table
      /\ \A i \in 1..n : tables[i] = SegmentTables(order)[i]
  <2> DEFINE st == SegmentTables(order)
  <2>1. st \in Seq({st[i] : i \in 1..n} \cup {table}) /\ Len(st) = n
      BY <1>1 DEF SegmentTables
  <2> HIDE DEF st
  <2> QED  BY <1>1, <2>1 DEF st
<1>3. \A i \in 1..n : tables[i][k] = layers[i][k]
    BY <1>1, <1>2, FilteredTable DEF Layers
<1> HIDE DEF tables, layers
<1>4. /\ n + 1 \in Nat /\ n + 1 \in 1..(n + 1)
      /\ \A i \in 1..(n + 1) : i \in 1..n \/ i = n + 1
      /\ \A i \in 1..n : i \in 1..(n + 1) /\ n + 1 > i
    BY <1>1
<1>5. CASE table[k] # Absent
  <2>1. \A j \in 1..(n + 1) : j > n + 1 => tables[j][k] = Absent
      BY <1>1
  <2>2. Newest(tables, k) = tables[n + 1][k]
      BY <1>2, <1>4, <1>5, <2>1, NewestOfTables
  <2> QED  BY <1>2, <1>5, <2>2 DEF Reads, tables
<1>6. CASE table[k] = Absent /\ v = Absent /\ \A i \in 1..n : layers[i][k] = Absent
  <2>1. \A i \in 1..(n + 1) : tables[i][k] = Absent
      BY <1>2, <1>3, <1>4, <1>6
  <2>2. Newest(tables, k) = Absent
      BY <1>2, <1>4, <2>1, NewestOfTables
  <2> QED  BY <1>6, <2>2 DEF tables
<1>7. ASSUME table[k] = Absent, NEW i \in 1..n, layers[i][k] = v, v # Absent,
             \A j \in 1..n : j > i => layers[j][k] = Absent
      PROVE  Newest(Append(SegmentTables(order), table), k) = v
  <2>1. \A j \in 1..(n + 1) : j > i => tables[j][k] = Absent
      BY <1>2, <1>3, <1>4, <1>7
  <2>2. tables[i][k] = v /\ i \in 1..(n + 1)
      BY <1>3, <1>4, <1>7
  <2>3. Newest(tables, k) = tables[i][k]
      BY <1>2, <1>4, <1>7, <2>1, <2>2, NewestOfTables
  <2> QED  BY <2>2, <2>3 DEF tables
<1> QED  BY <1>1, <1>5, <1>6, <1>7 DEF Reads, IsNewest, layers

LEMMA TimestampsFinite ==
    ASSUME NEW S \in SUBSET Timestamps
    PROVE  IsFiniteSet(S) /\ Cardinality(S) \in Nat
<1>1. IsFiniteSet(1..MaxSegments)
    BY Bounds, FS_Interval
<1> QED  BY <1>1, FS_Subset, FS_CardinalityType DEF Timestamps

LEMMA Sorted ==
    ASSUME NEW S \in SUBSET Timestamps
    PROVE  /\ ByTimestamp(S) \in Seq(Timestamps)
           /\ Increasing(ByTimestamp(S))
           /\ Members(ByTimestamp(S)) = S
<1> DEFINE n == Cardinality(S)
           order == ByTimestamp(S)
<1>1. IsFiniteSet(S) /\ n \in Nat
    BY TimestampsFinite
<1>2. order = [i \in 1..n |-> CHOOSE t \in S : Cardinality(Upto(S, t)) = i]
    BY DEF ByTimestamp, Upto
<1>3. /\ \A t \in S : Cardinality(Upto(S, t)) \in 1..n
      /\ \A t, u \in S : t < u => Cardinality(Upto(S, t)) < Cardinality(Upto(S, u))
      /\ \A i \in 1..n : \E t \in S : Cardinality(Upto(S, t)) = i
    BY <1>1, Ranked
<1> HIDE DEF n, order
<1>4. \A i \in 1..n : order[i] \in S /\ Cardinality(Upto(S, order[i])) = i
    BY <1>2, <1>3
<1>5. order \in Seq(Timestamps) /\ DOMAIN order = 1..n
    BY <1>1, <1>2, <1>4
<1>6. \A t, u \in S : t < u \/ u < t \/ t = u
    BY Bounds
<1>7. Increasing(order)
  <2> SUFFICES ASSUME NEW i \in 1..n, NEW j \in 1..n, i < j PROVE order[i] < order[j]
      BY <1>5 DEF Increasing
  <2>1. order[i] # order[j]
      BY <1>4
  <2>2. ~(order[j] < order[i])
    <3> SUFFICES ASSUME order[j] < order[i] PROVE FALSE
        OBVIOUS
    <3>1. j < i
        BY <1>3, <1>4
    <3> QED  BY <3>1
  <2> QED  BY <1>4, <1>6, <2>1, <2>2
<1>8. \A t \in S : \E i \in 1..n : order[i] = t
  <2> SUFFICES ASSUME NEW t \in S PROVE \E i \in 1..n : order[i] = t
      OBVIOUS
  <2> DEFINE i == Cardinality(Upto(S, t))
  <2>1. i \in 1..n
      BY <1>3
  <2>2. order[i] \in S /\ Cardinality(Upto(S, order[i])) = i
      BY <1>4, <2>1
  <2>3. ~(order[i] < t) /\ ~(t < order[i])
      BY <1>3, <2>1, <2>2
  <2> QED  BY <1>6, <2>1, <2>2, <2>3
<1>9. Members(order) = S
    BY <1>4, <1>5, <1>8 DEF Members
<1> QED  BY <1>5, <1>7, <1>9 DEF order

-----------------------------------------------------------------------------
(* Each step of the disk and of the memory leaves every key reading as     *)
(* promised.                                                               *)

\* Tables of other segments do not matter, and promises may grow.
LEMMA PromisedGrows ==
    ASSUME NEW cs, NEW ds, NEW S, NEW table, NEW pr, NEW qr, Promised(cs, S, table, pr),
           \A t \in S : ds[t] = cs[t], \A k \in Keys : pr[k] \subseteq qr[k]
    PROVE  Promised(ds, S, table, qr)
<1> SUFFICES ASSUME NEW k \in Keys
             PROVE  \E v \in Entry \cup {Absent} : Reads(ds, S, table, k, v) /\ Visible(v) \in qr[k]
    BY DEF Promised
<1>1. PICK v \in Entry \cup {Absent} : Reads(cs, S, table, k, v) /\ Visible(v) \in pr[k]
    BY DEF Promised
<1>2. Reads(ds, S, table, k, v)
    BY <1>1 DEF Reads, IsNewest
<1> QED  BY <1>1, <1>2

\* An entry for one key, put in the log or the memtable.
LEMMA PromisedPut ==
    ASSUME NEW cs, NEW S, NEW table \in Tables, NEW pr, Promised(cs, S, table, pr),
           NEW key \in Keys, NEW value \in Entry, value \in pr[key]
    PROVE  Promised(cs, S, [table EXCEPT ![key] = value], pr)
<1> DEFINE new == [table EXCEPT ![key] = value]
<1>0. new[key] = value /\ \A k \in Keys : k # key => new[k] = table[k]
    BY DEF Tables
<1> HIDE DEF new
<1> SUFFICES ASSUME NEW k \in Keys
             PROVE  \E v \in Entry \cup {Absent} : Reads(cs, S, new, k, v) /\ Visible(v) \in pr[k]
    BY DEF Promised, new
<1>1. CASE k = key
  <2>1. Reads(cs, S, new, k, value) /\ Visible(value) = value
      BY <1>0, <1>1, Markers DEF Reads, Visible
  <2> QED  BY <1>1, <2>1
<1>2. CASE k # key
  <2>1. PICK v \in Entry \cup {Absent} : Reads(cs, S, table, k, v) /\ Visible(v) \in pr[k]
      BY DEF Promised
  <2>2. Reads(cs, S, new, k, v)
      BY <1>0, <1>2, <2>1 DEF Reads
  <2> QED  BY <2>1, <2>2
<1> QED  BY <1>1, <1>2

\* The put is acknowledged: its key reads as its value or what the log makes of
\* it, and as nothing else.
LEMMA PromisedOnly ==
    ASSUME NEW cs, NEW S, NEW table, NEW pr \in [Keys -> SUBSET Entry], Promised(cs, S, table, pr),
           NEW key \in Keys, NEW values \in SUBSET Entry, NEW value \in values,
           Reads(cs, S, table, key, value)
    PROVE  Promised(cs, S, table, [pr EXCEPT ![key] = values])
<1> DEFINE qr == [pr EXCEPT ![key] = values]
<1>0. qr[key] = values /\ \A k \in Keys : k # key => qr[k] = pr[k]
    OBVIOUS
<1> HIDE DEF qr
<1> SUFFICES ASSUME NEW k \in Keys
             PROVE  \E v \in Entry \cup {Absent} : Reads(cs, S, table, k, v) /\ Visible(v) \in qr[k]
    BY DEF Promised, qr
<1>1. CASE k = key
  <2>1. Visible(value) = value
      BY Markers DEF Visible
  <2> QED  BY <1>0, <1>1, <2>1
<1>2. CASE k # key
    BY <1>0, <1>2 DEF Promised
<1> QED  BY <1>1, <1>2

\* A segment with no entry for a key that the table has none for is written.
LEMMA PromisedTwice ==
    ASSUME NEW cs, NEW S, NEW table, NEW pr, Promised(cs, S, table, pr), NEW t,
           \A k \in Keys : table[k] = Absent => cs[t][k] = Absent
    PROVE  Promised(cs, S \cup {t}, table, pr)
<1> SUFFICES ASSUME NEW k \in Keys
             PROVE  \E v \in Entry \cup {Absent} :
                        Reads(cs, S \cup {t}, table, k, v) /\ Visible(v) \in pr[k]
    BY DEF Promised
<1>1. PICK v \in Entry \cup {Absent} : Reads(cs, S, table, k, v) /\ Visible(v) \in pr[k]
    BY DEF Promised
<1>2. Reads(cs, S \cup {t}, table, k, v)
    BY <1>1 DEF Reads, IsNewest
<1> QED  BY <1>1, <1>2

\* The table is emptied, when the newest layer has entries that are promised
\* too, for the same keys.
LEMMA PromisedFlushed ==
    ASSUME NEW cs, NEW S \in SUBSET Nat, NEW table, NEW pr, Promised(cs, S, table, pr),
           NEW t \in Nat, \A u \in S : u <= t,
           \A k \in Keys : IF table[k] = Absent THEN cs[t][k] = Absent
                           ELSE cs[t][k] \in Entry /\ cs[t][k] \in pr[k]
    PROVE  Promised(cs, S \cup {t}, EmptyTable, pr)
<1> SUFFICES ASSUME NEW k \in Keys
             PROVE  \E v \in Entry \cup {Absent} :
                        Reads(cs, S \cup {t}, EmptyTable, k, v) /\ Visible(v) \in pr[k]
    BY DEF Promised
<1>0. \A u \in S \cup {t} : ~(u > t)
    OBVIOUS
<1>1. PICK v \in Entry \cup {Absent} : Reads(cs, S, table, k, v) /\ Visible(v) \in pr[k]
    BY DEF Promised
<1>2. CASE table[k] # Absent
  <2> DEFINE w == cs[t][k]
  <2>1. w \in Entry /\ w \in pr[k] /\ w # Absent
      BY <1>2, Markers
  <2>2. IsNewest(cs, S \cup {t}, k, w)
      BY <1>0, <2>1 DEF IsNewest
  <2>3. Visible(w) \in pr[k]
      BY <2>1 DEF Visible
  <2> QED  BY <2>1, <2>2, <2>3 DEF Reads, EmptyTable
<1>3. CASE table[k] = Absent
  <2>1. IsNewest(cs, S \cup {t}, k, v)
      BY <1>1, <1>3 DEF Reads, IsNewest
  <2> QED  BY <1>1, <2>1 DEF Reads, EmptyTable
<1> QED  BY <1>2, <1>3

\* What a merged segment has for a key that one of its sources has newest.
LEMMA MergedEntry ==
    ASSUME NEW cs, NEW M \in SUBSET Nat, NEW table, IsMerged(cs, table, M),
           NEW k \in Keys, NEW v, IsNewest(cs, M, k, v)
    PROVE  table[k] = IF v = Tombstone THEN Absent ELSE v
<1>1. PICK w \in Entry \cup {Absent} :
          IsNewest(cs, M, k, w) /\ table[k] = (IF w = Tombstone THEN Absent ELSE w)
    BY DEF IsMerged
<1>2. w = v
    BY <1>1, NewestUnique
<1> QED  BY <1>1, <1>2

\* The merged segment is written beside its sources, the oldest segments.
LEMMA PromisedMerged ==
    ASSUME NEW cs, NEW S \in SUBSET Timestamps, NEW table, NEW pr, Promised(cs, S, table, pr),
           NEW M \in SUBSET S, NEW t \in Timestamps, IsMerged(cs, cs[t], M),
           \A x \in S : x < t => x \in M, t \notin S
    PROVE  Promised(cs, S \cup {t}, table, pr)
<1> SUFFICES ASSUME NEW k \in Keys
             PROVE  \E v \in Entry \cup {Absent} :
                        Reads(cs, S \cup {t}, table, k, v) /\ Visible(v) \in pr[k]
    BY DEF Promised
<1>0. M \in SUBSET Nat /\ \A x \in S \cup {t} : x \in Nat
    BY Bounds
<1>1. PICK v \in Entry \cup {Absent} : Reads(cs, S, table, k, v) /\ Visible(v) \in pr[k]
    BY DEF Promised
<1>2. CASE table[k] # Absent
    BY <1>1, <1>2 DEF Reads
<1>3. ASSUME IsNewest(cs, S, k, v) PROVE IsNewest(cs, S \cup {t}, k, v)
  <2>1. CASE v = Absent /\ \A x \in S : cs[x][k] = Absent
    <3>1. IsNewest(cs, M, k, Absent)
        BY <2>1 DEF IsNewest
    <3>2. cs[t][k] = Absent
        BY <1>0, <3>1, MergedEntry, Markers
    <3> QED  BY <2>1, <3>2 DEF IsNewest
  <2>2. ASSUME NEW x \in S, cs[x][k] = v, v # Absent,
               \A u \in S : u > x => cs[u][k] = Absent
        PROVE  IsNewest(cs, S \cup {t}, k, v)
    <3>1. CASE x > t
      <4>1. ~(t > x)
          BY <1>0, <3>1
      <4> QED  BY <2>2, <4>1 DEF IsNewest
    <3>2. CASE x < t
      <4>1. x \in M /\ IsNewest(cs, M, k, v)
          BY <2>2, <3>2 DEF IsNewest
      <4>2. cs[t][k] = IF v = Tombstone THEN Absent ELSE v
          BY <1>0, <4>1, MergedEntry
      <4>3. CASE v = Tombstone
          BY <2>2, <4>2, <4>3 DEF IsNewest
      <4>4. CASE v # Tombstone
        <5>1. \A u \in S \cup {t} : u > t => u \in S /\ u > x
            BY <1>0, <3>2
        <5> QED  BY <2>2, <4>2, <4>4, <5>1 DEF IsNewest
      <4> QED  BY <4>3, <4>4
    <3> QED  BY <1>0, <3>1, <3>2
  <2> QED  BY <1>3, <2>1, <2>2 DEF IsNewest
<1>4. CASE table[k] = Absent
    BY <1>1, <1>3, <1>4 DEF Reads
<1> QED  BY <1>2, <1>4

\* The merged segment takes the place of the first n segments.
LEMMA Replaced ==
    ASSUME NEW order \in Seq(Timestamps), NEW n \in 0..Len(order), NEW s \in Timestamps,
           NEW new, new = <<s>> \o SubSeq(order, n + 1, Len(order))
    PROVE  /\ new \in Seq(Timestamps) /\ Len(new) = 1 + (Len(order) - n) /\ new[1] = s
           /\ \A i \in 2..Len(new) : i + (n - 1) \in (n + 1)..Len(order) /\ new[i] = order[i + (n - 1)]
<1> DEFINE len == Len(order)
           rest == SubSeq(order, n + 1, len)
<1>1. len \in Nat /\ n \in Nat /\ n <= len /\ n + 1 \in Int
    OBVIOUS
<1>2. rest \in Seq(Timestamps) /\ Len(rest) = len - n
      /\ \A i \in 1..(len - n) : rest[i] = order[i + n]
  <2>1. \A i \in (n + 1)..len : order[i] \in Timestamps
      BY <1>1
  <2>2. /\ rest \in Seq(Timestamps)
        /\ Len(rest) = (IF n + 1 <= len THEN len - (n + 1) + 1 ELSE 0)
        /\ \A i \in 1..(len - (n + 1) + 1) : rest[i] = order[n + 1 + i - 1]
      BY <1>1, <2>1, SubSeqProperties
  <2>3. Len(rest) = len - n
      BY <1>1, <2>2
  <2>4. \A i \in 1..(len - n) : i \in 1..(len - (n + 1) + 1) /\ n + 1 + i - 1 = i + n
      BY <1>1
  <2> QED  BY <2>2, <2>3, <2>4
<1>3. <<s>> \in Seq(Timestamps) /\ Len(<<s>>) = 1 /\ <<s>>[1] = s
    OBVIOUS
<1> HIDE DEF rest, len
<1>4. /\ new \in Seq(Timestamps) /\ Len(new) = 1 + Len(rest)
      /\ \A i \in 1..(1 + Len(rest)) : new[i] = IF i <= 1 THEN <<s>>[i] ELSE rest[i - 1]
    BY <1>2, <1>3, ConcatProperties DEF rest, len
<1>5. Len(new) = 1 + (len - n) /\ new[1] = s
    BY <1>1, <1>2, <1>3, <1>4
<1>6. ASSUME NEW i \in 2..Len(new)
      PROVE  i + (n - 1) \in (n + 1)..len /\ new[i] = order[i + (n - 1)]
  <2>1. i \in 1..(1 + Len(rest)) /\ ~(i <= 1) /\ i - 1 \in 1..(len - n)
        /\ i + (n - 1) \in (n + 1)..len /\ (i - 1) + n = i + (n - 1)
      BY <1>1, <1>2, <1>5
  <2> QED  BY <1>2, <1>4, <2>1
<1> QED  BY <1>4, <1>5, <1>6 DEF len

\* It replaces the oldest segments in memory, where a tombstone it dropped
\* reads the same.
LEMMA PromisedReplaced ==
    ASSUME NEW cs, NEW order \in Seq(Timestamps), NEW table, NEW pr,
           Promised(Layers(cs, order), DOMAIN order, table, pr),
           NEW n \in 1..Len(order), NEW s \in Timestamps,
           IsMerged(Layers(cs, order), cs[s], 1..n),
           NEW new, new = <<s>> \o SubSeq(order, n + 1, Len(order))
    PROVE  Promised(Layers(cs, new), DOMAIN new, table, pr)
<1> SUFFICES ASSUME NEW k \in Keys
             PROVE  \E v \in Entry \cup {Absent} :
                        Reads(Layers(cs, new), DOMAIN new, table, k, v) /\ Visible(v) \in pr[k]
    BY DEF Promised
<1> DEFINE len == Len(order)
           old == Layers(cs, order)
           layers == Layers(cs, new)
<1>1. /\ len \in Nat /\ n \in Nat /\ n >= 1 /\ n <= len /\ n \in 0..len /\ DOMAIN order = 1..len
      /\ \A i \in 1..n : i \in 1..len
    OBVIOUS
<1>2. /\ new \in Seq(Timestamps) /\ Len(new) = 1 + (len - n) /\ new[1] = s
      /\ \A i \in 2..Len(new) : i + (n - 1) \in (n + 1)..len /\ new[i] = order[i + (n - 1)]
    BY <1>1, Replaced
<1>3. DOMAIN new = 1..Len(new) /\ 1 \in DOMAIN new /\ \A i \in DOMAIN new : i = 1 \/ i \in 2..Len(new)
    BY <1>1, <1>2
<1>4. layers[1] = cs[s] /\ \A i \in 2..Len(new) : i \in DOMAIN new /\ layers[i] = old[i + (n - 1)]
  <2>1. \A i \in 2..Len(new) : i \in DOMAIN new /\ i + (n - 1) \in 1..len
      BY <1>1, <1>2, <1>3
  <2> QED  BY <1>1, <1>2, <1>3, <2>1 DEF Layers
<1> HIDE DEF len, old, layers
<1>5. PICK v \in Entry \cup {Absent} : Reads(old, DOMAIN order, table, k, v) /\ Visible(v) \in pr[k]
    BY DEF Promised, old
<1>6. CASE table[k] # Absent
    BY <1>5, <1>6 DEF Reads
<1>7. ASSUME IsNewest(old, 1..len, k, v)
      PROVE  \E w \in Entry \cup {Absent} :
                 IsNewest(layers, DOMAIN new, k, w) /\ Visible(w) = Visible(v)
  <2>0. 1..n \in SUBSET Nat /\ IsMerged(old, cs[s], 1..n)
      BY <1>1 DEF old
  <2>1. CASE v = Absent /\ \A i \in 1..len : old[i][k] = Absent
    <3>1. IsNewest(old, 1..n, k, Absent)
        BY <1>1, <2>1 DEF IsNewest
    <3>2. cs[s][k] = Absent
        BY <2>0, <3>1, MergedEntry, Markers
    <3>3. \A i \in 2..Len(new) : layers[i][k] = Absent
      <4>1. \A i \in 2..Len(new) : i + (n - 1) \in 1..len
          BY <1>1, <1>2
      <4> QED  BY <1>4, <2>1, <4>1
    <3>4. IsNewest(layers, DOMAIN new, k, v)
        BY <1>3, <1>4, <2>1, <3>2, <3>3 DEF IsNewest
    <3> QED  BY <3>4
  <2>2. ASSUME NEW i \in 1..len, old[i][k] = v, v # Absent,
               \A j \in 1..len : j > i => old[j][k] = Absent
        PROVE  \E w \in Entry \cup {Absent} :
                   IsNewest(layers, DOMAIN new, k, w) /\ Visible(w) = Visible(v)
    <3>1. CASE i > n
      <4> DEFINE at == i - (n - 1)
      <4>1. at \in 2..Len(new) /\ at + (n - 1) = i
          BY <1>1, <1>2, <3>1
      <4>2. layers[at][k] = v /\ at \in DOMAIN new
          BY <1>4, <2>2, <4>1
      <4>3. \A j \in DOMAIN new : j > at => layers[j][k] = Absent
        <5> SUFFICES ASSUME NEW j \in DOMAIN new, j > at PROVE layers[j][k] = Absent
            OBVIOUS
        <5>0. j = 1 \/ j \in 2..Len(new)
            BY <1>3
        <5>3. at \in Nat /\ at >= 2 /\ n \in Nat /\ i \in Nat /\ at + (n - 1) = i
            BY <1>1, <4>1
        <5> HIDE DEF at
        <5>4. j \in 2..Len(new) /\ j \in Int
            BY <5>0, <5>3
        <5>1. j \in 2..Len(new) /\ j + (n - 1) > i
            BY <5>3, <5>4
        <5>2. j + (n - 1) \in 1..len
            BY <1>1, <1>2, <5>1
        <5> QED  BY <1>4, <2>2, <5>1, <5>2
      <4>4. IsNewest(layers, DOMAIN new, k, v)
          BY <2>2, <4>2, <4>3 DEF IsNewest
      <4> QED  BY <4>4
    <3>2. CASE i <= n
      <4>1. i \in 1..n /\ \A j \in 1..n : j \in 1..len
          BY <1>1, <3>2
      <4>2. IsNewest(old, 1..n, k, v)
          BY <2>2, <4>1 DEF IsNewest
      <4>3. cs[s][k] = IF v = Tombstone THEN Absent ELSE v
          BY <2>0, <4>2, MergedEntry
      <4>4. \A j \in 2..Len(new) : layers[j][k] = Absent
        <5>1. \A j \in 2..Len(new) : j + (n - 1) \in 1..len /\ j + (n - 1) > i
            BY <1>1, <1>2, <3>2
        <5> QED  BY <1>4, <2>2, <5>1
      <4>5. CASE v = Tombstone
        <5>1. IsNewest(layers, DOMAIN new, k, Absent) /\ Visible(Absent) = Visible(v)
            BY <1>3, <1>4, <4>3, <4>4, <4>5 DEF IsNewest, Visible
        <5> QED  BY <5>1
      <4>6. CASE v # Tombstone
        <5>1. layers[1][k] = v /\ \A j \in DOMAIN new : j > 1 => layers[j][k] = Absent
            BY <1>3, <1>4, <4>3, <4>4, <4>6
        <5>2. IsNewest(layers, DOMAIN new, k, v)
            BY <1>3, <2>2, <5>1 DEF IsNewest
        <5> QED  BY <5>2
      <4> QED  BY <4>5, <4>6
    <3> QED  BY <1>1, <3>1, <3>2
  <2> QED  BY <1>7, <2>1, <2>2 DEF IsNewest
<1>8. CASE table[k] = Absent
  <2>1. PICK w \in Entry \cup {Absent} :
            IsNewest(layers, DOMAIN new, k, w) /\ Visible(w) = Visible(v)
      BY <1>1, <1>5, <1>7, <1>8 DEF Reads
  <2> QED  BY <1>5, <1>8, <2>1 DEF Reads, layers
<1> QED  BY <1>5, <1>6, <1>8 DEF layers

\* The oldest source goes from the disk while the merged segment and all
\* younger sources are there.
LEMMA PromisedUnlinked ==
    ASSUME NEW cs, NEW S \in SUBSET Timestamps, NEW table, NEW pr, Promised(cs, S, table, pr),
           NEW M \in SUBSET Timestamps, NEW t \in S, IsMerged(cs, cs[t], M),
           NEW x \in M, x < t, \A y \in S : x <= y, \A y \in M : y > x => y \in S
    PROVE  Promised(cs, S \ {x}, table, pr)
<1> SUFFICES ASSUME NEW k \in Keys
             PROVE  \E v \in Entry \cup {Absent} :
                        Reads(cs, S \ {x}, table, k, v) /\ Visible(v) \in pr[k]
    BY DEF Promised
<1>0. M \in SUBSET Nat /\ \A y \in S \cup M : y \in Nat
    BY Bounds
<1>1. PICK v \in Entry \cup {Absent} : Reads(cs, S, table, k, v) /\ Visible(v) \in pr[k]
    BY DEF Promised
<1>2. CASE table[k] # Absent
    BY <1>1, <1>2 DEF Reads
<1>3. ASSUME IsNewest(cs, S, k, v)
      PROVE  \E w \in Entry \cup {Absent} :
                 IsNewest(cs, S \ {x}, k, w) /\ Visible(w) = Visible(v)
  <2>1. CASE v = Absent /\ \A y \in S : cs[y][k] = Absent
    <3>1. IsNewest(cs, S \ {x}, k, v)
        BY <2>1 DEF IsNewest
    <3> QED  BY <3>1
  <2>2. ASSUME NEW y \in S, cs[y][k] = v, v # Absent,
               \A u \in S : u > y => cs[u][k] = Absent
        PROVE  \E w \in Entry \cup {Absent} :
                   IsNewest(cs, S \ {x}, k, w) /\ Visible(w) = Visible(v)
    <3>1. CASE y # x
      <4>1. IsNewest(cs, S \ {x}, k, v)
          BY <2>2, <3>1 DEF IsNewest
      <4> QED  BY <4>1
    <3>2. CASE y = x
      <4>1. \A u \in S \ {x} : u > x /\ cs[u][k] = Absent
          BY <1>0, <2>2, <3>2
      <4>2. IsNewest(cs, M, k, v)
          BY <2>2, <3>2 DEF IsNewest
      <4>3. cs[t][k] = Absent /\ cs[t][k] = IF v = Tombstone THEN Absent ELSE v
          BY <1>0, <4>1, <4>2, MergedEntry
      <4>4. v = Tombstone
          BY <2>2, <4>3
      <4>5. IsNewest(cs, S \ {x}, k, Absent) /\ Visible(Absent) = Visible(v)
          BY <4>1, <4>4 DEF IsNewest, Visible
      <4> QED  BY <4>5
    <3> QED  BY <3>1, <3>2
  <2> QED  BY <1>3, <2>1, <2>2 DEF IsNewest
<1>4. CASE table[k] = Absent
  <2>1. PICK w \in Entry \cup {Absent} : IsNewest(cs, S \ {x}, k, w) /\ Visible(w) = Visible(v)
      BY <1>1, <1>3, <1>4 DEF Reads
  <2> QED  BY <1>1, <1>4, <2>1 DEF Reads
<1> QED  BY <1>2, <1>4

-----------------------------------------------------------------------------
(* The invariants, where c is the one client that may be awaited.          *)

Alone(c) == \A d \in Clients : d # c => client[d] = Idle

\* A process that does not run holds nothing.
Quiet(c) == ~Running => segments = <<>> /\ compactor = Resting /\ client[c] = Idle

Pending(c) ==
    client[c].at \in {"wal", "memtable"} => client[c].value \in promised[client[c].key]

\* A flush writes what the memtable still holds ...
MemFlush(c) ==
    client[c].at \in InPersist =>
        /\ client[c].segment \in Timestamps /\ client[c].segment <= clock
        /\ contents[client[c].segment] = memtable
        /\ client[c].key # Absent =>
               client[c].key \in Keys /\ memtable[client[c].key] = client[c].value

\* ... until it has installed the last segment in its place.
MemClear(c) ==
    client[c].at = "clear" =>
        /\ memtable = EmptyTable /\ Len(segments) > 0
        /\ client[c].key # Absent =>
               /\ client[c].key \in Keys
               /\ contents[segments[Len(segments)]][client[c].key] = client[c].value

\* A compaction writes what the first segments merge to, and the flush that is
\* about to clear the log installed its segment after them.
MemMerge(c) ==
    compactor.at \in InPersist =>
        /\ compactor.segment <= clock
        /\ Len(compactor.merging) \in 1..Len(segments)
        /\ client[c].at = "clear" => Len(compactor.merging) < Len(segments)
        /\ IsMerged(Layers(contents, segments), contents[compactor.segment],
                    1..Len(compactor.merging))

Known == \A i \in DOMAIN segments : segments[i] <= clock

MemKept ==
    Running => Promised(Layers(contents, segments), DOMAIN segments, memtable, Readable)

Mem(c) ==
    /\ Quiet(c) /\ Pending(c) /\ MemFlush(c) /\ MemClear(c) /\ MemMerge(c)
    /\ Known /\ MemKept

\* The same of the disk, by timestamps, as long as it is tidy.
Loaded == Members(segments)

InFlush == InPersist \cup {"clear"}

\* The files of a segment that is being written, and of one being unlinked.
Written == [data |-> {}, bloom |-> {"data"}, meta |-> {"data", "bloom"}, install |-> Kinds]
LeftFrom == [data |-> Kinds, bloom |-> {"bloom", "meta"}, meta |-> {"meta"}]

\* What the log makes of a table.
Logged(table) == [k \in Keys |-> Decoded(table[k])]

\* Whatever a table has an entry for is promised.
EntriesPromised(table, pr) ==
    \A k \in Keys : table[k] # Absent => table[k] \in Entry /\ table[k] \in pr[k]

\* The log and the memtable differ otherwise only between the awaits of a put
\* and of a flush.
LogAndTable(c) ==
    /\ Running /\ client[c].at \notin {"memtable", "clear"} => wal = Logged(memtable)
    /\ client[c].at = "memtable" =>
           wal = Logged([memtable EXCEPT ![client[c].key] = client[c].value])
    /\ client[c].at = "clear" => memtable = EmptyTable /\ clock \in Loaded

\* A flush writes the newest segment, of what is in the log.
Flush(c) ==
    /\ client[c].at \in InFlush =>
           /\ client[c].segment = clock /\ clock \in Timestamps
           /\ wal = Logged(contents[clock]) /\ EntriesPromised(contents[clock], Readable)
           /\ client[c].key # Absent =>
                  client[c].key \in Keys /\ contents[clock][client[c].key] = client[c].value
    /\ client[c].at \in InPersist => clock \notin Loaded /\ files[clock] = Written[client[c].at]

\* Whatever is loaded is on the disk, in order.
InOrder ==
    /\ Increasing(segments)
    /\ \A t \in Loaded : t <= clock /\ files[t] = Kinds
    /\ \A t \in Timestamps : t > clock => files[t] = {}

\* Whatever a restart would load is loaded, or about to be, or about to go.
InHand(c, t) ==
    \/ t \in Loaded
    \/ t = clock /\ client[c].at = "install"
    \/ t = compactor.segment /\ compactor.at = "install"
    \/ t \in Members(compactor.unlinking) /\ compactor.at = "unlink"

FilesInHand(c) == Running => \A t \in Listed : InHand(c, t)

Merging(c) ==
    /\ compactor.at # "idle" =>
           /\ compactor.segment \in Timestamps /\ compactor.segment <= clock
           /\ client[c].at \in InFlush => compactor.segment < clock
           /\ Increasing(compactor.merging)
           /\ \A x \in Members(compactor.merging) : x < compactor.segment
           /\ IsMerged(contents, contents[compactor.segment], Members(compactor.merging))
    /\ compactor.at # "unlink" => compactor.kind = "data"

\* Until the merged segment is installed its sources are the oldest segments.
MergePersists ==
    compactor.at \in InPersist =>
        /\ compactor.segment \notin Loaded
        /\ files[compactor.segment] = Written[compactor.at]
        /\ Len(compactor.merging) <= Len(segments)
        /\ \A i \in 1..Len(compactor.merging) : segments[i] = compactor.merging[i]
        /\ \A i \in (Len(compactor.merging) + 1)..Len(segments) : segments[i] > compactor.segment

\* Then they go, oldest first.
MergeUnlinks ==
    LET u == compactor.unlinking
        M == Members(compactor.merging)
    IN  compactor.at = "unlink" =>
            /\ compactor.segment \in Loaded /\ \A x \in Loaded : compactor.segment <= x
            /\ Increasing(u) /\ Members(u) \subseteq M
            /\ \A x \in M : x \in Members(u) \/ x < u[1]
            /\ files[u[1]] = LeftFrom[compactor.kind]
            /\ \A i \in 2..Len(u) : files[u[i]] = Kinds

DiskKept == Promised(contents, Complete, wal, Readable)

Disk(c) ==
    /\ Quiet(c) /\ Pending(c) /\ LogAndTable(c) /\ Flush(c)
    /\ InOrder /\ FilesInHand(c)
    /\ Merging(c) /\ MergePersists /\ MergeUnlinks
    /\ DiskKept

LEMMA Types ==
    ASSUME TypeInv
    PROVE  /\ client \in [Clients -> ClientRecords] /\ compactor \in CompactorRecords
           /\ files \in [Timestamps -> SUBSET Kinds] /\ contents \in [Timestamps -> Tables]
           /\ segments \in Seq(Timestamps) /\ Loaded \in SUBSET Timestamps
           /\ memtable \in Tables /\ wal \in Tables
           /\ promised \in [Keys -> SUBSET Entry] /\ Readable \in [Keys -> SUBSET Entry]
           /\ clock \in Nat /\ \A t \in Timestamps : t \in Nat
           /\ Complete \in SUBSET Timestamps /\ Listed \in SUBSET Timestamps
<1>1. Readable \in [Keys -> SUBSET Entry]
    BY DecodedType DEF TypeInv, StoreOK, Readable
<1> QED  BY <1>1, Bounds
         DEF TypeInv, StoreOK, CompactorOK, ClientRecords, Loaded, Members, Complete, Listed

LEMMA MembersType ==
    ASSUME NEW order \in Seq(Timestamps)
    PROVE  Members(order) \in SUBSET Timestamps
BY DEF Members

-----------------------------------------------------------------------------
(* The memory keeps what was promised.                                     *)

LEMMA LayersStay ==
    ASSUME TypeInv, Known, UNCHANGED segments,
           \A t \in Timestamps : t <= clock => contents'[t] = contents[t]
    PROVE  Layers(contents', segments') = Layers(contents, segments)
<1>1. \A i \in DOMAIN segments : segments[i] \in Timestamps /\ segments[i] <= clock
    BY Types DEF Known
<1>2. \A i \in DOMAIN segments : contents'[segments[i]] = contents[segments[i]]
    BY <1>1
<1> QED  BY <1>2 DEF Layers

LEMMA EntriesArePromised ==
    ASSUME NEW cs, NEW S, NEW table, NEW pr, Promised(cs, S, table, pr)
    PROVE  EntriesPromised(table, pr)
<1> SUFFICES ASSUME NEW k \in Keys, table[k] # Absent
             PROVE  table[k] \in Entry /\ table[k] \in pr[k]
    BY DEF EntriesPromised
<1>1. PICK v \in Entry \cup {Absent} : Reads(cs, S, table, k, v) /\ Visible(v) \in pr[k]
    BY DEF Promised
<1> QED  BY <1>1 DEF Reads, Visible

\* The merge under way is not disturbed, but by what installs or ends it.
LEMMA MergeStays ==
    ASSUME NEW c, TypeInv, Known, MemMerge(c), UNCHANGED <<segments, compactor>>,
           clock' \in {clock, clock + 1},
           \A t \in Timestamps : t <= clock => contents'[t] = contents[t],
           client'[c].at = "clear" => client[c].at = "clear"
    PROVE  MemMerge(c)'
<1> SUFFICES ASSUME compactor.at \in InPersist PROVE MemMerge(c)'
    BY DEF MemMerge
<1>1. compactor.segment \in Timestamps /\ compactor.segment <= clock
    BY DEF MemMerge, TypeInv, CompactorOK, MergesSome
<1>2. contents'[compactor.segment] = contents[compactor.segment]
    BY <1>1
<1>3. compactor.segment <= clock'
    BY <1>1, Types
<1>4. Layers(contents', segments') = Layers(contents, segments)
    BY LayersStay
<1> QED  BY <1>2, <1>3, <1>4 DEF MemMerge

LEMMA KnownStays ==
    ASSUME TypeInv, Known, UNCHANGED segments, clock' \in {clock, clock + 1}
    PROVE  Known'
<1>1. \A i \in DOMAIN segments : segments[i] \in Nat /\ clock \in Nat
  <2>1. \A i \in DOMAIN segments : segments[i] \in Timestamps
      BY Types
  <2> QED  BY <2>1, Types
<1> QED  BY <1>1 DEF Known

\* What goes on outside the memory: an await of a put or flush ends, ...
LEMMA MemAwait ==
    ASSUME NEW c, TypeInv, Mem(c), Running, Running',
           UNCHANGED <<memtable, segments, compactor, contents, clock, promised>>,
           \/ client'[c] = Idle
           \/ /\ client'[c].key = client[c].key /\ client'[c].value = client[c].value
              /\ client'[c].segment = client[c].segment
              /\ \/ client[c].at = "wal" /\ client'[c].at = "memtable"
                 \/ client[c].at \in Kinds /\ client'[c].at \in InPersist
    PROVE  Mem(c)'
<1>1. Quiet(c)' /\ Pending(c)'
    BY DEF Mem, Quiet, Pending, Idle, InPersist, Kinds
<1>2. MemFlush(c)' /\ MemClear(c)'
    BY DEF Mem, MemFlush, MemClear, Idle, InPersist, Kinds
<1>3. client'[c].at = "clear" => client[c].at = "clear"
    BY DEF Idle, InPersist, Kinds
<1>4. MemMerge(c)' /\ Known'
    BY <1>3, MergeStays, KnownStays DEF Mem
<1>5. MemKept'
    BY DEF Mem, MemKept, Readable
<1> QED  BY <1>1, <1>2, <1>4, <1>5 DEF Mem

\* ... or a write or an unlink of the compaction.
LEMMA MemCompactor ==
    ASSUME NEW c, TypeInv, Mem(c), Running' = Running,
           UNCHANGED <<memtable, segments, client, contents, clock, promised>>,
           compactor' = compactor \/ Running,
           compactor'.at \in InPersist =>
               /\ compactor.at \in InPersist /\ compactor'.segment = compactor.segment
               /\ compactor'.merging = compactor.merging
    PROVE  Mem(c)'
<1>1. Quiet(c)' /\ Pending(c)'
    BY DEF Mem, Quiet, Pending
<1>2. MemFlush(c)' /\ MemClear(c)'
    BY DEF Mem, MemFlush, MemClear
<1>3. MemMerge(c)' /\ Known'
    BY DEF Mem, MemMerge, Known
<1>4. MemKept'
    BY DEF Mem, MemKept, Readable
<1> QED  BY <1>1, <1>2, <1>3, <1>4 DEF Mem

LEMMA MemPut ==
    ASSUME NEW c \in Clients, TypeInv, Mem(c), NEW k \in Keys, NEW v \in Entry, Put(c, k, v)
    PROVE  Mem(c)'
<1>1. /\ mode = "up" /\ client[c] = Idle
      /\ client' = [client EXCEPT ![c] = [at |-> "wal", key |-> k, value |-> v, segment |-> 0]]
      /\ promised' = [promised EXCEPT ![k] = @ \cup {v}]
      /\ UNCHANGED <<mode, memtable, segments, compactor, contents, clock>>
    BY DEF Put
<1>2. /\ client'[c].at = "wal" /\ client'[c].key = k /\ client'[c].value = v
      /\ v \in promised'[k] /\ \A x \in Keys : promised[x] \subseteq promised'[x]
    BY <1>1, Types
<1>3. Running /\ Running'
    BY <1>1 DEF Running
<1>4. Quiet(c)' /\ Pending(c)' /\ MemFlush(c)' /\ MemClear(c)'
    BY <1>2, <1>3 DEF Quiet, Pending, MemFlush, MemClear, InPersist, Kinds
<1>5. MemMerge(c)' /\ Known'
    BY <1>1, <1>2, MergeStays, KnownStays DEF Mem
<1>6. \A x \in Keys : Readable[x] \subseteq Readable'[x]
    BY <1>2 DEF Readable
<1>7. Promised(Layers(contents, segments), DOMAIN segments, memtable, Readable')
  <2>1. Promised(Layers(contents, segments), DOMAIN segments, memtable, Readable)
      BY <1>3 DEF Mem, MemKept
  <2> QED  BY <1>6, <2>1, PromisedGrows
<1>8. MemKept'
    BY <1>1, <1>7 DEF MemKept
<1> QED  BY <1>4, <1>5, <1>8 DEF Mem

LEMMA MemBuild ==
    ASSUME NEW c \in Clients, TypeInv, Mem(c), NEW table, BuildSegment(c, table),
           Running, Running', memtable' = table, UNCHANGED <<segments, compactor>>,
           client[c].key # Absent =>
               client[c].key \in Keys /\ table[client[c].key] = client[c].value,
           Promised(Layers(contents, segments), DOMAIN segments, table, Readable)
    PROVE  Mem(c)'
<1>1. /\ clock < MaxSegments /\ clock' = clock + 1
      /\ contents' = [contents EXCEPT ![clock + 1] = table]
      /\ client' = [client EXCEPT ![c].at = "data", ![c].segment = clock + 1]
      /\ promised' = promised
    BY DEF BuildSegment
<1>2. /\ client'[c].at = "data" /\ client'[c].segment = clock + 1
      /\ client'[c].key = client[c].key /\ client'[c].value = client[c].value
  <2>1. client[c] \in ClientRecords
      BY Types
  <2> QED  BY <1>1, <2>1, Types DEF ClientRecords
<1>3. clock + 1 \in Timestamps /\ clock \in Nat
    BY <1>1, Types, Bounds
<1>4. /\ contents'[clock + 1] = table
      /\ \A t \in Timestamps : t <= clock => contents'[t] = contents[t]
    BY <1>1, <1>3, Types
<1>5. Quiet(c)' /\ Pending(c)' /\ MemClear(c)'
    BY <1>2 DEF Quiet, Pending, MemClear
<1>6. MemFlush(c)'
    BY <1>1, <1>2, <1>3, <1>4 DEF MemFlush
<1>7. MemMerge(c)' /\ Known'
    BY <1>1, <1>2, <1>4, MergeStays, KnownStays DEF Mem
<1>8. MemKept'
  <2>1. Layers(contents', segments') = Layers(contents, segments)
      BY <1>4, LayersStay DEF Mem
  <2>2. Readable' = Readable
      BY <1>1 DEF Readable
  <2> QED  BY <2>1, <2>2 DEF MemKept
<1> QED  BY <1>5, <1>6, <1>7, <1>8 DEF Mem

\* Once a put is acknowledged its key reads as its value, or what the log makes
\* of it.
LEMMA AcknowledgeKeeps ==
    ASSUME NEW c, TypeInv, Acknowledge(c), NEW cs, NEW S, NEW table, NEW value,
           Promised(cs, S, table, Readable),
           client[c].key # Absent =>
               /\ client[c].key \in Keys /\ client[c].value \in Entry
               /\ value \in {client[c].value, Decoded(client[c].value)}
               /\ Reads(cs, S, table, client[c].key, value)
    PROVE  Promised(cs, S, table, Readable')
<1> DEFINE key == client[c].key
           values == {client[c].value, Decoded(client[c].value)}
<1>1. CASE key = Absent
  <2>1. Readable' = Readable
      BY <1>1 DEF Acknowledge, Readable
  <2> QED  BY <2>1
<1>2. CASE key # Absent
  <2>1. promised' = [promised EXCEPT ![key] = {client[c].value}]
      BY <1>2 DEF Acknowledge
  <2>2. Readable' = [Readable EXCEPT ![key] = values]
    <3>1. \A k \in Keys : promised'[k] = IF k = key THEN {client[c].value} ELSE promised[k]
        BY <1>2, <2>1, Types
    <3> QED  BY <1>2, <3>1 DEF Readable
  <2>3. values \in SUBSET Entry /\ value \in values /\ key \in Keys
      BY <1>2, DecodedType
  <2> HIDE DEF values, key
  <2>4. Promised(cs, S, table, [Readable EXCEPT ![key] = values])
      BY <1>2, <2>3, PromisedOnly, Types DEF key
  <2> QED  BY <2>2, <2>4
<1> QED  BY <1>1, <1>2

LEMMA MemMemtableSet ==
    ASSUME NEW c \in Clients, TypeInv, Mem(c), MemtableSet(c)
    PROVE  Mem(c)'
<1> DEFINE key == client[c].key
           value == client[c].value
           table == [memtable EXCEPT ![key] = value]
<1>1. /\ client[c].at = "memtable" /\ memtable' = table
      /\ \/ BuildSegment(c, table)
         \/ Acknowledge(c) /\ UNCHANGED <<clock, contents>>
      /\ UNCHANGED <<mode, segments, compactor>>
    BY DEF MemtableSet
<1>2. /\ key \in Keys /\ value \in Entry /\ value \in promised[key] /\ table[key] = value
      /\ value # Absent /\ value \in Readable[key]
    BY <1>1, Types, Markers DEF Mem, TypeInv, ValuesAwaited, Pending, Tables, Readable
<1>3. Running /\ Running'
    BY <1>1 DEF Mem, Quiet, Idle, Running
<1>4. Promised(Layers(contents, segments), DOMAIN segments, table, Readable)
    BY <1>2, <1>3, PromisedPut, Types DEF Mem, MemKept
<1> HIDE DEF table
<1>5. CASE BuildSegment(c, table)
    BY <1>1, <1>2, <1>3, <1>4, <1>5, MemBuild
<1>6. CASE Acknowledge(c) /\ UNCHANGED <<clock, contents>>
  <2>1. client'[c] = Idle /\ client'[c].at = "idle"
      BY <1>6, Types DEF Acknowledge, Idle
  <2>2. Quiet(c)' /\ Pending(c)' /\ MemFlush(c)' /\ MemClear(c)'
      BY <1>3, <2>1 DEF Quiet, Pending, MemFlush, MemClear, InPersist, Kinds
  <2>3. MemMerge(c)' /\ Known'
      BY <1>1, <1>6, <2>1, MergeStays, KnownStays DEF Mem
  <2>4. Reads(Layers(contents, segments), DOMAIN segments, table, key, value)
      BY <1>2 DEF Reads
  <2>5. Promised(Layers(contents, segments), DOMAIN segments, table, Readable')
      BY <1>2, <1>4, <1>6, <2>4, AcknowledgeKeeps
  <2>6. MemKept'
      BY <1>1, <1>6, <2>5 DEF MemKept
  <2> QED  BY <2>2, <2>3, <2>6 DEF Mem
<1> QED  BY <1>1, <1>5, <1>6

LEMMA MemFlushInstall ==
    ASSUME NEW c \in Clients, TypeInv, Mem(c), FlushInstall(c)
    PROVE  Mem(c)'
<1> DEFINE t == client[c].segment
           n == Len(segments)
           old == Layers(contents, segments)
           new == Layers(contents, segments')
<1>1. /\ client[c].at = "install" /\ segments' = Append(segments, t) /\ memtable' = EmptyTable
      /\ client' = [client EXCEPT ![c].at = "clear"]
      /\ UNCHANGED <<mode, compactor, contents, clock, promised>>
    BY DEF FlushInstall
<1>2. /\ client'[c].at = "clear" /\ client'[c].segment = t
      /\ client'[c].key = client[c].key /\ client'[c].value = client[c].value
  <2>1. client[c] \in ClientRecords
      BY Types
  <2> QED  BY <1>1, <2>1, Types DEF ClientRecords
<1>3. Running /\ Running'
    BY <1>1 DEF Mem, Quiet, Idle, Running
<1>4. /\ t \in Timestamps /\ t <= clock /\ contents[t] = memtable
      /\ client[c].key # Absent => client[c].key \in Keys /\ memtable[client[c].key] = client[c].value
    BY <1>1 DEF Mem, MemFlush, InPersist
<1>5. /\ n \in Nat /\ DOMAIN segments = 1..n /\ DOMAIN segments' = 1..(n + 1)
      /\ Len(segments') = n + 1 /\ segments'[n + 1] = t
      /\ \A i \in 1..n : segments'[i] = segments[i]
    BY <1>1, <1>4, Types
<1>6. /\ new[n + 1] = memtable /\ \A i \in 1..n : new[i] = old[i]
      /\ 1..(n + 1) = (1..n) \cup {n + 1}
  <2>1. n + 1 \in 1..(n + 1) /\ \A i \in 1..n : i \in 1..(n + 1)
      BY <1>5
  <2>2. new[n + 1] = memtable /\ \A i \in 1..n : new[i] = old[i]
      BY <1>4, <1>5, <2>1 DEF Layers
  <2>3. 1..(n + 1) = (1..n) \cup {n + 1}
      BY <1>5
  <2> QED  BY <2>2, <2>3
<1> HIDE DEF n, old, new, t
<1>7. Quiet(c)' /\ Pending(c)' /\ MemFlush(c)' /\ MemClear(c)'
  <2>1. Len(segments') > 0
      BY <1>5
  <2> QED  BY <1>1, <1>2, <1>3, <1>4, <1>5, <2>1
           DEF Quiet, Pending, MemFlush, MemClear, InPersist, Kinds
<1>8. Known'
  <2>1. \A i \in 1..(n + 1) : i \in 1..n \/ i = n + 1
      BY <1>5
  <2> QED  BY <1>1, <1>4, <1>5, <2>1 DEF Mem, Known
<1>9. MemMerge(c)'
  <2> DEFINE m == Len(compactor.merging)
  <2> SUFFICES ASSUME compactor.at \in InPersist PROVE MemMerge(c)'
      BY <1>1 DEF MemMerge
  <2>1. /\ compactor.segment <= clock /\ m \in 1..n
        /\ IsMerged(old, contents[compactor.segment], 1..m)
      BY DEF Mem, MemMerge, old, n
  <2>2. m \in 1..(n + 1) /\ m < n + 1 /\ \A i \in 1..m : i \in 1..n
      BY <1>5, <2>1
  <2> HIDE DEF m
  <2>3. \A i \in 1..m : new[i] = old[i]
      BY <1>6, <2>2
  <2>4. IsMerged(new, contents[compactor.segment], 1..m)
      BY <2>1, <2>3, NewestStays DEF IsMerged
  <2> QED  BY <1>1, <1>5, <2>1, <2>2, <2>4 DEF MemMerge, m, new
<1>10. Promised(new, 1..(n + 1), EmptyTable, Readable)
  <2>1. Promised(old, 1..n, memtable, Readable)
      BY <1>3, <1>5 DEF Mem, MemKept, old
  <2>2. Promised(new, 1..n, memtable, Readable)
      BY <1>6, <2>1, PromisedGrows
  <2>3. \A k \in Keys : IF memtable[k] = Absent THEN new[n + 1][k] = Absent
                        ELSE new[n + 1][k] \in Entry /\ new[n + 1][k] \in Readable[k]
      BY <1>6, <2>1, EntriesArePromised DEF EntriesPromised
  <2>4. /\ 1..n \in SUBSET Nat /\ n + 1 \in Nat /\ \A i \in 1..n : i <= n + 1
      BY <1>5
  <2>5. Promised(new, (1..n) \cup {n + 1}, EmptyTable, Readable)
      BY <2>2, <2>3, <2>4, PromisedFlushed
  <2> QED  BY <1>6, <2>5
<1>11. MemKept'
  <2>1. Readable' = Readable
      BY <1>1 DEF Readable
  <2> QED  BY <1>1, <1>5, <1>10, <2>1 DEF MemKept, new
<1> QED  BY <1>7, <1>8, <1>9, <1>11 DEF Mem

\* What compaction makes of the oldest segments.
LEMMA OldestMerged ==
    ASSUME TypeInv, Len(segments) >= 2
    PROVE  /\ Len(Oldest(segments)) \in 1..Len(segments)
           /\ IsMerged(Layers(contents, segments), Merged(Oldest(segments)),
                       1..Len(Oldest(segments)))
<1> DEFINE o == Oldest(segments)
           n == IF Len(segments) < MergeWidth THEN Len(segments) ELSE MergeWidth
           tables == Entries(o)
           layers == Layers(contents, segments)
<1>1. segments \in Seq(Timestamps) /\ n \in 1..Len(segments) /\ n \in Nat /\ Len(segments) \in Nat
    BY Types, Bounds
<1>2. o = SubSeq(segments, 1, n)
    BY DEF Oldest
<1> HIDE DEF n
<1>3. o \in Seq(Timestamps) /\ Len(o) = n /\ \A i \in 1..n : o[i] = segments[i] /\ i \in DOMAIN segments
  <2>1. /\ SubSeq(segments, 1, n) \in Seq(Timestamps) /\ Len(SubSeq(segments, 1, n)) = n
        /\ \A i \in 1..n : SubSeq(segments, 1, n)[i] = segments[i]
      BY <1>1, SubSeqProperties
  <2>2. \A i \in 1..n : i \in DOMAIN segments
      BY <1>1
  <2> QED  BY <1>2, <2>1, <2>2
<1> HIDE DEF o
<1>4. /\ DOMAIN tables = 1..n
      /\ \A i \in 1..n : tables[i] \in Tables /\ tables[i] = layers[i]
    BY <1>3, Types DEF Entries, Layers
<1> HIDE DEF tables, layers
<1>5. ASSUME NEW k \in Keys
      PROVE  \E v \in Entry \cup {Absent} :
                 /\ IsNewest(layers, 1..n, k, v)
                 /\ Merged(o)[k] = (IF v = Tombstone THEN Absent ELSE v)
  <2> DEFINE v == Newest(tables, k)
  <2>1. v \in Entry \cup {Absent}
      BY <1>1, <1>4, NewestType
  <2>2. IsNewest(tables, 1..n, k, v)
      BY <1>1, <1>4, NewestIs
  <2>3. IsNewest(layers, 1..n, k, v)
      BY <1>4, <2>2, NewestStays
  <2>4. Merged(o)[k] = (IF v = Tombstone THEN Absent ELSE v)
      BY DEF Merged, tables
  <2> HIDE DEF v
  <2> QED  BY <2>1, <2>3, <2>4
<1> QED  BY <1>1, <1>3, <1>5 DEF IsMerged, o, layers

LEMMA MemFlushClearWal ==
    ASSUME NEW c \in Clients, TypeInv, Mem(c), FlushClearWal(c)
    PROVE  Mem(c)'
<1> DEFINE key == client[c].key
           value == client[c].value
           n == Len(segments)
           layers == Layers(contents, segments)
<1>1. /\ client[c].at = "clear" /\ Acknowledge(c) /\ StartCompaction
      /\ UNCHANGED <<mode, memtable, segments>>
    BY DEF FlushClearWal
<1>2. client'[c] = Idle /\ client'[c].at = "idle"
    BY <1>1, Types DEF Acknowledge, Idle
<1>3. Running /\ Running'
    BY <1>1 DEF Mem, Quiet, Idle, Running
<1>4. /\ memtable = EmptyTable /\ n > 0
      /\ key # Absent => /\ key \in Keys /\ value \in Entry
                         /\ contents[segments[n]][key] = value
    BY <1>1 DEF Mem, MemClear, TypeInv, ValuesAwaited
<1>5. n \in Nat /\ DOMAIN segments = 1..n /\ n \in 1..n
    BY <1>4, Types
<1>6. Quiet(c)' /\ Pending(c)' /\ MemFlush(c)' /\ MemClear(c)'
    BY <1>2, <1>3 DEF Quiet, Pending, MemFlush, MemClear, InPersist, Kinds
<1>7. Promised(layers, DOMAIN segments, EmptyTable, Readable')
  <2>1. ASSUME key # Absent PROVE Reads(layers, DOMAIN segments, EmptyTable, key, value)
    <3>1. layers[n][key] = value /\ value # Absent
        BY <1>4, <1>5, <2>1, Markers DEF Layers
    <3>2. \A j \in 1..n : ~(j > n)
        BY <1>5
    <3> QED  BY <1>4, <1>5, <2>1, <3>1, <3>2 DEF Reads, IsNewest, EmptyTable
  <2>2. Promised(layers, DOMAIN segments, EmptyTable, Readable)
      BY <1>3, <1>4 DEF Mem, MemKept
  <2> HIDE DEF layers
  <2> QED  BY <1>1, <1>4, <2>1, <2>2, AcknowledgeKeeps
<1>8. CASE UNCHANGED <<clock, contents, compactor>>
  <2>1. MemMerge(c)' /\ Known'
      BY <1>1, <1>2, <1>8, MergeStays, KnownStays DEF Mem
  <2>2. MemKept'
      BY <1>1, <1>4, <1>7, <1>8 DEF MemKept
  <2> QED  BY <1>6, <2>1, <2>2 DEF Mem
<1>9. CASE ~UNCHANGED <<clock, contents, compactor>>
  <2> DEFINE o == Oldest(segments)
  <2>1. /\ clock < MaxSegments /\ clock' = clock + 1 /\ n >= 2
        /\ contents' = [contents EXCEPT ![clock + 1] = Merged(o)]
        /\ compactor' = [Resting EXCEPT !.at = "data", !.segment = clock + 1, !.merging = o]
      BY <1>1, <1>9 DEF StartCompaction
  <2>2. clock + 1 \in Timestamps /\ clock \in Nat
      BY <2>1, Types, Bounds
  <2>3. /\ contents'[clock + 1] = Merged(o)
        /\ \A t \in Timestamps : t <= clock => contents'[t] = contents[t]
      BY <2>1, <2>2, Types
  <2>4. Layers(contents', segments') = layers
      BY <1>1, <2>3, LayersStay DEF Mem
  <2>5. /\ compactor'.at = "data" /\ compactor'.segment = clock + 1 /\ compactor'.merging = o
      BY <2>1 DEF Resting
  <2>6. Len(o) \in 1..n /\ IsMerged(layers, Merged(o), 1..Len(o))
      BY <2>1, OldestMerged
  <2> HIDE DEF o, layers
  <2>7. MemMerge(c)'
      BY <1>1, <1>2, <2>1, <2>2, <2>3, <2>4, <2>5, <2>6 DEF MemMerge
  <2>8. Known'
      BY <1>1, <2>1, KnownStays DEF Mem
  <2>9. MemKept'
      BY <1>1, <1>4, <1>7, <2>4 DEF MemKept
  <2> QED  BY <1>6, <2>7, <2>8, <2>9 DEF Mem
<1> QED  BY <1>8, <1>9

LEMMA MemCompactInstall ==
    ASSUME NEW c \in Clients, TypeInv, Mem(c), CompactInstall
    PROVE  Mem(c)'
<1> DEFINE s == compactor.segment
           n == Len(compactor.merging)
           len == Len(segments)
<1>1. /\ compactor.at = "install" /\ compactor'.at = "unlink"
      /\ segments' = <<s>> \o SubSeq(segments, n + 1, len)
      /\ UNCHANGED <<mode, memtable, client, contents, clock, promised>>
    BY Types DEF CompactInstall, CompactorRecords
<1>2. Running /\ Running'
    BY <1>1, RestingType DEF Mem, Quiet, Running
<1>3. /\ s \in Timestamps /\ s <= clock /\ n \in 1..len
      /\ client[c].at = "clear" => n < len
      /\ IsMerged(Layers(contents, segments), contents[s], 1..n)
    BY <1>1 DEF Mem, MemMerge, InPersist, TypeInv, CompactorOK, MergesSome
<1>4. segments \in Seq(Timestamps) /\ len \in Nat /\ n \in Nat /\ n \in 0..len
    BY <1>3, Types
<1>5. /\ segments' \in Seq(Timestamps) /\ Len(segments') = 1 + (len - n) /\ segments'[1] = s
      /\ \A i \in 2..Len(segments') :
             i + (n - 1) \in (n + 1)..len /\ segments'[i] = segments[i + (n - 1)]
  <2> HIDE DEF n, s
  <2> QED  BY <1>1, <1>3, <1>4, Replaced
<1> HIDE DEF n, s, len
<1>6. Quiet(c)' /\ Pending(c)' /\ MemFlush(c)' /\ MemMerge(c)'
    BY <1>1, <1>2 DEF Mem, Quiet, Pending, MemFlush, MemMerge, InPersist, Kinds
<1>7. MemClear(c)'
  <2>1. ASSUME client[c].at = "clear"
        PROVE  Len(segments') > 0 /\ segments'[Len(segments')] = segments[len]
    <3>1. Len(segments') \in 2..Len(segments') /\ Len(segments') + (n - 1) = len
        BY <1>3, <1>4, <1>5, <2>1
    <3> QED  BY <1>5, <3>1
  <2> QED  BY <1>1, <2>1 DEF Mem, MemClear, len
<1>8. Known'
  <2> SUFFICES ASSUME NEW i \in 1..Len(segments') PROVE segments'[i] <= clock
      BY <1>1, <1>5 DEF Known
  <2>1. CASE i = 1
      BY <1>3, <1>5, <2>1
  <2>2. CASE i # 1
    <3>1. i \in 2..Len(segments')
        BY <2>2
    <3>2. i + (n - 1) \in 1..len /\ segments'[i] = segments[i + (n - 1)]
        BY <1>4, <1>5, <3>1
    <3> QED  BY <1>4, <3>2 DEF Mem, Known, len
  <2> QED  BY <2>1, <2>2
<1>9. MemKept'
  <2>1. Promised(Layers(contents, segments), DOMAIN segments, memtable, Readable)
      BY <1>2 DEF Mem, MemKept
  <2>2. Promised(Layers(contents, segments'), DOMAIN segments', memtable, Readable)
      BY <1>1, <1>3, <1>4, <2>1, PromisedReplaced DEF len
  <2>3. Readable' = Readable
      BY <1>1 DEF Readable
  <2> QED  BY <1>1, <2>2, <2>3 DEF MemKept
<1> QED  BY <1>6, <1>7, <1>8, <1>9 DEF Mem

LEMMA MemCrash ==
    ASSUME NEW c \in Clients, TypeInv, Mem(c), Crash
    PROVE  Mem(c)'
<1>1. /\ mode' = "down" /\ segments' = <<>> /\ client' = [d \in Clients |-> Idle]
      /\ compactor' = Resting
    BY DEF Crash
<1>2. client'[c] = Idle /\ client'[c].at = "idle" /\ ~Running' /\ compactor'.at = "idle"
    BY <1>1 DEF Idle, Running, Resting
<1> QED  BY <1>1, <1>2
         DEF Mem, Quiet, Pending, MemFlush, MemClear, MemMerge, Known, MemKept, InPersist, Kinds

LEMMA MemInit ==
    ASSUME NEW c \in Clients, Init
    PROVE  Mem(c)
<1>1. /\ mode = "up" /\ memtable = EmptyTable /\ segments = <<>> /\ client[c] = Idle
      /\ compactor = Resting /\ promised = [k \in Keys |-> {Tombstone}]
    BY DEF Init
<1>2. client[c].at = "idle" /\ compactor.at = "idle" /\ Running
    BY <1>1 DEF Idle, Resting, Running
<1>3. \A cs : Promised(cs, {}, EmptyTable, Readable)
    BY <1>1 DEF Promised, Reads, IsNewest, EmptyTable, Visible, Readable
<1>4. MemKept
    BY <1>1, <1>3 DEF MemKept
<1> QED  BY <1>1, <1>2, <1>4
         DEF Mem, Quiet, Pending, MemFlush, MemClear, MemMerge, Known, InPersist, Kinds

-----------------------------------------------------------------------------
(* The disk keeps it too, as long as it is tidy.                           *)

\* What is listed or loaded is no newer than the clock.
LEMMA OldFiles ==
    ASSUME TypeInv, InOrder
    PROVE  /\ \A t \in Listed : t <= clock
           /\ \A t \in Loaded : t <= clock /\ t \in Complete
           /\ Complete \subseteq Listed
<1>1. clock \in Nat /\ \A t \in Timestamps : t \in Nat
    BY Types
<1>2. \A t \in Listed : t <= clock
    BY <1>1 DEF InOrder, Listed
<1>3. \A t \in Loaded : t <= clock /\ t \in Complete
    BY Types DEF InOrder, Complete, Listed, Kinds
<1> QED  BY <1>2, <1>3 DEF Complete

\* What does not depend on the client, when no segment or file changes.
LEMMA StoreStays ==
    ASSUME InOrder, MergePersists, MergeUnlinks,
           UNCHANGED <<segments, files, compactor>>, TypeInv, clock' \in {clock, clock + 1}
    PROVE  InOrder' /\ MergePersists' /\ MergeUnlinks'
<1>1. Loaded' = Loaded
    BY DEF Loaded
<1>2. InOrder'
  <2>1. \A t \in Timestamps : (t > clock' => t > clock) /\ (t <= clock => t <= clock')
      BY Types
  <2> QED  BY <1>1, <2>1, Types DEF InOrder
<1>3. MergePersists'
    BY <1>1 DEF MergePersists
<1>4. MergeUnlinks'
    BY <1>1 DEF MergeUnlinks
<1> QED  BY <1>2, <1>3, <1>4

LEMMA MergedStays ==
    ASSUME NEW cs, NEW ds, NEW M, NEW t, \A x \in M \cup {t} : ds[x] = cs[x],
           IsMerged(cs, cs[t], M)
    PROVE  IsMerged(ds, ds[t], M)
BY DEF IsMerged, IsNewest

LEMMA PutKeeps ==
    ASSUME NEW c \in Clients, TypeInv, Disk(c), TypeInv',
           NEW k \in Keys, NEW v \in Entry, Put(c, k, v)
    PROVE  Disk(c)'
<1>1. /\ mode = "up" /\ client[c] = Idle /\ c \in Clients
      /\ client' = [client EXCEPT ![c] = [at |-> "wal", key |-> k, value |-> v, segment |-> 0]]
      /\ promised' = [promised EXCEPT ![k] = @ \cup {v}]
      /\ UNCHANGED <<mode, memtable, segments, compactor, wal, files, contents, clock>>
    BY DEF Put
<1>2. /\ client[c].at = "idle" /\ client'[c].at = "wal"
      /\ client'[c].key = k /\ client'[c].value = v
    BY <1>1, Types DEF Idle
<1>3. /\ v \in promised'[k] /\ \A x \in Keys : promised[x] \subseteq promised'[x]
    BY <1>1, Types
<1>4. Running /\ Running'
    BY <1>1 DEF Running
<1>5. InOrder' /\ MergePersists' /\ MergeUnlinks'
    BY <1>1, StoreStays DEF Disk
<1>6. Quiet(c)' /\ Pending(c)' /\ LogAndTable(c)' /\ Flush(c)'
    BY <1>1, <1>2, <1>3, <1>4 DEF Disk, Quiet, Pending, LogAndTable, Flush, InFlush, InPersist, Kinds
<1>7. FilesInHand(c)' /\ Merging(c)'
    BY <1>1, <1>2, <1>4 DEF Disk, FilesInHand, InHand, Listed, Loaded, Merging, InFlush, InPersist, Kinds
<1>8. DiskKept'
  <2>1. \A x \in Keys : Readable[x] \subseteq Readable'[x]
      BY <1>3 DEF Readable
  <2>2. Promised(contents, Complete, wal, Readable')
      BY <2>1, PromisedGrows DEF Disk, DiskKept
  <2> QED  BY <1>1, <2>2 DEF DiskKept, Complete, Listed
<1> QED  BY <1>5, <1>6, <1>7, <1>8 DEF Disk

LEMMA WalPutKeeps ==
    ASSUME NEW c \in Clients, TypeInv, Disk(c), TypeInv', WalPut(c)
    PROVE  Disk(c)'
<1> DEFINE key == client[c].key
           value == client[c].value
<1>1. /\ client[c].at = "wal" /\ c \in Clients
      /\ client' = [client EXCEPT ![c].at = "memtable"] /\ wal' = [wal EXCEPT ![key] = Decoded(value)]
      /\ UNCHANGED <<mode, memtable, segments, compactor, files, contents, clock, promised>>
    BY DEF WalPut
<1>2. /\ client'[c].at = "memtable" /\ client'[c].key = key /\ client'[c].value = value
      /\ key \in Keys /\ value \in Entry /\ value \in promised[key]
  <2>1. client[c] \in ClientRecords
      BY <1>1, Types
  <2> QED  BY <1>1, <2>1, Types DEF TypeInv, Disk, ValuesAwaited, Pending, ClientRecords
<1>3. Running /\ Running' /\ wal = Logged(memtable)
    BY <1>1 DEF Disk, Quiet, Idle, Running, LogAndTable
<1>4. InOrder' /\ MergePersists' /\ MergeUnlinks'
    BY <1>1, StoreStays DEF Disk
<1>5. Quiet(c)' /\ Pending(c)' /\ LogAndTable(c)' /\ Flush(c)'
  <2>1. wal' = Logged([memtable EXCEPT ![key] = value])
    <3>1. \A k \in Keys : wal'[k] = Decoded([memtable EXCEPT ![key] = value][k])
        BY <1>1, <1>2, <1>3, Types DEF Logged, Tables
    <3> QED  BY <1>1, <3>1, Types DEF Logged, Tables
  <2> QED  BY <1>1, <1>2, <1>3, <2>1 DEF Quiet, Pending, LogAndTable, Flush, InFlush, InPersist, Kinds
<1>6. FilesInHand(c)' /\ Merging(c)'
    BY <1>1, <1>2, <1>3 DEF Disk, FilesInHand, InHand, Listed, Loaded, Merging, InFlush, InPersist, Kinds
<1>7. DiskKept'
  <2>0. Decoded(value) \in Entry /\ Decoded(value) \in Readable[key]
      BY <1>2, DecodedType DEF Readable
  <2>1. Promised(contents, Complete, wal', Readable)
      BY <1>1, <1>2, <2>0, PromisedPut, Types DEF Disk, DiskKept
  <2> QED  BY <1>1, <2>1 DEF DiskKept, Readable, Complete, Listed
<1> QED  BY <1>4, <1>5, <1>6, <1>7 DEF Disk

\* A segment is given the next timestamp and a table, and nothing else changes
\* in the store.
LEMMA BuildFrame ==
    ASSUME TypeInv, InOrder, NEW table, clock < MaxSegments, clock' = clock + 1,
           contents' = [contents EXCEPT ![clock + 1] = table]
    PROVE  /\ clock + 1 \in Timestamps /\ files[clock + 1] = {}
           /\ clock + 1 \notin Loaded /\ clock + 1 \notin Listed
           /\ contents'[clock + 1] = table
           /\ \A x \in Timestamps : x <= clock => contents'[x] = contents[x]
           /\ \A tb, pr : Promised(contents, Complete, tb, pr) => Promised(contents', Complete, tb, pr)
<1>1. clock + 1 \in Timestamps /\ clock \in Nat /\ clock < clock + 1
    BY Bounds, Types
<1>2. files[clock + 1] = {}
    BY <1>1 DEF InOrder
<1>3. clock + 1 \notin Listed /\ clock + 1 \notin Loaded
    BY <1>1, OldFiles
<1>4. /\ contents'[clock + 1] = table
      /\ \A x \in Timestamps : x <= clock => contents'[x] = contents[x]
    BY <1>1, Types
<1>5. \A x \in Loaded \cup Complete : contents'[x] = contents[x]
    BY <1>4, OldFiles, Types
<1>6. ASSUME NEW S \in SUBSET Complete, NEW tb, NEW pr, Promised(contents, S, tb, pr)
      PROVE  Promised(contents', S, tb, pr)
    BY <1>5, <1>6, PromisedGrows
<1> QED  BY <1>1, <1>2, <1>3, <1>4, <1>6

\* A flush that is begun leaves a compaction under way as it was.
LEMMA BuildMerging ==
    ASSUME NEW c \in Clients, TypeInv, Disk(c), UNCHANGED compactor, clock' = clock + 1,
           \A x \in Timestamps : x <= clock => contents'[x] = contents[x]
    PROVE  Merging(c)'
<1> DEFINE t == compactor.segment
           M == Members(compactor.merging)
<1>1. CASE compactor.at # "idle"
  <2>1. /\ t \in Timestamps /\ t <= clock /\ \A x \in M : x < t
        /\ IsMerged(contents, contents[t], M)
      BY <1>1 DEF Disk, Merging
  <2>2. clock \in Nat /\ t \in Nat /\ M \in SUBSET Timestamps /\ \A x \in M : x \in Nat
    <3>1. clock \in Nat /\ t \in Nat /\ compactor.merging \in Seq(Timestamps)
        BY <2>1, Types DEF CompactorRecords
    <3>2. M \in SUBSET Timestamps
        BY <3>1, MembersType
    <3> QED  BY <3>1, <3>2, Bounds
  <2>3. t < clock' /\ \A x \in M \cup {t} : x \in Timestamps /\ x <= clock
      BY <2>1, <2>2
  <2>4. \A x \in M \cup {t} : contents'[x] = contents[x]
      BY <2>3
  <2> HIDE DEF M
  <2>5. IsMerged(contents', contents'[t], M)
      BY <2>1, <2>4, MergedStays
  <2>6. t <= clock'
      BY <2>2, <2>3
  <2> QED  BY <1>1, <2>1, <2>3, <2>5, <2>6 DEF Disk, Merging, M
<1>2. CASE compactor.at = "idle"
    BY <1>2 DEF Disk, Merging
<1> QED  BY <1>1, <1>2

\* The same of the put's and of the close's flush.
LEMMA BuildKeeps ==
    ASSUME NEW c \in Clients, TypeInv, Disk(c), TypeInv', NEW table, BuildSegment(c, table),
           Running, Running', memtable' = table, wal = Logged(table),
           UNCHANGED <<segments, compactor, wal, files>>,
           client[c].at \in {"idle", "memtable"},
           client[c].key # Absent => client[c].key \in Keys /\ table[client[c].key] = client[c].value,
           EntriesPromised(table, Readable)
    PROVE  Disk(c)'
<1>1. /\ clock < MaxSegments /\ clock' = clock + 1
      /\ contents' = [contents EXCEPT ![clock + 1] = table]
      /\ client' = [client EXCEPT ![c].at = "data", ![c].segment = clock + 1]
      /\ promised' = promised
    BY DEF BuildSegment
<1>2. /\ client'[c].at = "data" /\ client'[c].segment = clock + 1
      /\ client'[c].key = client[c].key /\ client'[c].value = client[c].value
  <2>1. client[c] \in ClientRecords
      BY Types
  <2> QED  BY <1>1, <2>1, Types DEF ClientRecords
<1>3. /\ clock + 1 \in Timestamps /\ files[clock + 1] = {} /\ clock + 1 \notin Loaded
      /\ contents'[clock + 1] = table
      /\ \A x \in Timestamps : x <= clock => contents'[x] = contents[x]
      /\ \A tb, pr : Promised(contents, Complete, tb, pr) => Promised(contents', Complete, tb, pr)
    BY <1>1, BuildFrame DEF Disk
<1>4. Loaded' = Loaded /\ Listed' = Listed /\ Complete' = Complete
    BY DEF Loaded, Listed, Complete
<1>5. InOrder' /\ MergePersists' /\ MergeUnlinks'
    BY <1>1, StoreStays DEF Disk
<1>6. Quiet(c)' /\ Pending(c)' /\ LogAndTable(c)' /\ Flush(c)'
  <2>1. Quiet(c)' /\ Pending(c)' /\ LogAndTable(c)'
      BY <1>1, <1>2 DEF Quiet, Pending, LogAndTable
  <2>2. files'[clock'] = Written[client'[c].at] /\ clock' \notin Loaded'
      BY <1>1, <1>2, <1>3, <1>4 DEF Written
  <2>3. /\ client'[c].segment = clock' /\ clock' \in Timestamps /\ wal' = Logged(contents'[clock'])
        /\ EntriesPromised(contents'[clock'], Readable')
        /\ client'[c].key # Absent =>
               client'[c].key \in Keys /\ contents'[clock'][client'[c].key] = client'[c].value
      BY <1>1, <1>2, <1>3 DEF Readable
  <2> QED  BY <2>1, <2>2, <2>3 DEF Flush
<1>7. FilesInHand(c)'
    BY <1>2, <1>4 DEF Disk, FilesInHand, InHand
<1>8. Merging(c)'
    BY <1>1, <1>3, BuildMerging
<1>9. DiskKept'
    BY <1>1, <1>3, <1>4 DEF Disk, DiskKept, Readable
<1> QED  BY <1>5, <1>6, <1>7, <1>8, <1>9 DEF Disk

LEMMA MemtableSetKeeps ==
    ASSUME NEW c \in Clients, TypeInv, Disk(c), TypeInv', Mem(c), MemtableSet(c)
    PROVE  Disk(c)'
<1> DEFINE key == client[c].key
           value == client[c].value
           table == [memtable EXCEPT ![key] = value]
<1>1. /\ client[c].at = "memtable" /\ c \in Clients /\ memtable' = table
      /\ \/ BuildSegment(c, table)
         \/ Acknowledge(c) /\ UNCHANGED <<clock, contents>>
      /\ UNCHANGED <<mode, segments, compactor, wal, files>>
    BY DEF MemtableSet
<1>2. /\ key \in Keys /\ value \in Entry /\ value \in promised[key] /\ table[key] = value
      /\ value # Absent /\ Decoded(value) # Absent
    BY <1>1, Types, Markers, DecodedType DEF TypeInv, Disk, ValuesAwaited, Pending, Tables
<1>3. Running /\ Running' /\ wal = Logged(table)
    BY <1>1 DEF Disk, Quiet, Idle, Running, LogAndTable
<1>4. EntriesPromised(table, Readable)
  <2>1. EntriesPromised(memtable, Readable)
      BY <1>3, EntriesArePromised DEF Mem, MemKept
  <2>2. value \in Readable[key]
      BY <1>2 DEF Readable
  <2> QED  BY <1>2, <2>1, <2>2, Types DEF EntriesPromised, Tables
<1> HIDE DEF table
<1>5. CASE BuildSegment(c, table)
    BY <1>1, <1>2, <1>3, <1>4, <1>5, BuildKeeps
<1>6. CASE Acknowledge(c) /\ UNCHANGED <<clock, contents>>
  <2>1. client'[c] = Idle /\ client'[c].at = "idle"
      BY <1>1, <1>6, Types DEF Acknowledge, Idle
  <2>2. Reads(contents, Complete, wal, key, Decoded(value))
      BY <1>2, <1>3 DEF Reads, Logged
  <2>3. Loaded' = Loaded /\ Listed' = Listed /\ Complete' = Complete
      BY <1>1 DEF Loaded, Listed, Complete
  <2>5. Promised(contents, Complete, wal, Readable')
      BY <1>2, <1>6, <2>2, AcknowledgeKeeps DEF Disk, DiskKept
  <2>6. DiskKept'
      BY <1>1, <1>6, <2>3, <2>5 DEF DiskKept
  <2>7. InOrder' /\ MergePersists' /\ MergeUnlinks'
      BY <1>1, <1>6, StoreStays DEF Disk
  <2>8. Quiet(c)' /\ Pending(c)' /\ LogAndTable(c)' /\ Flush(c)'
      BY <1>1, <1>3, <2>1 DEF Quiet, Pending, LogAndTable, Flush, InFlush, InPersist, Kinds
  <2>9. FilesInHand(c)' /\ Merging(c)'
      BY <1>1, <1>3, <1>6, <2>1, <2>3
         DEF Disk, FilesInHand, InHand, Merging, InFlush, InPersist, Kinds
  <2> QED  BY <2>6, <2>7, <2>8, <2>9 DEF Disk
<1> QED  BY <1>1, <1>5, <1>6

LEMMA CloseKeeps ==
    ASSUME NEW c \in Clients, TypeInv, Disk(c), TypeInv', Mem(c), Close(c)
    PROVE  Disk(c)'
<1>1. /\ mode = "up" /\ client[c] = Idle /\ mode' = "closing" /\ c \in Clients
      /\ \/ BuildSegment(c, memtable)
         \/ UNCHANGED <<client, contents, clock, promised>>
      /\ UNCHANGED <<memtable, segments, compactor, wal, files>>
    BY DEF Close
<1>2. Running /\ Running' /\ client[c].at = "idle" /\ client[c].key = Absent
    BY <1>1 DEF Running, Idle
<1>3. wal = Logged(memtable)
    BY <1>2 DEF Disk, LogAndTable
<1>4. CASE BuildSegment(c, memtable)
  <2>1. EntriesPromised(memtable, Readable)
      BY <1>2, EntriesArePromised DEF Mem, MemKept
  <2> QED  BY <1>1, <1>2, <1>3, <1>4, <2>1, BuildKeeps
<1>5. CASE UNCHANGED <<client, contents, clock, promised>>
  <2>1. Loaded' = Loaded /\ Listed' = Listed /\ Complete' = Complete
      BY <1>1 DEF Loaded, Listed, Complete
  <2>2. InOrder' /\ MergePersists' /\ MergeUnlinks'
      BY <1>1, <1>5, StoreStays DEF Disk
  <2>3. Quiet(c)' /\ Pending(c)' /\ LogAndTable(c)' /\ Flush(c)'
      BY <1>1, <1>2, <1>3, <1>5 DEF Quiet, Pending, LogAndTable, Flush, InFlush, InPersist, Kinds
  <2>4. FilesInHand(c)' /\ Merging(c)'
      BY <1>1, <1>2, <1>5, <2>1 DEF Disk, FilesInHand, InHand, Merging
  <2>5. DiskKept'
      BY <1>1, <1>2, <1>5, <2>1 DEF Disk, DiskKept, Readable
  <2> QED  BY <2>2, <2>3, <2>4, <2>5 DEF Disk
<1> QED  BY <1>1, <1>4, <1>5

LEMMA WrittenNext ==
    ASSUME NEW kind \in Kinds
    PROVE  /\ Written[kind] \cup {kind} = Written[After[kind]]
           /\ After[kind] \in InPersist /\ After[kind] \in InFlush
           /\ "meta" \in Written[After[kind]] <=> kind = "meta"
           /\ After[kind] = "install" <=> kind = "meta"
<1>1. CASE kind = "data"
    BY <1>1 DEF Written, After, Kinds, InPersist, InFlush
<1>2. CASE kind = "bloom"
    BY <1>2 DEF Written, After, Kinds, InPersist, InFlush
<1>3. CASE kind = "meta"
    BY <1>3 DEF Written, After, Kinds, InPersist, InFlush
<1> QED  BY <1>1, <1>2, <1>3 DEF Kinds

LEMMA RunningAwaits ==
    ASSUME NEW c \in Clients, TypeInv, Disk(c), client[c].at # "idle"
    PROVE  Running
BY DEF Disk, Quiet, Idle

\* The order of what is loaded does not depend on the compaction.
LEMMA OrderStays ==
    ASSUME TypeInv, InOrder, UNCHANGED <<segments, files>>, clock' \in {clock, clock + 1}
    PROVE  InOrder'
<1>1. \A t \in Timestamps : (t > clock' => t > clock) /\ (t <= clock => t <= clock')
    BY Types
<1>2. Loaded' = Loaded
    BY DEF Loaded
<1> QED  BY <1>1, <1>2, Types DEF InOrder

\* The flush writes none of the compaction's files.
LEMMA FlushElsewhere ==
    ASSUME NEW c \in Clients, TypeInv, Disk(c), client[c].at \in InFlush,
           UNCHANGED <<segments, compactor>>,
           \A t \in Timestamps : t # clock => files'[t] = files[t]
    PROVE  MergePersists' /\ MergeUnlinks'
<1> DEFINE s == compactor.segment
           u == compactor.unlinking
           M == Members(compactor.merging)
<1>1. /\ compactor.merging \in Seq(Timestamps) /\ u \in Seq(Timestamps) /\ clock \in Nat
      /\ \A t \in Timestamps : t \in Nat
    BY Types DEF CompactorRecords
<1>2. Loaded' = Loaded
    BY DEF Loaded
<1>3. compactor.at # "idle" => s \in Timestamps /\ s < clock /\ \A x \in M : x < s
    BY DEF Disk, Merging
<1>4. MergePersists'
  <2>1. compactor.at \in InPersist => files'[s] = files[s]
      BY <1>1, <1>3 DEF InPersist, Kinds
  <2> QED  BY <1>2, <2>1 DEF MergePersists, Disk
<1>5. MergeUnlinks'
  <2> SUFFICES ASSUME compactor.at = "unlink" PROVE MergeUnlinks'
      BY DEF MergeUnlinks
  <2>1. Members(u) \subseteq M
      BY DEF Disk, MergeUnlinks
  <2>2. ASSUME NEW i \in 1..Len(u) PROVE files'[u[i]] = files[u[i]]
    <3>1. u[i] \in Members(u) /\ u[i] \in Timestamps
        BY <1>1 DEF Members
    <3>2. u[i] < s /\ s < clock /\ u[i] \in Nat /\ s \in Nat
        BY <1>1, <1>3, <2>1, <3>1
    <3>3. u[i] # clock
        BY <1>1, <3>2
    <3> QED  BY <3>1, <3>3
  <2>3. 1 \in 1..Len(u) /\ \A i \in 2..Len(u) : i \in 1..Len(u)
    <3>1. u # <<>>
        BY DEF TypeInv, CompactorOK
    <3>2. Len(u) # 0 /\ Len(u) \in Nat
        BY <1>1, <3>1, EmptySeq
    <3> QED  BY <3>2
  <2> HIDE DEF M
  <2>4. files'[u[1]] = files[u[1]] /\ \A i \in 2..Len(u) : files'[u[i]] = files[u[i]]
      BY <2>2, <2>3
  <2> QED  BY <1>2, <2>4 DEF MergeUnlinks, Disk, M
<1> QED  BY <1>4, <1>5

LEMMA FlushWriteKeeps ==
    ASSUME NEW c \in Clients, TypeInv, Disk(c), TypeInv', FlushWrite(c)
    PROVE  Disk(c)'
<1> DEFINE kind == client[c].at
<1>1. /\ kind \in Kinds /\ c \in Clients
      /\ files' = [files EXCEPT ![client[c].segment] = @ \cup {kind}]
      /\ client' = [client EXCEPT ![c].at = After[@]]
      /\ UNCHANGED <<mode, memtable, segments, compactor, wal, contents, clock, promised>>
    BY DEF FlushWrite
<1>2. /\ client'[c].at = After[kind] /\ client'[c].segment = client[c].segment
      /\ client'[c].key = client[c].key /\ client'[c].value = client[c].value
  <2>1. client[c] \in ClientRecords
      BY <1>1, Types
  <2> QED  BY <1>1, <2>1, Types DEF ClientRecords
<1>3. Running /\ Running' /\ wal = Logged(memtable)
    BY <1>1, RunningAwaits DEF Disk, Running, LogAndTable, Kinds
<1>4. /\ client[c].segment = clock /\ clock \in Timestamps /\ wal = Logged(contents[clock])
      /\ EntriesPromised(contents[clock], Readable)
      /\ clock \notin Loaded /\ files[clock] = Written[kind]
      /\ client[c].key # Absent => client[c].key \in Keys /\ contents[clock][client[c].key] = client[c].value
    BY <1>1 DEF Disk, Flush, InFlush, InPersist
<1>5. /\ files'[clock] = Written[After[kind]]
      /\ \A t \in Timestamps : t # clock => files'[t] = files[t]
    BY <1>1, <1>4, WrittenNext, Types
<1>6. /\ After[kind] \in InPersist /\ After[kind] \in InFlush /\ kind \in InFlush
      /\ After[kind] = "install" <=> kind = "meta"
      /\ "meta" \in Written[After[kind]] <=> kind = "meta"
    BY <1>1, WrittenNext DEF InFlush, InPersist
<1>7. Loaded' = Loaded
    BY <1>1 DEF Loaded
<1>8. InOrder'
    BY <1>1, <1>4, <1>5, <1>7, Types DEF Disk, InOrder
<1>9. MergePersists' /\ MergeUnlinks'
    BY <1>1, <1>5, <1>6, FlushElsewhere
<1>10. Quiet(c)' /\ Pending(c)' /\ LogAndTable(c)' /\ Flush(c)'
  <2>1. After[kind] \notin {"wal", "memtable", "clear"}
      BY <1>6 DEF InPersist, Kinds
  <2>2. Quiet(c)' /\ Pending(c)' /\ LogAndTable(c)'
      BY <1>1, <1>2, <1>3, <2>1 DEF Quiet, Pending, LogAndTable
  <2> QED  BY <1>1, <1>2, <1>4, <1>5, <1>7, <2>2 DEF Flush, Readable
<1>11. FilesInHand(c)'
  <2> SUFFICES ASSUME NEW t \in Listed' PROVE InHand(c, t)'
      BY DEF FilesInHand
  <2>1. t \in Timestamps /\ "meta" \in files'[t]
      BY DEF Listed
  <2>2. CASE t = clock
      BY <1>1, <1>2, <1>5, <1>6, <2>1, <2>2 DEF InHand
  <2>3. CASE t # clock
    <3>1. t \in Listed
        BY <1>5, <2>1, <2>3 DEF Listed
    <3>2. InHand(c, t)
        BY <1>3, <3>1 DEF Disk, FilesInHand
    <3> QED  BY <1>1, <1>7, <2>3, <3>2 DEF InHand
  <2> QED  BY <2>2, <2>3
<1>12. Merging(c)'
    BY <1>1, <1>6 DEF Disk, Merging
<1>14. DiskKept'
  <2>1. \A t \in Timestamps : t # clock => (t \in Complete' <=> t \in Complete)
      BY <1>5 DEF Complete, Listed
  <2>2. CASE kind = "meta"
    <3>1. clock \in Complete'
        BY <1>4, <1>5, <2>2 DEF Complete, Listed, Written, After, Kinds
    <3>2. Complete' = Complete \cup {clock}
        BY <1>4, <2>1, <3>1 DEF Complete, Listed
    <3>3. Promised(contents, Complete \cup {clock}, wal, Readable)
      <4>1. \A k \in Keys : wal[k] = Absent => contents[clock][k] = Absent
          BY <1>4, DecodedType DEF Logged
      <4> QED  BY <4>1, PromisedTwice DEF Disk, DiskKept
    <3> QED  BY <1>1, <3>2, <3>3 DEF DiskKept, Readable
  <2>3. CASE kind # "meta"
    <3>1. clock \notin Complete'
        BY <1>5, <1>6, <2>3 DEF Complete, Listed
    <3>2. clock \notin Complete
        BY <1>1, <1>4, <2>3 DEF Complete, Listed, Written, Kinds
    <3>3. Complete' = Complete
        BY <2>1, <3>1, <3>2 DEF Complete, Listed
    <3> QED  BY <1>1, <3>3 DEF Disk, DiskKept, Readable
  <2> QED  BY <2>2, <2>3
<1> QED  BY <1>8, <1>9, <1>10, <1>11, <1>12, <1>14 DEF Disk

LEMMA FlushFailsKeeps ==
    ASSUME NEW c \in Clients, TypeInv, Disk(c), TypeInv', FlushFails(c)
    PROVE  Disk(c)'
<1>1. /\ client[c].at \in Kinds /\ c \in Clients /\ client' = [client EXCEPT ![c] = Idle]
      /\ UNCHANGED <<mode, memtable, segments, compactor, wal, files, contents, clock, promised>>
    BY DEF FlushFails
<1>2. client'[c] = Idle /\ client'[c].at = "idle"
    BY <1>1, Types DEF Idle
<1>3. Running /\ Running' /\ wal = Logged(memtable)
    BY <1>1, RunningAwaits DEF Disk, Running, LogAndTable, Kinds
<1>4. Loaded' = Loaded /\ Listed' = Listed /\ Complete' = Complete
    BY <1>1 DEF Loaded, Listed, Complete
<1>5. InOrder' /\ MergePersists' /\ MergeUnlinks'
    BY <1>1, StoreStays DEF Disk
<1>6. Quiet(c)' /\ Pending(c)' /\ LogAndTable(c)' /\ Flush(c)'
    BY <1>1, <1>2, <1>3 DEF Quiet, Pending, LogAndTable, Flush, InFlush, InPersist, Kinds
<1>7. FilesInHand(c)' /\ Merging(c)'
    BY <1>1, <1>2, <1>3, <1>4
       DEF Disk, FilesInHand, InHand, Merging, InFlush, InPersist, Kinds
<1>8. DiskKept'
    BY <1>1, <1>3, <1>4 DEF Disk, DiskKept, Readable
<1> QED  BY <1>5, <1>6, <1>7, <1>8 DEF Disk

LEMMA Appended ==
    ASSUME NEW order \in Seq(Timestamps), NEW t \in Timestamps
    PROVE  /\ Members(Append(order, t)) = Members(order) \cup {t}
           /\ (Increasing(order) /\ \A x \in Members(order) : x < t) => Increasing(Append(order, t))
<1> DEFINE n == Len(order)
           new == Append(order, t)
<1>1. /\ n \in Nat /\ DOMAIN order = 1..n /\ DOMAIN new = 1..(n + 1) /\ new[n + 1] = t
      /\ \A i \in 1..n : new[i] = order[i]
    OBVIOUS
<1> HIDE DEF n, new
<1>2. \A i \in 1..(n + 1) : i \in 1..n \/ i = n + 1
    BY <1>1
<1>3. Members(new) = Members(order) \cup {t}
  <2>1. \A i \in 1..(n + 1) : new[i] \in Members(order) \cup {t}
      BY <1>1, <1>2 DEF Members
  <2>2. \A x \in Members(order) \cup {t} : \E i \in 1..(n + 1) : new[i] = x
    <3>1. \A i \in 1..n : i \in 1..(n + 1)
        BY <1>1
    <3>2. n + 1 \in 1..(n + 1)
        BY <1>1
    <3> QED  BY <1>1, <3>1, <3>2 DEF Members
  <2> QED  BY <1>1, <2>1, <2>2 DEF Members
<1>4. ASSUME Increasing(order), \A x \in Members(order) : x < t
      PROVE  Increasing(new)
  <2> SUFFICES ASSUME NEW i \in 1..(n + 1), NEW j \in 1..(n + 1), i < j PROVE new[i] < new[j]
      BY <1>1 DEF Increasing
  <2>1. i \in 1..n
      BY <1>1
  <2>2. CASE j = n + 1
      BY <1>1, <1>4, <2>1, <2>2 DEF Members
  <2>3. CASE j \in 1..n
      BY <1>1, <1>4, <2>1, <2>3 DEF Increasing
  <2> QED  BY <1>2, <2>2, <2>3
<1> QED  BY <1>3, <1>4 DEF new

LEMMA FlushInstallKeeps ==
    ASSUME NEW c \in Clients, TypeInv, Disk(c), TypeInv', FlushInstall(c)
    PROVE  Disk(c)'
<1>1. /\ client[c].at = "install" /\ c \in Clients
      /\ segments' = Append(segments, client[c].segment) /\ memtable' = EmptyTable
      /\ client' = [client EXCEPT ![c].at = "clear"]
      /\ UNCHANGED <<mode, compactor, wal, files, contents, clock, promised>>
    BY DEF FlushInstall
<1>2. /\ client'[c].at = "clear" /\ client'[c].segment = client[c].segment
      /\ client'[c].key = client[c].key /\ client'[c].value = client[c].value
  <2>1. client[c] \in ClientRecords
      BY <1>1, Types
  <2> QED  BY <1>1, <2>1, Types DEF ClientRecords
<1>3. Running /\ Running'
    BY <1>1, RunningAwaits DEF Running
<1>4. /\ client[c].segment = clock /\ clock \in Timestamps /\ wal = Logged(contents[clock])
      /\ EntriesPromised(contents[clock], Readable)
      /\ clock \notin Loaded /\ files[clock] = Kinds
      /\ client[c].key # Absent => client[c].key \in Keys /\ contents[clock][client[c].key] = client[c].value
    BY <1>1 DEF Disk, Flush, InFlush, InPersist, Written
<1>5. /\ segments \in Seq(Timestamps) /\ Loaded \in SUBSET Timestamps
      /\ compactor.merging \in Seq(Timestamps)
      /\ clock \in Nat /\ \A t \in Timestamps : t \in Nat
    BY Types DEF CompactorRecords
<1>6. \A x \in Loaded : x < clock
  <2>1. \A x \in Loaded : x <= clock /\ x # clock /\ x \in Nat
      BY <1>4, <1>5 DEF Disk, InOrder
  <2> QED  BY <1>5, <2>1
<1>7. Loaded' = Loaded \cup {clock} /\ Increasing(segments')
    BY <1>1, <1>4, <1>5, <1>6, Appended DEF Disk, InOrder, Loaded
<1>8. InOrder'
    BY <1>1, <1>4, <1>5, <1>7 DEF Disk, InOrder
<1>9. Quiet(c)' /\ Pending(c)' /\ LogAndTable(c)' /\ Flush(c)'
    BY <1>1, <1>2, <1>3, <1>4, <1>7 DEF Quiet, Pending, LogAndTable, Flush, InPersist, Kinds, Readable
<1>10. FilesInHand(c)'
  <2>1. Listed' = Listed
      BY <1>1 DEF Listed
  <2> QED  BY <1>1, <1>2, <1>3, <1>7, <2>1 DEF Disk, FilesInHand, InHand
<1>11. Merging(c)'
    BY <1>1, <1>2 DEF Disk, Merging, InFlush, InPersist
<1>12. compactor.at # "idle" => compactor.segment \in Timestamps /\ compactor.segment < clock
    BY <1>1 DEF Disk, Merging, InFlush, InPersist
<1>13. MergePersists'
  <2> DEFINE s == compactor.segment
             n == Len(compactor.merging)
             len == Len(segments)
  <2> SUFFICES ASSUME compactor.at \in InPersist PROVE MergePersists'
      BY <1>1 DEF MergePersists
  <2>1. /\ s \notin Loaded /\ files[s] = Written[compactor.at] /\ n <= len
        /\ \A i \in 1..n : segments[i] = compactor.merging[i]
        /\ \A i \in (n + 1)..len : segments[i] > s
      BY DEF Disk, MergePersists
  <2>2. s \in Timestamps /\ s < clock
      BY <1>12 DEF InPersist, Kinds
  <2>3. /\ Len(segments') = len + 1 /\ segments'[len + 1] = clock
        /\ \A i \in 1..len : segments'[i] = segments[i]
      BY <1>1, <1>4, <1>5
  <2>4. n \in Nat /\ len \in Nat
      BY <1>5
  <2> HIDE DEF n, len
  <2>5. \A i \in 1..n : segments'[i] = compactor.merging[i]
      BY <2>1, <2>3, <2>4
  <2>6. \A i \in (n + 1)..(len + 1) : segments'[i] > s
    <3> SUFFICES ASSUME NEW i \in (n + 1)..(len + 1) PROVE segments'[i] > s
        OBVIOUS
    <3>1. CASE i = len + 1
        BY <1>5, <2>2, <2>3, <3>1
    <3>2. CASE i # len + 1
        BY <2>1, <2>3, <2>4, <3>2
    <3> QED  BY <3>1, <3>2
  <2>7. s \notin Loaded' /\ n <= len + 1
      BY <1>5, <1>7, <2>1, <2>2, <2>4
  <2> QED  BY <1>1, <2>1, <2>3, <2>5, <2>6, <2>7 DEF MergePersists, n, len
<1>14. MergeUnlinks'
  <2>1. compactor.at = "unlink" => compactor.segment <= clock
      BY <1>5, <1>12
  <2> QED  BY <1>1, <1>7, <2>1 DEF Disk, MergeUnlinks
<1>16. DiskKept'
    BY <1>1 DEF Disk, DiskKept, Readable, Complete, Listed
<1> QED  BY <1>8, <1>9, <1>10, <1>11, <1>13, <1>14, <1>16 DEF Disk

LEMMA OldestIsAll ==
    ASSUME NEW order \in Seq(Timestamps), Len(order) <= MergeWidth
    PROVE  Oldest(order) = order
<1>1. Len(order) \in Nat /\ MergeWidth \in Nat
    BY Bounds
<1>2. Oldest(order) = SubSeq(order, 1, Len(order))
    BY <1>1 DEF Oldest
<1>3. SubSeq(order, 1, Len(order)) = order
  <2>1. /\ Len(SubSeq(order, 1, Len(order))) = Len(order)
        /\ SubSeq(order, 1, Len(order)) \in Seq(Timestamps)
        /\ \A i \in 1..Len(order) : SubSeq(order, 1, Len(order))[i] = order[i]
      BY <1>1, SubSeqProperties
  <2> QED  BY <2>1, SeqEqual
<1> QED  BY <1>2, <1>3

\* A compaction is begun, of all segments, or none is.
LEMMA StartKeeps ==
    ASSUME NEW c \in Clients, TypeInv, Disk(c), TypeInv', StartCompaction, ~untidy',
           client[c].at = "clear", client'[c] = Idle, UNCHANGED <<mode, segments, files>>
    PROVE  /\ InOrder' /\ MergePersists' /\ MergeUnlinks' /\ Merging(c)' /\ FilesInHand(c)'
           /\ \A tb, pr : Promised(contents, Complete, tb, pr) => Promised(contents', Complete', tb, pr)
<1>1. Loaded' = Loaded /\ Listed' = Listed /\ Complete' = Complete
    BY DEF Loaded, Listed, Complete
<1>2. /\ TypeInv /\ InOrder /\ MergePersists /\ MergeUnlinks /\ Merging(c) /\ FilesInHand(c)
    BY DEF Disk
<1>3. Running /\ client'[c].at = "idle"
    BY RunningAwaits DEF Idle
<1>4. CASE UNCHANGED <<clock, contents, compactor>>
  <2>1. InOrder' /\ MergePersists' /\ MergeUnlinks'
      BY <1>2, <1>4, StoreStays
  <2>2. Merging(c)' /\ FilesInHand(c)'
      BY <1>1, <1>2, <1>3, <1>4 DEF Merging, FilesInHand, InHand, InFlush, InPersist, Kinds, Running
  <2> QED  BY <1>1, <1>4, <2>1, <2>2
<1>5. CASE ~UNCHANGED <<clock, contents, compactor>>
  <2>1. /\ compactor = Resting /\ clock < MaxSegments /\ clock' = clock + 1
        /\ contents' = [contents EXCEPT ![clock + 1] = Merged(Oldest(segments))]
        /\ compactor' = [Resting EXCEPT !.at = "data", !.segment = clock + 1,
                                        !.merging = Oldest(segments)]
        /\ Len(segments) >= 2 /\ ~(Len(segments) > MergeWidth)
      BY <1>5 DEF StartCompaction
  <2>2. Oldest(segments) = segments
    <3>1. Len(segments) <= MergeWidth
        BY <1>2, <2>1, Bounds, Types
    <3> QED  BY <1>2, <3>1, OldestIsAll, Types
  <2>3. /\ compactor'.at = "data" /\ compactor'.segment = clock + 1 /\ compactor'.kind = "data"
        /\ compactor'.merging = segments
      BY <2>1, <2>2 DEF Resting
  <2>4. /\ clock + 1 \in Timestamps /\ files[clock + 1] = {} /\ clock + 1 \notin Loaded
        /\ contents'[clock + 1] = Merged(segments)
        /\ \A x \in Timestamps : x <= clock => contents'[x] = contents[x]
        /\ \A tb, pr : Promised(contents, Complete, tb, pr) => Promised(contents', Complete, tb, pr)
      BY <1>2, <2>1, <2>2, BuildFrame
  <2>5. InOrder'
      BY <1>2, <2>1, OrderStays
  <2>6. MergeUnlinks'
      BY <2>3 DEF MergeUnlinks
  <2>7. segments \in Seq(Timestamps) /\ Len(segments) \in Nat
      BY <1>2, Types
  <2>8. MergePersists'
      BY <1>1, <2>3, <2>4, <2>7 DEF MergePersists, Written
  <2>9. FilesInHand(c)'
    <3>1. \A t \in Listed : t \in Loaded
        BY <1>2, <1>3, <2>1 DEF FilesInHand, InHand, Resting
    <3> QED  BY <1>1, <3>1 DEF FilesInHand, InHand
  <2>10. IsMerged(contents', contents'[clock + 1], Loaded)
    <3>1. IsMerged(contents, Merged(segments), Loaded)
      <4>1. IsMerged(Layers(contents, segments), Merged(segments), DOMAIN segments)
          BY <1>2, <2>1, <2>2, <2>7, OldestMerged
      <4>2. \A k, v : IsNewest(contents, Loaded, k, v)
                          <=> IsNewest(Layers(contents, segments), DOMAIN segments, k, v)
          BY <1>2, <2>7, ByPlace DEF InOrder, Loaded
      <4> QED  BY <4>1, <4>2 DEF IsMerged
    <3>2. \A x \in Loaded : contents'[x] = contents[x]
        BY <1>2, <2>4, Types DEF InOrder
    <3> QED  BY <2>4, <3>1, <3>2 DEF IsMerged, IsNewest
  <2>11. \A x \in Loaded : x < clock + 1
    <3>1. \A x \in Loaded : x <= clock /\ x \in Nat /\ clock \in Nat
        BY <1>2, Types DEF InOrder
    <3> QED  BY <3>1
  <2>12. clock + 1 <= clock + 1
      BY <1>2, Types
  <2>13. Merging(c)'
      BY <1>2, <1>3, <2>1, <2>3, <2>4, <2>10, <2>11, <2>12
         DEF Merging, InOrder, Loaded, InFlush, InPersist, Kinds
  <2> QED  BY <1>1, <2>4, <2>5, <2>6, <2>8, <2>9, <2>13
<1> QED  BY <1>4, <1>5

LEMMA FlushClearWalKeeps ==
    ASSUME NEW c \in Clients, TypeInv, Disk(c), TypeInv', ~untidy', FlushClearWal(c)
    PROVE  Disk(c)'
<1> DEFINE key == client[c].key
           value == client[c].value
<1>1. /\ client[c].at = "clear" /\ c \in Clients /\ wal' = EmptyTable /\ Acknowledge(c)
      /\ StartCompaction /\ UNCHANGED <<mode, memtable, segments, files>>
    BY DEF FlushClearWal
<1>2. client'[c] = Idle /\ client'[c].at = "idle"
    BY <1>1, Types DEF Acknowledge, Idle
<1>3. Running /\ Running'
    BY <1>1, RunningAwaits DEF Running
<1>4. /\ memtable = EmptyTable /\ clock \in Loaded /\ clock \in Timestamps
      /\ wal = Logged(contents[clock]) /\ EntriesPromised(contents[clock], Readable)
      /\ key # Absent => key \in Keys /\ contents[clock][key] = value /\ value \in Entry
    BY <1>1 DEF Disk, LogAndTable, Flush, InFlush, TypeInv, ValuesAwaited
<1>5. /\ Loaded \in SUBSET Timestamps /\ Complete \in SUBSET Timestamps /\ clock \in Complete
      /\ \A x \in Loaded \cup Complete : x <= clock /\ ~(x > clock)
  <2>1. /\ Loaded \in SUBSET Timestamps /\ Complete \in SUBSET Timestamps
        /\ clock \in Nat /\ \A x \in Timestamps : x \in Nat
      BY Types
  <2>2. clock \in Complete /\ \A x \in Loaded \cup Complete : x <= clock
      BY <1>4, OldFiles DEF Disk
  <2> QED  BY <2>1, <2>2
<1>6. ASSUME key # Absent
      PROVE  Reads(contents, Complete, EmptyTable, key, value)
  <2>1. contents[clock][key] = value /\ value # Absent
      BY <1>4, <1>6, Markers
  <2> QED  BY <1>4, <1>5, <1>6, <2>1 DEF Reads, IsNewest, EmptyTable
<1>8. Promised(contents, Complete, EmptyTable, Readable')
  <2>1. Promised(contents, Complete \cup {clock}, EmptyTable, Readable)
    <3>1. \A k \in Keys : IF wal[k] = Absent THEN contents[clock][k] = Absent
                          ELSE contents[clock][k] \in Entry /\ contents[clock][k] \in Readable[k]
        BY <1>4, DecodedType DEF Logged, EntriesPromised
    <3>2. /\ Complete \in SUBSET Nat /\ clock \in Nat /\ \A x \in Complete : x <= clock
        BY <1>5, Bounds, Types
    <3> QED  BY <3>1, <3>2, PromisedFlushed DEF Disk, DiskKept
  <2>2. Complete \cup {clock} = Complete
      BY <1>5
  <2> QED  BY <1>1, <1>4, <1>6, <2>1, <2>2, AcknowledgeKeeps
<1>9. /\ InOrder' /\ MergePersists' /\ MergeUnlinks' /\ Merging(c)' /\ FilesInHand(c)'
      /\ \A tb, pr : Promised(contents, Complete, tb, pr) => Promised(contents', Complete', tb, pr)
    BY <1>1, <1>2, <1>4, StartKeeps
<1>10. DiskKept'
    BY <1>1, <1>4, <1>8, <1>9 DEF DiskKept, Readable
<1>11. Quiet(c)' /\ Pending(c)' /\ LogAndTable(c)' /\ Flush(c)'
  <2>1. Logged(EmptyTable) = EmptyTable
      BY DecodedType DEF Logged, EmptyTable
  <2> QED  BY <1>1, <1>2, <1>3, <1>4, <2>1 DEF Quiet, Pending, LogAndTable, Flush, InFlush, InPersist, Kinds
<1> QED  BY <1>9, <1>10, <1>11 DEF Disk

LEMMA CompactWriteKeeps ==
    ASSUME NEW c \in Clients, TypeInv, Disk(c), TypeInv', CompactWrite
    PROVE  Disk(c)'
<1> DEFINE kind == compactor.at
           s == compactor.segment
           M == Members(compactor.merging)
<1>1. /\ kind \in Kinds /\ files' = [files EXCEPT ![s] = @ \cup {kind}]
      /\ compactor' = [compactor EXCEPT !.at = After[@]]
      /\ UNCHANGED <<mode, memtable, segments, client, wal, contents, clock, promised>>
    BY DEF CompactWrite
<1>2. /\ compactor'.at = After[kind] /\ compactor'.segment = s
      /\ compactor'.merging = compactor.merging /\ compactor'.kind = compactor.kind
    BY <1>1, Types DEF CompactorRecords
<1>3. /\ After[kind] \in InPersist /\ (After[kind] = "install" <=> kind = "meta")
      /\ "meta" \in Written[After[kind]] <=> kind = "meta"
      /\ kind \in InPersist /\ kind # "idle" /\ kind # "unlink" /\ kind # "install"
      /\ After[kind] # "idle" /\ After[kind] # "unlink"
    BY <1>1, WrittenNext DEF InPersist, Kinds
<1>4. Running /\ Running'
  <2>1. compactor # Resting
      BY <1>3, RestingType
  <2> QED  BY <1>1, <2>1 DEF Disk, Quiet, Running
<1>5. /\ s \in Timestamps /\ s <= clock /\ (client[c].at \in InFlush => s < clock)
      /\ \A x \in M : x < s
      /\ IsMerged(contents, contents[s], M)
    BY <1>3 DEF Disk, Merging
<1>6. /\ s \notin Loaded /\ files[s] = Written[kind]
      /\ Len(compactor.merging) <= Len(segments)
      /\ \A i \in 1..Len(compactor.merging) : segments[i] = compactor.merging[i]
      /\ \A i \in (Len(compactor.merging) + 1)..Len(segments) : segments[i] > s
    BY <1>3 DEF Disk, MergePersists
<1>7. /\ files'[s] = Written[After[kind]]
      /\ \A t \in Timestamps : t # s => files'[t] = files[t]
    BY <1>1, <1>5, <1>6, WrittenNext, Types
<1>8. Loaded' = Loaded
    BY <1>1 DEF Loaded
<1>9. /\ clock \in Nat /\ \A t \in Timestamps : t \in Nat
      /\ Loaded \in SUBSET Timestamps /\ Complete \in SUBSET Timestamps
      /\ segments \in Seq(Timestamps) /\ compactor.merging \in Seq(Timestamps)
    BY Types DEF CompactorRecords
<1>10. InOrder'
  <2>1. \A t \in Timestamps : t > clock => t # s
      BY <1>5, <1>9
  <2> QED  BY <1>1, <1>5, <1>6, <1>7, <1>8, <1>9, <2>1 DEF Disk, InOrder
<1>11. Quiet(c)' /\ Pending(c)' /\ LogAndTable(c)' /\ Flush(c)'
  <2>1. client[c].at \in InPersist => s # clock
      BY <1>5, <1>9 DEF InFlush
  <2>2. Quiet(c)' /\ Pending(c)' /\ LogAndTable(c)'
      BY <1>1, <1>4, <1>8 DEF Disk, Quiet, Pending, LogAndTable
  <2>3. Flush(c)'
      BY <1>1, <1>7, <1>8, <2>1 DEF Disk, Readable, Flush, InFlush
  <2> QED  BY <2>2, <2>3
<1>12. MergePersists' /\ MergeUnlinks'
    BY <1>1, <1>2, <1>3, <1>6, <1>7, <1>8 DEF MergePersists, MergeUnlinks
<1>13. Merging(c)'
    BY <1>1, <1>2, <1>3 DEF Disk, Merging
<1>14. \A t \in Listed : t \in Loaded \/ (t = clock /\ client[c].at = "install")
    BY <1>3, <1>4 DEF Disk, FilesInHand, InHand
<1>15. FilesInHand(c)'
  <2> SUFFICES ASSUME NEW t \in Listed' PROVE InHand(c, t)'
      BY DEF FilesInHand
  <2>1. t \in Timestamps /\ "meta" \in files'[t]
      BY DEF Listed
  <2>2. CASE t = s
      BY <1>2, <1>3, <1>7, <2>1, <2>2 DEF InHand
  <2>3. CASE t # s
    <3>1. t \in Listed
        BY <1>7, <2>1, <2>3 DEF Listed
    <3> QED  BY <1>1, <1>8, <1>14, <3>1 DEF InHand
  <2> QED  BY <2>2, <2>3
<1>17. DiskKept'
  <2>1. \A t \in Timestamps : t # s => (t \in Complete' <=> t \in Complete)
      BY <1>7 DEF Complete, Listed
  <2>2. CASE kind = "meta"
    <3>1. s \in Complete' /\ s \notin Complete
        BY <1>3, <1>5, <1>6, <1>7, <2>2 DEF Complete, Listed, Written, After, Kinds
    <3>2. Complete' = Complete \cup {s}
        BY <1>5, <2>1, <3>1 DEF Complete, Listed
    <3>3. M \in SUBSET Complete
      <4>1. \A i \in 1..Len(compactor.merging) : compactor.merging[i] \in Loaded
          BY <1>6, <1>9 DEF Loaded, Members
      <4> QED  BY <1>9, <4>1, OldFiles DEF Members, Disk
    <3>4. ASSUME NEW x \in Complete, x < s PROVE x \in M
      <4>1. x \in Listed
          BY DEF Complete
      <4>2. ~(x = clock /\ client[c].at = "install")
          BY <1>5, <1>9, <3>4 DEF InFlush, InPersist
      <4>3. PICK i \in 1..Len(segments) : segments[i] = x
          BY <1>9, <1>14, <4>1, <4>2 DEF Loaded, Members
      <4>4. x \in Nat /\ s \in Nat
          BY <1>5, <1>9
      <4>5. ~(i \in (Len(compactor.merging) + 1)..Len(segments))
          BY <1>6, <3>4, <4>3, <4>4
      <4>6. i \in 1..Len(compactor.merging)
          BY <1>9, <4>5
      <4>7. compactor.merging[i] = x
          BY <1>6, <4>3, <4>6
      <4> QED  BY <1>9, <4>6, <4>7 DEF Members
    <3> HIDE DEF M
    <3>5. Promised(contents, Complete, wal, Readable)
        BY DEF Disk, DiskKept
    <3>6. Promised(contents, Complete \cup {s}, wal, Readable)
        BY ONLY <1>5, <1>9, <3>1, <3>3, <3>4, <3>5, PromisedMerged
    <3> QED  BY <1>1, <3>2, <3>6 DEF DiskKept, Readable
  <2>3. CASE kind # "meta"
    <3>1. s \notin Complete'
        BY <1>3, <1>7, <2>3 DEF Complete, Listed
    <3>2. s \notin Complete
        BY <1>1, <1>6, <2>3 DEF Complete, Listed, Written, Kinds
    <3>3. Complete' = Complete
        BY <2>1, <3>1, <3>2 DEF Complete, Listed
    <3> QED  BY <1>1, <3>3 DEF Disk, DiskKept, Readable
  <2> QED  BY <2>2, <2>3
<1> QED  BY <1>10, <1>11, <1>12, <1>13, <1>15, <1>17 DEF Disk

LEMMA CompactFailsKeeps ==
    ASSUME NEW c \in Clients, TypeInv, Disk(c), TypeInv', CompactFails
    PROVE  Disk(c)'
<1>1. /\ compactor.at \in Kinds /\ compactor' = Resting
      /\ UNCHANGED <<mode, memtable, segments, client, wal, files, contents, clock, promised>>
    BY DEF CompactFails
<1>2. compactor'.at = "idle" /\ compactor'.kind = "data"
    BY <1>1 DEF Resting
<1>3. /\ compactor.at # "install" /\ compactor.at # "unlink"
      /\ compactor'.at \notin InPersist /\ compactor'.at # "unlink"
    BY <1>1, <1>2 DEF Kinds, InPersist
<1>4. Loaded' = Loaded /\ Listed' = Listed /\ Complete' = Complete
    BY <1>1 DEF Loaded, Listed, Complete
<1>5. InOrder' /\ MergePersists' /\ MergeUnlinks' /\ Merging(c)'
  <2>1. InOrder'
      BY <1>1, OrderStays DEF Disk
  <2> QED  BY <1>2, <1>3, <2>1 DEF MergePersists, MergeUnlinks, Merging
<1>6. Quiet(c)' /\ Pending(c)' /\ LogAndTable(c)' /\ Flush(c)'
  <2>1. Quiet(c)' /\ Pending(c)' /\ LogAndTable(c)'
      BY <1>1, <1>4 DEF Disk, Quiet, Pending, LogAndTable, Running
  <2>2. Flush(c)'
      BY <1>1, <1>4 DEF Disk, Readable, Flush
  <2> QED  BY <2>1, <2>2
<1>7. FilesInHand(c)'
    BY <1>1, <1>3, <1>4 DEF Disk, FilesInHand, InHand, Running
<1>8. DiskKept'
    BY <1>1, <1>4 DEF Disk, DiskKept, Readable, Running
<1> QED  BY <1>5, <1>6, <1>7, <1>8 DEF Disk

LEMMA CompactInstallKeeps ==
    ASSUME NEW c \in Clients, TypeInv, Disk(c), TypeInv', CompactInstall
    PROVE  Disk(c)'
<1> DEFINE s == compactor.segment
           m == compactor.merging
           M == Members(m)
           n == Len(m)
           len == Len(segments)
<1>1. /\ compactor.at = "install"
      /\ segments' = <<s>> \o SubSeq(segments, n + 1, len)
      /\ compactor' = [compactor EXCEPT !.at = "unlink", !.unlinking = m]
      /\ UNCHANGED <<mode, memtable, client, wal, files, contents, clock, promised>>
    BY DEF CompactInstall
<1>2. /\ compactor'.at = "unlink" /\ compactor'.segment = s /\ compactor'.merging = m
      /\ compactor'.unlinking = m /\ compactor'.kind = compactor.kind
    BY <1>1, Types DEF CompactorRecords
<1>3. Running /\ Running'
  <2>1. compactor # Resting
      BY <1>1, RestingType
  <2> QED  BY <1>1, <2>1 DEF Disk, Quiet, Running
<1>4. /\ s \in Timestamps /\ s <= clock /\ (client[c].at \in InFlush => s < clock)
      /\ Increasing(m) /\ \A x \in M : x < s
      /\ IsMerged(contents, contents[s], M) /\ compactor.kind = "data"
    BY <1>1 DEF Disk, Merging
<1>5. /\ s \notin Loaded /\ files[s] = Kinds /\ n <= len
      /\ \A i \in 1..n : segments[i] = m[i]
      /\ \A i \in (n + 1)..len : segments[i] > s
    BY <1>1 DEF Disk, MergePersists, InPersist, Written
<1>6. /\ clock \in Nat /\ \A t \in Timestamps : t \in Nat
      /\ Loaded \in SUBSET Timestamps /\ segments \in Seq(Timestamps) /\ m \in Seq(Timestamps)
      /\ len \in Nat /\ n \in Nat
    BY Types DEF CompactorRecords
<1>7. /\ segments' \in Seq(Timestamps) /\ Len(segments') = 1 + (len - n) /\ segments'[1] = s
      /\ \A i \in 2..Len(segments') :
             i + (n - 1) \in (n + 1)..len /\ segments'[i] = segments[i + (n - 1)]
  <2>1. n \in 0..Len(segments)
      BY <1>5, <1>6
  <2>2. s \in Timestamps /\ segments \in Seq(Timestamps) /\ len = Len(segments)
      BY <1>4, <1>6
  <2> HIDE DEF n, s, len
  <2>3. segments' = <<s>> \o SubSeq(segments, n + 1, Len(segments))
      BY <1>1, <2>2
  <2>4. \A new : new = <<s>> \o SubSeq(segments, n + 1, Len(segments)) =>
            /\ new \in Seq(Timestamps) /\ Len(new) = 1 + (len - n) /\ new[1] = s
            /\ \A i \in 2..Len(new) : i + (n - 1) \in (n + 1)..len /\ new[i] = segments[i + (n - 1)]
      BY <2>1, <2>2, Replaced
  <2> QED  BY ONLY <2>3, <2>4
<1>8. /\ \A i \in 1..n : segments[i] \in M
      /\ \A i \in (n + 1)..len : segments[i] \notin M /\ segments[i] \in Loaded
      /\ M \in SUBSET Loaded
  <2>1. \A i \in 1..n : m[i] \in M /\ i \in 1..len
      BY <1>5, <1>6 DEF Members
  <2>2. \A i \in (n + 1)..len : i \in 1..len /\ segments[i] \in Timestamps
      BY <1>6
  <2>3. \A i \in (n + 1)..len : ~(segments[i] < s)
      BY <1>4, <1>5, <1>6, <2>2
  <2>4. \A i \in 1..len : segments[i] \in Loaded
      BY <1>6 DEF Loaded, Members
  <2>5. \A x \in M : \E i \in 1..n : m[i] = x
      BY <1>6 DEF Members
  <2> HIDE DEF n, len, M, m, s
  <2>6. \A i \in 1..n : segments[i] \in M
      BY <1>5, <2>1
  <2>7. \A i \in (n + 1)..len : segments[i] \notin M /\ segments[i] \in Loaded
      BY <1>4, <2>2, <2>3, <2>4
  <2>8. M \in SUBSET Loaded
      BY <1>5, <2>1, <2>4, <2>5
  <2> QED  BY <2>6, <2>7, <2>8
<1> HIDE DEF len, n, M
<1>9. Loaded' = (Loaded \ M) \cup {s}
  <2>1. DOMAIN segments' = 1..Len(segments') /\ DOMAIN segments = 1..len
      BY <1>6, <1>7 DEF len
  <2>2. ASSUME NEW i \in 1..Len(segments') PROVE segments'[i] \in (Loaded \ M) \cup {s}
    <3>1. i = 1 \/ i \in 2..Len(segments')
        BY <1>6, <1>7
    <3> QED  BY <1>7, <1>8, <3>1
  <2>3. 1 \in 1..Len(segments')
      BY <1>5, <1>6, <1>7
  <2>4. ASSUME NEW x \in Loaded \ M PROVE \E i \in 1..Len(segments') : segments'[i] = x
    <3>1. PICK j \in 1..len : segments[j] = x
        BY <2>1 DEF Loaded, Members
    <3>2. j \in (n + 1)..len
        BY <1>6, <1>8, <2>4, <3>1
    <3> DEFINE i == j - (n - 1)
    <3>3. i \in 2..Len(segments') /\ i \in 1..Len(segments') /\ i + (n - 1) = j
        BY <1>6, <1>7, <3>2
    <3> QED  BY <1>7, <3>1, <3>3
  <2>5. Loaded' = {segments'[i] : i \in 1..Len(segments')}
      BY <2>1 DEF Loaded, Members
  <2> QED  BY <1>7, <2>2, <2>3, <2>4, <2>5
<1>10. \A x \in Loaded \ M : x > s
  <2> SUFFICES ASSUME NEW x \in Loaded \ M PROVE x > s
      OBVIOUS
  <2>1. PICK j \in 1..len : segments[j] = x
      BY <1>6 DEF Loaded, Members, len
  <2>2. j \in (n + 1)..len
      BY <1>6, <1>8, <2>1
  <2> QED  BY <1>5, <2>1, <2>2
<1>11. Increasing(segments')
  <2> SUFFICES ASSUME NEW i \in 1..Len(segments'), NEW j \in 1..Len(segments'), i < j
               PROVE  segments'[i] < segments'[j]
      BY <1>7 DEF Increasing
  <2>1. j \in 2..Len(segments')
      BY <1>6, <1>7
  <2>2. j + (n - 1) \in (n + 1)..len /\ segments'[j] = segments[j + (n - 1)]
      BY <1>7, <2>1
  <2>3. CASE i = 1
    <3>1. segments'[j] > s /\ s \in Nat /\ segments'[j] \in Nat
        BY <1>4, <1>5, <1>6, <1>8, <2>2
    <3> QED  BY <1>7, <2>3, <3>1
  <2>4. CASE i # 1
    <3>1. i \in 2..Len(segments')
        BY <1>6, <1>7, <2>4
    <3>2. i + (n - 1) \in (n + 1)..len /\ segments'[i] = segments[i + (n - 1)]
        BY <1>7, <3>1
    <3>3. i + (n - 1) \in 1..len /\ j + (n - 1) \in 1..len /\ i + (n - 1) < j + (n - 1)
        BY <1>6, <1>7, <2>2, <3>2
    <3>4. Increasing(segments) /\ DOMAIN segments = 1..len
        BY <1>6 DEF Disk, InOrder, len
    <3> QED  BY <2>2, <3>2, <3>3, <3>4 DEF Increasing
  <2> QED  BY <2>3, <2>4
<1>12. InOrder'
    BY <1>1, <1>4, <1>5, <1>9, <1>11 DEF Disk, InOrder
<1>13. client[c].at \in InFlush => clock \notin M /\ clock # s
  <2>1. \A x \in M : x < s /\ x \in Nat
      BY <1>4, <1>6, <1>8
  <2>2. client[c].at \in InFlush => s < clock /\ s \in Nat
      BY <1>4, <1>6
  <2> QED  BY <1>6, <2>1, <2>2
<1>14. Quiet(c)' /\ Pending(c)' /\ LogAndTable(c)' /\ Flush(c)'
  <2>1. Quiet(c)' /\ Pending(c)' /\ LogAndTable(c)'
      BY <1>1, <1>3, <1>9, <1>13 DEF Disk, Quiet, Pending, LogAndTable, InFlush
  <2>2. Flush(c)'
      BY <1>1, <1>9, <1>13 DEF Disk, Readable, Flush, InFlush
  <2> QED  BY <2>1, <2>2
<1>15. FilesInHand(c)'
  <2>1. Listed' = Listed
      BY <1>1 DEF Listed
  <2> QED  BY <1>1, <1>2, <1>3, <1>9, <2>1 DEF Disk, FilesInHand, InHand, M
<1>16. Merging(c)' /\ MergePersists'
    BY <1>1, <1>2, <1>4 DEF Merging, MergePersists, InPersist, Kinds, M
<1>17. MergeUnlinks'
  <2>1. m # <<>> /\ n # 0
    <3>1. m # <<>>
        BY <1>1 DEF TypeInv, CompactorOK, MergesSome, InPersist
    <3> QED  BY <1>6, <3>1, EmptySeq DEF n
  <2>2. \A i \in 1..n : m[i] \in Loaded
      BY <1>6, <1>8 DEF Members, M, n
  <2>3. \A i \in 1..n : files[m[i]] = Kinds
      BY <2>2 DEF Disk, InOrder
  <2>4. 1 \in 1..n /\ \A i \in 2..n : i \in 1..n
      BY <1>6, <2>1
  <2>5. files[m[1]] = LeftFrom["data"] /\ \A i \in 2..n : files[m[i]] = Kinds
      BY <2>3, <2>4 DEF LeftFrom
  <2>6. s \in Loaded' /\ \A x \in Loaded' : s <= x
    <3>1. \A x \in Loaded \ M : x \in Nat /\ s \in Nat /\ x > s
        BY <1>4, <1>6, <1>10
    <3>2. s <= s
        BY <1>4, <1>6
    <3> QED  BY <1>9, <3>1, <3>2
  <2> QED  BY <1>1, <1>2, <1>4, <2>5, <2>6 DEF MergeUnlinks, M, n
<1>19. DiskKept'
    BY <1>1 DEF Disk, DiskKept, Readable, Complete, Listed
<1> QED  BY <1>12, <1>14, <1>15, <1>16, <1>17, <1>19 DEF Disk

LEMMA TailIs ==
    ASSUME NEW u \in Seq(Timestamps), u # <<>>, Increasing(u)
    PROVE  /\ u[1] \in Members(u) /\ Head(u) = u[1] /\ Len(u) \in Nat \ {0}
           /\ \A y \in Members(u) : u[1] <= y
           /\ Members(u) = Members(Tail(u)) \cup {u[1]}
           /\ Increasing(Tail(u))
           /\ Len(Tail(u)) = Len(u) - 1 /\ \A i \in 1..(Len(u) - 1) : Tail(u)[i] = u[i + 1]
<1> DEFINE n == Len(u)
           v == Tail(u)
<1>1. /\ n \in Nat \ {0} /\ DOMAIN u = 1..n /\ Head(u) = u[1]
      /\ v \in Seq(Timestamps) /\ Len(v) = n - 1 /\ DOMAIN v = 1..(n - 1)
      /\ \A i \in 1..(n - 1) : v[i] = u[i + 1]
    BY HeadTailProperties, EmptySeq
<1> HIDE DEF n, v
<1>2. 1 \in 1..n /\ \A i \in 1..(n - 1) : i + 1 \in 1..n
    BY <1>1
<1>3. u[1] \in Members(u)
    BY <1>1, <1>2 DEF Members
<1>4. ASSUME NEW y \in Members(u) PROVE u[1] <= y /\ (y = u[1] \/ y \in Members(v))
  <2>1. PICK i \in 1..n : u[i] = y
      BY <1>1 DEF Members
  <2>2. CASE i = 1
    <3>1. u[1] \in Timestamps
        BY <1>1, <1>2
    <3>2. u[1] \in Nat
        BY <3>1, Bounds
    <3> QED  BY <2>1, <2>2, <3>2
  <2>3. CASE i # 1
    <3>1. i - 1 \in 1..(n - 1) /\ (i - 1) + 1 = i /\ 1 < i
        BY <1>1, <2>3
    <3>2. v[i - 1] = y /\ v[i - 1] \in Members(v)
        BY <1>1, <2>1, <3>1 DEF Members
    <3>3. u[1] < u[i] /\ u[1] \in Timestamps /\ u[i] \in Timestamps
        BY <1>1, <1>2, <3>1 DEF Increasing
    <3>4. u[1] \in Nat /\ u[i] \in Nat
        BY <3>3, Bounds
    <3> QED  BY <2>1, <3>2, <3>3, <3>4
  <2> QED  BY <2>2, <2>3
<1>5. \A y \in Members(v) : y \in Members(u)
    BY <1>1, <1>2 DEF Members
<1>6. Increasing(v)
  <2> SUFFICES ASSUME NEW i \in 1..(n - 1), NEW j \in 1..(n - 1), i < j PROVE v[i] < v[j]
      BY <1>1 DEF Increasing
  <2>1. i + 1 \in 1..n /\ j + 1 \in 1..n /\ i + 1 < j + 1
      BY <1>1
  <2> QED  BY <1>1, <2>1 DEF Increasing
<1>7. Members(u) = Members(v) \cup {u[1]}
    BY <1>3, <1>4, <1>5
<1> QED  BY <1>1, <1>3, <1>4, <1>6, <1>7 DEF n, v

\* The next file of the oldest source goes.
LEMMA CompactUnlinkKeeps ==
    ASSUME NEW c \in Clients, TypeInv, Disk(c), TypeInv', ~untidy', CompactUnlink
    PROVE  Disk(c)'
<1> DEFINE s == compactor.segment
           u == compactor.unlinking
           M == Members(compactor.merging)
           kind == compactor.kind
           x == u[1]
<1>1. /\ compactor.at = "unlink" /\ files' = [files EXCEPT ![Head(u)] = @ \ {kind}]
      /\ compactor' = IF kind = "meta" /\ Len(u) = 1 THEN Resting ELSE UnlinkNext
      /\ UNCHANGED <<mode, memtable, segments, client, wal, contents, clock, promised>>
    BY DEF CompactUnlink
<1>2. /\ u \in Seq(Timestamps) /\ u # <<>> /\ kind \in Kinds
      /\ compactor \in CompactorRecords /\ compactor.merging \in Seq(Timestamps)
      /\ clock \in Nat /\ \A t \in Timestamps : t \in Nat
      /\ Loaded \in SUBSET Timestamps /\ Complete \in SUBSET Timestamps
    BY <1>1, Types DEF TypeInv, CompactorOK, CompactorRecords
<1>3. /\ s \in Timestamps /\ s <= clock /\ (client[c].at \in InFlush => s < clock)
      /\ Increasing(compactor.merging) /\ (\A y \in M : y < s)
      /\ IsMerged(contents, contents[s], M)
    BY <1>1 DEF Disk, Merging
<1>4. /\ s \in Loaded /\ (\A y \in Loaded : s <= y)
      /\ Increasing(u) /\ Members(u) \subseteq M
      /\ \A y \in M : y \in Members(u) \/ y < x
      /\ files[x] = LeftFrom[kind]
      /\ \A i \in 2..Len(u) : files[u[i]] = Kinds
    BY <1>1 DEF Disk, MergeUnlinks
<1>5. /\ x \in Members(u) /\ Head(u) = x /\ Len(u) \in Nat \ {0}
      /\ \A y \in Members(u) : x <= y
      /\ Members(u) = Members(Tail(u)) \cup {x}
      /\ Increasing(Tail(u))
      /\ Len(Tail(u)) = Len(u) - 1 /\ \A i \in 1..(Len(u) - 1) : Tail(u)[i] = u[i + 1]
    BY <1>2, <1>4, TailIs
<1>6. M \in SUBSET Timestamps /\ x \in M /\ x \in Timestamps /\ x < s /\ x < clock
  <2>1. M \in SUBSET Timestamps /\ x \in M /\ x < s
      BY <1>2, <1>3, <1>4, <1>5, MembersType
  <2>2. x \in Nat /\ s \in Nat
      BY <1>2, <1>3, <2>1
  <2> QED  BY <1>2, <1>3, <2>1, <2>2
<1>7. /\ files'[x] = LeftFrom[kind] \ {kind}
      /\ \A t \in Timestamps : t # x => files'[t] = files[t]
    BY <1>1, <1>4, <1>5, <1>6, Types
<1>8. x \notin Loaded /\ x # clock /\ \A t \in Timestamps : t > clock => t # x
    BY <1>2, <1>3, <1>4, <1>6
<1>9. Running /\ Running'
  <2>1. compactor # Resting
      BY <1>1, RestingType
  <2> QED  BY <1>1, <2>1 DEF Disk, Quiet, Running
<1>10. Loaded' = Loaded
    BY <1>1 DEF Loaded
<1>11. InOrder'
    BY <1>1, <1>7, <1>8, <1>10, Types DEF Disk, InOrder
<1>12. Quiet(c)' /\ Pending(c)' /\ LogAndTable(c)' /\ Flush(c)'
  <2>1. Quiet(c)' /\ Pending(c)' /\ LogAndTable(c)'
      BY <1>1, <1>9, <1>10 DEF Disk, Quiet, Pending, LogAndTable
  <2>2. client[c].at \in InFlush => clock \in Timestamps
      BY DEF Disk, Flush
  <2>3. Flush(c)'
      BY <1>1, <1>7, <1>8, <1>10, <2>2 DEF Disk, Readable, Flush, InFlush
  <2> QED  BY <2>1, <2>3
<1>13. \A t \in Listed : t \in Loaded \/ (t = clock /\ client[c].at = "install") \/ t \in Members(u)
    BY <1>1, <1>9 DEF Disk, FilesInHand, InHand
<1>14. Listed' \subseteq Listed /\ (kind = "meta" => x \notin Listed')
  <2>1. \A t \in Timestamps : files'[t] \subseteq files[t]
      BY <1>4, <1>6, <1>7
  <2>2. kind = "meta" => "meta" \notin files'[x]
      BY <1>7
  <2> QED  BY <2>1, <2>2 DEF Listed
<1>16. DiskKept'
  <2>1. \A t \in Timestamps : t # x => (t \in Complete' <=> t \in Complete)
      BY <1>7 DEF Complete, Listed
  <2>2. x \notin Complete'
    <3>1. "data" \notin files'[x]
        BY <1>2, <1>7 DEF LeftFrom, Kinds
    <3> QED  BY <3>1 DEF Complete
  <2>3. Complete' = Complete \ {x}
    <3>1. \A t : t \in Complete' => t \in Timestamps
        BY DEF Complete, Listed
    <3> QED  BY <1>2, <2>1, <2>2, <3>1
  <2>4. CASE kind = "data"
    <3>1. s \in Complete
        BY <1>4, OldFiles DEF Disk
    <3>2. ASSUME NEW y \in Complete PROVE x <= y
      <4>1. y \in Listed /\ y \in Nat /\ x \in Nat /\ s \in Nat
          BY <1>2, <1>3, <1>6 DEF Complete
      <4>2. CASE y \in Loaded
        <5>1. s <= y
            BY <1>4, <4>2
        <5> QED  BY <1>6, <4>1, <5>1
      <4>3. CASE y = clock
          BY <1>6, <4>1, <4>3
      <4>4. CASE y \in Members(u)
          BY <1>5, <4>4
      <4> QED  BY <1>13, <4>1, <4>2, <4>3, <4>4
    <3>3. ASSUME NEW y \in M, y > x PROVE y \in Complete
      <4>1. ~(y < x) /\ y # x
          BY <1>2, <1>6, <3>3
      <4>2. y \in Members(u)
          BY <1>4, <4>1
      <4>3. PICK i \in 1..Len(u) : u[i] = y
          BY <1>2, <4>2 DEF Members
      <4>4. i \in 2..Len(u)
          BY <1>5, <4>1, <4>3
      <4>5. files[y] = Kinds /\ y \in Timestamps
          BY <1>4, <1>6, <4>3, <4>4
      <4> QED  BY <4>5 DEF Complete, Listed, Kinds
    <3> HIDE DEF M, x, s
    <3>4. Promised(contents, Complete \ {x}, wal, Readable)
        BY <1>2, <1>3, <1>6, <3>1, <3>2, <3>3, PromisedUnlinked DEF Disk, DiskKept, Readable
    <3> QED  BY <1>1, <2>3, <3>4 DEF DiskKept, Readable
  <2>5. CASE kind # "data"
    <3>1. x \notin Complete
        BY <1>2, <1>4, <2>5 DEF Complete, Listed, LeftFrom, Kinds
    <3>2. Complete' = Complete
        BY <2>3, <3>1
    <3> QED  BY <1>1, <3>2 DEF Disk, DiskKept, Readable
  <2> QED  BY <2>4, <2>5
<1>17. CASE kind = "meta" /\ Len(u) = 1
  <2>1. compactor' = Resting /\ compactor'.at = "idle" /\ compactor'.kind = "data"
      BY <1>1, <1>17 DEF Resting
  <2>2. Merging(c)' /\ MergePersists' /\ MergeUnlinks'
      BY <2>1 DEF Merging, MergePersists, MergeUnlinks, InPersist, Kinds
  <2>3. Members(u) = {x}
      BY <1>2, <1>17 DEF Members
  <2>4. FilesInHand(c)'
      BY <1>1, <1>10, <1>13, <1>14, <1>17, <2>3 DEF FilesInHand, InHand
  <2> QED  BY <1>11, <1>12, <1>16, <2>2, <2>4 DEF Disk
<1>18. CASE kind = "meta" /\ Len(u) # 1
  <2>1. /\ compactor'.at = "unlink" /\ compactor'.segment = s
        /\ compactor'.merging = compactor.merging
        /\ compactor'.unlinking = Tail(u) /\ compactor'.kind = "data"
    <3>1. compactor' = [compactor EXCEPT !.kind = "data", !.unlinking = Tail(u)]
        BY <1>1, <1>18 DEF UnlinkNext
    <3> HIDE DEF u
    <3> QED  BY <1>1, <1>2, <3>1 DEF CompactorRecords
  <2>2. Merging(c)' /\ MergePersists'
      BY <1>1, <1>3, <2>1 DEF Merging, MergePersists, InPersist, Kinds
  <2>3. /\ 2 \in 2..Len(u) /\ 1 \in 1..(Len(u) - 1)
        /\ \A i \in 2..Len(Tail(u)) : i + 1 \in 2..Len(u) /\ i \in 1..(Len(u) - 1)
    <3> DEFINE n == Len(u)
    <3>1. n \in Nat \ {0} /\ n # 1 /\ Len(Tail(u)) = n - 1
        BY <1>5, <1>18
    <3> HIDE DEF n
    <3>2. /\ 2 \in 2..n /\ 1 \in 1..(n - 1)
          /\ \A i \in 2..(n - 1) : i + 1 \in 2..n /\ i \in 1..(n - 1)
        BY <3>1
    <3> QED  BY <3>1, <3>2 DEF n
  <2>4. /\ Tail(u)[1] = u[2] /\ u[2] \in Timestamps /\ x < u[2]
        /\ \A i \in 2..Len(Tail(u)) : Tail(u)[i] = u[i + 1] /\ u[i + 1] \in Timestamps /\ x < u[i + 1]
    <3>1. \A i \in 2..Len(u) : u[i] \in Timestamps /\ x < u[i]
        BY <1>2, <1>4, <1>5 DEF Increasing
    <3> QED  BY <1>5, <2>3, <3>1
  <2>5. files'[Tail(u)[1]] = LeftFrom["data"]
    <3>1. x # u[2]
        BY <1>2, <1>6, <2>4
    <3> QED  BY <1>4, <1>7, <2>3, <2>4, <3>1 DEF LeftFrom
  <2>6. \A i \in 2..Len(Tail(u)) : files'[Tail(u)[i]] = Kinds
    <3> SUFFICES ASSUME NEW i \in 2..Len(Tail(u)) PROVE files'[Tail(u)[i]] = Kinds
        OBVIOUS
    <3>1. x # u[i + 1]
        BY <1>2, <1>6, <2>4
    <3> QED  BY <1>4, <1>7, <2>3, <2>4, <3>1
  <2>7. \A y \in M : y \in Members(Tail(u)) \/ y < Tail(u)[1]
    <3>1. \A y \in M : y < x => y < u[2]
        BY <1>2, <1>6, <2>4
    <3> QED  BY <1>4, <1>5, <2>4, <3>1
  <2>8. MergeUnlinks'
      BY <1>4, <1>5, <1>10, <2>1, <2>5, <2>6, <2>7 DEF MergeUnlinks
  <2>9. FilesInHand(c)'
      BY <1>1, <1>5, <1>10, <1>13, <1>14, <1>18, <2>1 DEF FilesInHand, InHand
  <2> QED  BY <1>11, <1>12, <1>16, <2>2, <2>8, <2>9 DEF Disk
<1>19. CASE kind # "meta"
  <2>1. /\ compactor'.at = "unlink" /\ compactor'.segment = s
        /\ compactor'.merging = compactor.merging
        /\ compactor'.unlinking = u /\ compactor'.kind = After[kind]
    <3>1. compactor' = [compactor EXCEPT !.kind = After[@]]
        BY <1>1, <1>19 DEF UnlinkNext
    <3> QED  BY <1>1, <1>2, <3>1 DEF CompactorRecords
  <2>2. Merging(c)' /\ MergePersists'
      BY <1>1, <1>3, <2>1 DEF Merging, MergePersists, InPersist, Kinds
  <2>3. files'[x] = LeftFrom[After[kind]]
    <3>1. kind = "data" \/ kind = "bloom"
        BY <1>2, <1>19 DEF Kinds
    <3> QED  BY <1>7, <3>1 DEF LeftFrom, After, Kinds
  <2>4. ASSUME NEW i \in 2..Len(u) PROVE files'[u[i]] = Kinds
    <3>1. u[i] \in Timestamps /\ x < u[i]
        BY <1>2, <1>4, <1>5 DEF Increasing
    <3>2. u[i] # x
        BY <1>2, <1>6, <3>1
    <3> QED  BY <1>4, <1>7, <3>1, <3>2
  <2>5. MergeUnlinks'
      BY <1>4, <1>10, <2>1, <2>3, <2>4 DEF MergeUnlinks
  <2>6. FilesInHand(c)'
      BY <1>1, <1>10, <1>13, <1>14, <2>1 DEF FilesInHand, InHand
  <2> QED  BY <1>11, <1>12, <1>16, <2>2, <2>5, <2>6 DEF Disk
<1> QED  BY <1>17, <1>18, <1>19

LEMMA CrashKeeps ==
    ASSUME NEW c \in Clients, TypeInv, Disk(c), TypeInv', Crash
    PROVE  Disk(c)'
<1>1. /\ mode' = "down" /\ segments' = <<>> /\ client' = [d \in Clients |-> Idle]
      /\ compactor' = Resting /\ UNCHANGED <<wal, files, contents, clock, promised>>
    BY DEF Crash
<1>2. client'[c] = Idle /\ client'[c].at = "idle" /\ ~Running'
    BY <1>1 DEF Idle, Running
<1>3. compactor'.at = "idle" /\ compactor'.kind = "data"
    BY <1>1 DEF Resting
<1>4. Quiet(c)' /\ Pending(c)' /\ LogAndTable(c)' /\ Flush(c)' /\ FilesInHand(c)'
    BY <1>1, <1>2 DEF Quiet, Pending, LogAndTable, Flush, FilesInHand, InFlush, InPersist, Kinds
<1>5. Merging(c)' /\ MergePersists' /\ MergeUnlinks'
    BY <1>3 DEF Merging, MergePersists, MergeUnlinks, InPersist, Kinds
<1>6. InOrder'
  <2>1. Loaded' = {} /\ Increasing(segments')
      BY <1>1 DEF Loaded, Members, Increasing
  <2> QED  BY <1>1, <2>1 DEF Disk, InOrder
<1>7. DiskKept'
    BY <1>1, <1>2 DEF Disk, DiskKept, Readable, Complete, Listed
<1> QED  BY <1>4, <1>5, <1>6, <1>7 DEF Disk

\* The log holds text.
InText == wal = Logged(wal)

LEMMA OpenKeeps ==
    ASSUME NEW c \in Clients, TypeInv, Disk(c), TypeInv', InText, Open
    PROVE  Disk(c)'
<1>1. mode = "down" /\ UNCHANGED <<client, compactor, wal, files, contents, clock, promised>>
    BY DEF Open
<1>2. segments = <<>> /\ compactor = Resting /\ client[c] = Idle
    BY <1>1 DEF Disk, Quiet, Running
<1>3. /\ client'[c] = Idle /\ client'[c].at = "idle" /\ client[c].at = "idle"
      /\ compactor' = Resting /\ compactor'.at = "idle" /\ compactor'.kind = "data"
    BY <1>1, <1>2 DEF Idle, Resting
<1>4. Pending(c)' /\ Flush(c)' /\ Merging(c)' /\ MergePersists' /\ MergeUnlinks'
    BY <1>3 DEF Pending, Flush, Merging, MergePersists, MergeUnlinks, InFlush, InPersist, Kinds
<1>5. Listed' = Listed /\ Complete' = Complete /\ Listed \in SUBSET Timestamps
    BY <1>1 DEF Listed, Complete
<1>6. DiskKept'
    BY <1>1, <1>5 DEF Disk, DiskKept, Readable
<1>7. wal = Logged(wal)
    BY DEF InText
<1>8. CASE \A t \in Listed : files[t] = Kinds
  <2>1. mode' = "up" /\ segments' = ByTimestamp(Listed) /\ memtable' = wal
      BY <1>8 DEF Open
  <2>2. Loaded' = Listed /\ Increasing(segments')
      BY <1>5, <2>1, Sorted DEF Loaded
  <2>3. Complete = Listed
      BY <1>8 DEF Complete, Kinds
  <2>4. InOrder'
      BY <1>1, <1>8, <2>2, OldFiles DEF Disk, InOrder
  <2>5. Quiet(c)' /\ LogAndTable(c)' /\ FilesInHand(c)'
      BY <1>1, <1>3, <1>5, <1>7, <2>1, <2>2 DEF Quiet, LogAndTable, FilesInHand, InHand, Running
  <2> QED  BY <1>4, <1>6, <2>4, <2>5 DEF Disk
<1>9. CASE ~(\A t \in Listed : files[t] = Kinds)
  <2>1. mode' = "broken" /\ UNCHANGED <<segments, memtable>>
      BY <1>9 DEF Open
  <2>2. ~Running' /\ InOrder'
      BY <1>1, <2>1, OrderStays DEF Running, Disk
  <2>3. Quiet(c)' /\ LogAndTable(c)' /\ FilesInHand(c)'
      BY <1>2, <1>3, <2>1, <2>2 DEF Quiet, LogAndTable, FilesInHand
  <2> QED  BY <1>4, <1>6, <2>2, <2>3 DEF Disk
<1> QED  BY <1>8, <1>9

LEMMA StutterKeeps ==
    ASSUME NEW c \in Clients, TypeInv, Disk(c), TypeInv', UNCHANGED vars
    PROVE  Disk(c)'
<1>1. UNCHANGED <<mode, memtable, segments, client, compactor, wal, files, contents, clock, promised>>
    BY DEF vars
<1>2. Loaded' = Loaded /\ Listed' = Listed /\ Complete' = Complete /\ Running' = Running
    BY <1>1 DEF Loaded, Listed, Complete, Running
<1>3. InOrder' /\ MergePersists' /\ MergeUnlinks'
    BY <1>1, StoreStays DEF Disk
<1>4. Quiet(c)' /\ Pending(c)' /\ LogAndTable(c)' /\ Flush(c)'
    BY <1>1, <1>2 DEF Disk, Readable, Quiet, Pending, LogAndTable, Flush
<1>5. FilesInHand(c)' /\ Merging(c)'
    BY <1>1, <1>2 DEF Disk, FilesInHand, InHand, Merging
<1>6. DiskKept'
    BY <1>1, <1>2 DEF Disk, DiskKept, Readable
<1> QED  BY <1>3, <1>4, <1>5, <1>6 DEF Disk

LEMMA DiskInit ==
    ASSUME NEW c \in Clients, Init
    PROVE  Disk(c)
<1>1. /\ mode = "up" /\ memtable = EmptyTable /\ segments = <<>> /\ wal = EmptyTable
      /\ client[c] = Idle /\ compactor = Resting /\ clock = 0
      /\ files = [t \in Timestamps |-> {}]
      /\ promised = [k \in Keys |-> {Tombstone}]
    BY DEF Init
<1>2. client[c].at = "idle" /\ compactor.at = "idle" /\ compactor.kind = "data"
    BY <1>1 DEF Idle, Resting
<1>3. Loaded = {} /\ Listed = {} /\ Complete = {} /\ Increasing(segments) /\ Running
    BY <1>1 DEF Loaded, Members, Listed, Complete, Increasing, Running
<1>4. Logged(EmptyTable) = EmptyTable
    BY DecodedType DEF Logged, EmptyTable
<1>5. Quiet(c) /\ Pending(c) /\ LogAndTable(c) /\ Flush(c)
    BY <1>1, <1>2, <1>3, <1>4 DEF Quiet, Pending, LogAndTable, Flush, InFlush, InPersist, Kinds
<1>6. InOrder /\ FilesInHand(c) /\ Merging(c) /\ MergePersists /\ MergeUnlinks
    BY <1>1, <1>2, <1>3
       DEF InOrder, FilesInHand, Merging, MergePersists, MergeUnlinks, InPersist, Kinds
<1>7. Promised(contents, {}, EmptyTable, Readable)
    BY <1>1 DEF Promised, Reads, IsNewest, EmptyTable, Visible, Readable
<1>8. DiskKept
    BY <1>1, <1>3, <1>7 DEF DiskKept
<1> QED  BY <1>5, <1>6, <1>8 DEF Disk

LEMMA InTextNext ==
    ASSUME TypeInv, TypeInv', InText, [Next]_vars
    PROVE  InText'
<1>1. CASE UNCHANGED wal
    BY <1>1 DEF InText
<1>2. CASE \E c \in Clients : WalPut(c)
  <2>1. PICK c \in Clients : WalPut(c)
      BY <1>2
  <2> DEFINE key == client[c].key
             value == client[c].value
  <2>2. /\ wal' = [wal EXCEPT ![key] = Decoded(value)] /\ value \in Entry
      BY <2>1 DEF WalPut, TypeInv, ValuesAwaited
  <2>3. \A k \in Keys : wal'[k] = Decoded(value) \/ wal'[k] = wal[k]
      BY <2>2, Types DEF Tables
  <2>4. \A k \in Keys : wal'[k] = Decoded(wal'[k])
    <3>1. \A k \in Keys : wal[k] = Decoded(wal[k])
        BY DEF InText, Logged
    <3>2. Decoded(value) = Decoded(Decoded(value))
        BY <2>2, DecodedType
    <3> HIDE DEF value
    <3> QED  BY <2>3, <3>1, <3>2
  <2>5. wal' \in Tables
      BY DEF TypeInv, StoreOK
  <2> QED  BY <2>4, <2>5 DEF InText, Logged, Tables
<1>3. CASE \E c \in Clients : FlushClearWal(c)
  <2>1. wal' = EmptyTable
      BY <1>3 DEF FlushClearWal
  <2>2. Logged(EmptyTable) = EmptyTable
      BY DecodedType DEF Logged, EmptyTable
  <2> QED  BY <2>1, <2>2 DEF InText
<1>4. CASE \E c \in Clients : \/ \E k \in Keys, v \in Entry : Put(c, k, v)
                              \/ MemtableSet(c) \/ Close(c) \/ FlushWrite(c)
                              \/ FlushFails(c) \/ FlushInstall(c)
    BY <1>1, <1>4 DEF Put, MemtableSet, Close, FlushWrite, FlushFails, FlushInstall
<1>5. CASE CompactWrite \/ CompactFails \/ CompactInstall \/ CompactUnlink \/ Crash \/ Open
    BY <1>1, <1>5 DEF CompactWrite, CompactFails, CompactInstall, CompactUnlink, Crash, Open
<1>6. CASE UNCHANGED vars
    BY <1>1, <1>6 DEF vars
<1> QED  BY <1>2, <1>3, <1>4, <1>5, <1>6 DEF Next

-----------------------------------------------------------------------------
(* Both together.                                                          *)

\* What was put is kept, by the memory, and by the disk as long as it is tidy.
Kept(c) == Alone(c) /\ Mem(c) /\ (untidy \/ Disk(c))

Always == TypeInv /\ HistoryOK /\ InText /\ (reloaded => untidy)

KeptSoFar == overlapped \/ reloaded \/ \E c \in Clients : Kept(c)

LEMMA AlwaysInit == Init => Always
<1> SUFFICES ASSUME Init PROVE Always
    OBVIOUS
<1>1. InText
    BY DecodedType DEF Init, InText, Logged, EmptyTable
<1>2. ~reloaded
    BY DEF Init
<1> QED  BY <1>1, <1>2, TypeInit, HistoryInit DEF Always

\* What has happened has happened.
LEMMA HistoryStays ==
    ASSUME HistoryOK, [Next]_vars
    PROVE  /\ overlapped => overlapped'
           /\ untidy => untidy'
           /\ reloaded => reloaded'
           /\ reloaded' => reloaded \/ untidy
<1>0. overlapped \in BOOLEAN /\ untidy \in BOOLEAN /\ reloaded \in BOOLEAN
    BY DEF HistoryOK
<1>1. CASE history' = history
    BY <1>1 DEF history
<1>2. CASE \E c \in Clients, k \in Keys, v \in Entry : Put(c, k, v)
    BY <1>0, <1>2 DEF Put
<1>3. CASE \E c \in Clients : FlushClearWal(c)
    BY <1>0, <1>3 DEF FlushClearWal, StartCompaction
<1>4. CASE CompactUnlink
    BY <1>0, <1>4 DEF CompactUnlink
<1>5. CASE Open
    BY <1>0, <1>5 DEF Open
<1>6. CASE \E c \in Clients : WalPut(c) \/ MemtableSet(c) \/ Close(c)
                              \/ FlushWrite(c) \/ FlushFails(c) \/ FlushInstall(c)
    BY <1>1, <1>6 DEF WalPut, MemtableSet, Close, FlushWrite, FlushFails, FlushInstall
<1>7. CASE CompactWrite \/ CompactFails \/ CompactInstall \/ Crash
    BY <1>1, <1>7 DEF CompactWrite, CompactFails, CompactInstall, Crash
<1>8. CASE UNCHANGED vars
    BY <1>1, <1>8 DEF vars, history
<1> QED  BY <1>2, <1>3, <1>4, <1>5, <1>6, <1>7, <1>8 DEF Next

LEMMA AlwaysNext == Always /\ [Next]_vars => Always'
<1> SUFFICES ASSUME Always, [Next]_vars PROVE Always'
    OBVIOUS
<1>1. TypeInv' /\ HistoryOK'
    BY TypeNext, HistoryNext DEF Always
<1>2. InText'
    BY <1>1, InTextNext DEF Always
<1>3. reloaded' => untidy'
    BY HistoryStays DEF Always
<1> QED  BY <1>1, <1>2, <1>3 DEF Always

LEMMA MemClose ==
    ASSUME NEW c \in Clients, TypeInv, Mem(c), Close(c)
    PROVE  Mem(c)'
<1>1. /\ mode = "up" /\ mode' = "closing" /\ client[c] = Idle
      /\ \/ BuildSegment(c, memtable)
         \/ UNCHANGED <<client, contents, clock, promised>>
      /\ UNCHANGED <<memtable, segments, compactor>>
    BY DEF Close
<1>2. Running /\ Running' /\ client[c].key = Absent
    BY <1>1 DEF Running, Idle
<1>3. CASE BuildSegment(c, memtable)
    BY <1>1, <1>2, <1>3, MemBuild DEF Mem, MemKept
<1>4. CASE UNCHANGED <<client, contents, clock, promised>>
    BY <1>1, <1>2, <1>4, MemCompactor DEF InPersist, Kinds
<1> QED  BY <1>1, <1>3, <1>4

LEMMA MemWrites ==
    ASSUME NEW c \in Clients, TypeInv, Mem(c), WalPut(c) \/ FlushWrite(c) \/ FlushFails(c)
    PROVE  Mem(c)'
<1>1. /\ client[c].at # "idle" /\ client[c] \in ClientRecords
      /\ UNCHANGED <<mode, memtable, segments, compactor, contents, clock, promised>>
    BY Types DEF WalPut, FlushWrite, FlushFails, Kinds
<1>2. Running /\ Running'
    BY <1>1 DEF Mem, Quiet, Idle, Running
<1>3. CASE WalPut(c)
  <2>1. /\ client[c].at = "wal" /\ client'[c] = [client[c] EXCEPT !.at = "memtable"]
      BY <1>3, Types DEF WalPut
  <2>2. /\ client'[c].at = "memtable" /\ client'[c].key = client[c].key
        /\ client'[c].value = client[c].value /\ client'[c].segment = client[c].segment
      BY <1>1, <2>1 DEF ClientRecords
  <2> QED  BY <1>1, <1>2, <2>1, <2>2, MemAwait
<1>4. CASE FlushWrite(c)
  <2>1. client[c].at \in Kinds /\ client'[c] = [client[c] EXCEPT !.at = After[@]]
      BY <1>4, Types DEF FlushWrite
  <2>2. /\ client'[c].at \in InPersist /\ client'[c].key = client[c].key
        /\ client'[c].value = client[c].value /\ client'[c].segment = client[c].segment
      BY <1>1, <2>1, AfterType DEF ClientRecords
  <2> QED  BY <1>1, <1>2, <2>1, <2>2, MemAwait
<1>5. CASE FlushFails(c)
  <2>1. client'[c] = Idle
      BY <1>5, Types DEF FlushFails
  <2> QED  BY <1>1, <1>2, <2>1, MemAwait
<1> QED  BY <1>3, <1>4, <1>5

LEMMA MemCompacts ==
    ASSUME NEW c \in Clients, TypeInv, Mem(c), CompactWrite \/ CompactFails \/ CompactUnlink
    PROVE  Mem(c)'
<1>1. /\ compactor.at # "idle" /\ compactor \in CompactorRecords
      /\ UNCHANGED <<mode, memtable, segments, client, contents, clock, promised>>
    BY Types DEF CompactWrite, CompactFails, CompactUnlink, Kinds
<1>2. Running /\ Running' = Running
    BY <1>1, RestingType DEF Mem, Quiet, Running
<1>3. compactor'.at \in InPersist =>
          /\ compactor.at \in InPersist /\ compactor'.segment = compactor.segment
          /\ compactor'.merging = compactor.merging
  <2>1. CASE CompactWrite
      BY <1>1, <2>1 DEF CompactWrite, CompactorRecords, InPersist
  <2>2. CASE CompactFails
      BY <2>2, RestingType DEF CompactFails, InPersist, Kinds
  <2>3. CASE CompactUnlink
    <3>1. compactor' = Resting \/ compactor' = UnlinkNext
        BY <2>3 DEF CompactUnlink
    <3>2. UnlinkNext.at = "unlink"
        BY <1>1, <2>3 DEF CompactUnlink, UnlinkNext, CompactorRecords
    <3> QED  BY <3>1, <3>2, RestingType DEF InPersist, Kinds
  <2> QED  BY <2>1, <2>2, <2>3
<1> QED  BY <1>1, <1>2, <1>3, MemCompactor

LEMMA MemOpen ==
    ASSUME NEW c \in Clients, TypeInv, Disk(c), Open
    PROVE  Mem(c)'
<1>1. mode = "down" /\ UNCHANGED <<client, compactor, wal, files, contents, clock, promised>>
    BY DEF Open
<1>2. segments = <<>> /\ compactor = Resting /\ client[c] = Idle
    BY <1>1 DEF Disk, Quiet, Running
<1>3. client'[c] = Idle /\ client'[c].at = "idle" /\ compactor' = Resting /\ compactor'.at = "idle"
    BY <1>1, <1>2 DEF Idle, Resting
<1>4. Pending(c)' /\ MemFlush(c)' /\ MemClear(c)' /\ MemMerge(c)'
    BY <1>3 DEF Pending, MemFlush, MemClear, MemMerge, InPersist, Kinds
<1>5. CASE \A t \in Listed : files[t] = Kinds
  <2> DEFINE order == ByTimestamp(Listed)
  <2>1. mode' = "up" /\ segments' = order /\ memtable' = wal /\ Complete = Listed
      BY <1>5 DEF Open, Complete, Kinds
  <2>2. order \in Seq(Timestamps) /\ Increasing(order) /\ Members(order) = Listed
      BY Sorted, Types
  <2>3. \A t \in Listed : t <= clock
      BY OldFiles DEF Disk
  <2> HIDE DEF order
  <2>4. Promised(Layers(contents, order), DOMAIN order, wal, Readable)
      BY <2>1, <2>2, PromisedByPlace DEF Disk, DiskKept
  <2>5. Readable' = Readable
      BY <1>1 DEF Readable
  <2>6. Known' /\ MemKept' /\ Quiet(c)'
      BY <1>1, <2>1, <2>2, <2>3, <2>4, <2>5 DEF Known, MemKept, Quiet, Running, Members
  <2> QED  BY <1>4, <2>6 DEF Mem
<1>6. CASE ~(\A t \in Listed : files[t] = Kinds)
  <2>1. mode' = "broken" /\ UNCHANGED <<segments, memtable>>
      BY <1>6 DEF Open
  <2>2. ~Running' /\ Known' /\ Quiet(c)'
      BY <1>1, <1>2, <1>3, <2>1 DEF Running, Known, Quiet
  <2> QED  BY <1>4, <2>2 DEF Mem, MemKept
<1> QED  BY <1>5, <1>6

LEMMA MemStutter ==
    ASSUME NEW c, Mem(c), UNCHANGED vars
    PROVE  Mem(c)'
<1>1. UNCHANGED <<mode, memtable, segments, client, compactor, contents, clock, promised>>
    BY DEF vars
<1>2. Running' = Running /\ Readable' = Readable
    BY <1>1 DEF Running, Readable
<1>3. Quiet(c)' /\ Pending(c)' /\ MemFlush(c)' /\ MemClear(c)'
    BY <1>1, <1>2 DEF Mem, Quiet, Pending, MemFlush, MemClear
<1> QED  BY <1>1, <1>2, <1>3 DEF Mem, MemMerge, Known, MemKept

\* Whoever puts when nobody awaits is the one awaited.
LEMMA KeptByAnother ==
    ASSUME NEW c \in Clients, NEW d \in Clients, Kept(c), \A e \in Clients : client[e] = Idle
    PROVE  Kept(d)
<1>1. client[c] = Idle /\ client[d] = Idle /\ Idle.at = "idle"
    BY DEF Idle
<1>2. Alone(d)
    BY DEF Alone
<1>3. Mem(d)
    BY <1>1 DEF Kept, Mem, Quiet, Pending, MemFlush, MemClear, MemMerge, InPersist, Kinds
<1>4. Disk(c) => Disk(d)
    BY <1>1 DEF Disk, Quiet, Pending, LogAndTable, Flush, FilesInHand, InHand, Merging, InFlush,
                InPersist, Kinds
<1> QED  BY <1>2, <1>3, <1>4 DEF Kept

\* A step of the client that may be awaited.
LEMMA KeptByClient ==
    ASSUME Always, TypeInv', NEW c \in Clients, Kept(c), untidy => untidy',
           \/ \E k \in Keys, v \in Entry : Put(c, k, v)
           \/ WalPut(c) \/ MemtableSet(c) \/ Close(c)
           \/ FlushWrite(c) \/ FlushFails(c) \/ FlushInstall(c) \/ FlushClearWal(c)
    PROVE  Kept(c)'
<1>1. Alone(c) /\ Mem(c) /\ (untidy' \/ Disk(c)) /\ TypeInv
    BY DEF Kept, Always
<1>2. Alone(c)'
  <2>1. \A d \in Clients : d # c => client'[d] = client[d]
      BY <1>1, Types
         DEF Put, WalPut, MemtableSet, Close, BuildSegment, Acknowledge, FlushWrite, FlushFails,
             FlushInstall, FlushClearWal
  <2> QED  BY <1>1, <2>1 DEF Alone
<1>3. Mem(c)'
    BY <1>1, MemPut, MemWrites, MemMemtableSet, MemClose, MemFlushInstall, MemFlushClearWal
<1>4. untidy' \/ Disk(c)'
  <2>1. ASSUME NEW k \in Keys, NEW v \in Entry, Put(c, k, v), Disk(c) PROVE Disk(c)'
      BY <1>1, <2>1, PutKeeps
  <2>2. ASSUME Disk(c), WalPut(c) \/ MemtableSet(c) \/ Close(c) PROVE Disk(c)'
      BY <1>1, <2>2, WalPutKeeps, MemtableSetKeeps, CloseKeeps
  <2>3. ASSUME Disk(c), FlushWrite(c) \/ FlushFails(c) \/ FlushInstall(c) PROVE Disk(c)'
      BY <1>1, <2>3, FlushWriteKeeps, FlushFailsKeeps, FlushInstallKeeps
  <2>4. ASSUME Disk(c), FlushClearWal(c) PROVE untidy' \/ Disk(c)'
      BY <1>1, <2>4, FlushClearWalKeeps
  <2> QED  BY <1>1, <2>1, <2>2, <2>3, <2>4
<1> QED  BY <1>2, <1>3, <1>4 DEF Kept

\* A step of the compaction, a crash or an open.
LEMMA KeptByOthers ==
    ASSUME Always, TypeInv', NEW c \in Clients, Kept(c), untidy => untidy', ~reloaded',
           \/ CompactWrite \/ CompactFails \/ CompactInstall \/ CompactUnlink
           \/ Crash \/ Open \/ UNCHANGED vars
    PROVE  Kept(c)'
<1>1. Alone(c) /\ Mem(c) /\ (untidy' \/ Disk(c)) /\ TypeInv /\ InText
    BY DEF Kept, Always
<1>2. Alone(c)'
  <2>1. \A d \in Clients : client'[d] = client[d] \/ client'[d] = Idle
      BY DEF CompactWrite, CompactFails, CompactInstall, CompactUnlink, Crash, Open, vars
  <2> QED  BY <1>1, <2>1 DEF Alone
<1>3. Mem(c)'
  <2>1. ASSUME Open PROVE Mem(c)'
    <3>1. Disk(c)
        BY <2>1 DEF Open, Kept
    <3> QED  BY <1>1, <2>1, <3>1, MemOpen
  <2> QED  BY <1>1, <2>1, MemCompacts, MemCompactInstall, MemCrash, MemStutter
<1>4. untidy' \/ Disk(c)'
  <2>1. ASSUME Disk(c), CompactWrite \/ CompactFails \/ CompactInstall PROVE Disk(c)'
      BY <1>1, <2>1, CompactWriteKeeps, CompactFailsKeeps, CompactInstallKeeps
  <2>2. ASSUME Disk(c), CompactUnlink PROVE untidy' \/ Disk(c)'
      BY <1>1, <2>2, CompactUnlinkKeeps
  <2>3. ASSUME Disk(c), Crash \/ Open \/ UNCHANGED vars PROVE Disk(c)'
      BY <1>1, <2>3, CrashKeeps, OpenKeeps, StutterKeeps
  <2> QED  BY <1>1, <2>1, <2>2, <2>3
<1> QED  BY <1>2, <1>3, <1>4 DEF Kept

LEMMA KeptInit == Init => KeptSoFar
<1> SUFFICES ASSUME Init PROVE \E c \in Clients : Kept(c)
    BY DEF KeptSoFar
<1>1. PICK c \in Clients : TRUE
    BY ClientsAssumption
<1>2. Alone(c)
    BY DEF Init, Alone
<1> QED  BY <1>1, <1>2, MemInit, DiskInit DEF Kept

LEMMA KeptNext == Always /\ KeptSoFar /\ [Next]_vars => KeptSoFar'
<1> SUFFICES ASSUME Always, KeptSoFar, [Next]_vars, ~overlapped', ~reloaded'
             PROVE  \E c \in Clients : Kept(c)'
    BY DEF KeptSoFar
<1>1. TypeInv' /\ (untidy => untidy') /\ ~overlapped /\ ~reloaded
    BY AlwaysNext, HistoryStays DEF Always
<1>2. PICK c \in Clients : Kept(c)
    BY <1>1 DEF KeptSoFar
<1>3. ASSUME NEW d \in Clients,
             \/ \E k \in Keys, v \in Entry : Put(d, k, v)
             \/ Close(d)
      PROVE  Kept(d)'
  <2>1. \A e \in Clients : client[e] = Idle
      BY <1>3 DEF Put, Close
  <2>2. Kept(d)
      BY <1>2, <2>1, KeptByAnother
  <2> QED  BY <1>1, <1>3, <2>2, KeptByClient
<1>4. ASSUME NEW d \in Clients,
             WalPut(d) \/ MemtableSet(d) \/ FlushWrite(d) \/ FlushFails(d)
             \/ FlushInstall(d) \/ FlushClearWal(d)
      PROVE  Kept(d)'
  <2>1. client[d] # Idle
      BY <1>4 DEF WalPut, MemtableSet, FlushWrite, FlushFails, FlushInstall, FlushClearWal, Idle, Kinds
  <2>2. d = c
      BY <1>2, <2>1 DEF Kept, Alone
  <2> QED  BY <1>1, <1>2, <1>4, <2>2, KeptByClient
<1>5. ASSUME \/ CompactWrite \/ CompactFails \/ CompactInstall \/ CompactUnlink
             \/ Crash \/ Open \/ UNCHANGED vars
      PROVE  Kept(c)'
    BY <1>1, <1>2, <1>5, KeptByOthers
<1> QED  BY <1>3, <1>4, <1>5 DEF Next

\* What the memory holds is what get returns.
LEMMA KeptIsRead == Always /\ KeptSoFar => ReadsLatest
<1> SUFFICES ASSUME Always, NEW c \in Clients, Kept(c), Running, NEW k \in Keys
             PROVE  Get(k) \in Readable[k]
    BY DEF KeptSoFar, ReadsLatest, Durability
<1>1. PICK v \in Entry \cup {Absent} :
          /\ Reads(Layers(contents, segments), DOMAIN segments, memtable, k, v)
          /\ Visible(v) \in Readable[k]
    BY DEF Kept, Mem, MemKept, Promised
<1>2. Newest(Append(SegmentTables(segments), memtable), k) = v
    BY <1>1, ReadIs, Types DEF Always
<1> QED  BY <1>1, <1>2 DEF Get

\* What the disk holds is what a restart would return.
LEMMA KeptIsOnDisk == Always /\ KeptSoFar => DiskHoldsLatest
<1> DEFINE order == ByTimestamp(Complete)
<1> SUFFICES ASSUME Always, NEW c \in Clients, Disk(c), NEW k \in Keys
             PROVE  Visible(Newest(Append(SegmentTables(order), wal), k)) \in Readable[k]
    BY DEF KeptSoFar, Kept, DiskHoldsLatest, Always
<1>1. order \in Seq(Timestamps) /\ Increasing(order) /\ Members(order) = Complete
    BY Sorted, Types DEF Always
<1> HIDE DEF order
<1>2. Promised(Layers(contents, order), DOMAIN order, wal, Readable)
    BY <1>1, PromisedByPlace DEF Disk, DiskKept
<1>3. PICK v \in Entry \cup {Absent} :
          Reads(Layers(contents, order), DOMAIN order, wal, k, v) /\ Visible(v) \in Readable[k]
    BY <1>2 DEF Promised
<1>4. Newest(Append(SegmentTables(order), wal), k) = v
    BY <1>1, <1>3, ReadIs
<1> QED  BY <1>3, <1>4

\* Until two puts overlap, or a store is opened after a merge that left younger
\* segments out or an unlink that failed, get returns the last put acknowledged,
\* or one that was under way or rejected since, or what the log made of it,
\* whatever flush, compaction, crash, failed write or restart comes between.
THEOREM ReadsLatestHolds == Spec => []ReadsLatest
BY AlwaysInit, AlwaysNext, KeptInit, KeptNext, KeptIsRead, PTL DEF Spec

\* Until two puts overlap or such a merge or unlink happens, the disk alone holds
\* as much at every instant: a crash at any await loses nothing acknowledged.
THEOREM DiskHoldsLatestHolds == Spec => []DiskHoldsLatest
BY AlwaysInit, AlwaysNext, KeptInit, KeptNext, KeptIsOnDisk, PTL DEF Spec

=============================================================================
