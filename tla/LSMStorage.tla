----------------------------- MODULE LSMStorage -----------------------------
(***************************************************************************)
(* The storage engine (storage/lsm-storage.ts): a write-ahead log, a       *)
(* memtable, immutable segments and background compaction, cut at the      *)
(* awaits between which other puts, compaction and a crash may fall.       *)
(*                                                                         *)
(* A key counts one towards memtableSize and a value one more.  The log is *)
(* a Level database opened without an encoding, so values pass through     *)
(* UTF-8 text there; that they come back as strings and not as byte arrays *)
(* is left out.  Merkle roots (module MerkleTree) and statistics do not    *)
(* feed back into the store.  Segments are named by the clock, here a      *)
(* counter: no two are created in the same millisecond.                    *)
(***************************************************************************)
EXTENDS Integers, Sequences, FiniteSets, SequencesExt

CONSTANTS
    Keys,
    Clients,                \* concurrent callers, each awaiting its own puts
    KeysOf,                 \* KeysOf[c]: the keys client c writes
    Tombstone,              \* the empty value that delete puts
    Absent,                 \* no entry for the key
    Garbled,                \* text decoded from bytes that are not UTF-8
    Binary,                 \* the values that are not UTF-8
    HashBits,               \* HashBits[k]: the bits of the bloom filter k's hashes name
    MemtableSize,           \* size that makes put flush
    CompactionThreshold,    \* segments that make flush start a compaction
    MergeWidth,             \* segments a compaction takes, 5 in the code
    Faults,                 \* what may go wrong: see FaultsAssumption
    MaxPuts,                \* bound on the puts of a behaviour
    MaxSegments             \* bound on the segments it builds

ASSUME ClientsAssumption == Clients # {}
ASSUME KeysOfAssumption == KeysOf \in [Clients -> SUBSET Keys]
ASSUME HashBitsAssumption == HashBits \in [Keys -> SUBSET Nat]
ASSUME SizesAssumption ==
    {MemtableSize, CompactionThreshold, MergeWidth, MaxPuts, MaxSegments}
        \subseteq Nat \ {0}
ASSUME FaultsAssumption == Faults \subseteq {"crash", "write", "unlink"}
ASSUME MarkersAssumption ==
    /\ Tombstone # Absent /\ Tombstone # Garbled /\ Absent # Garbled
    /\ {Tombstone, Absent, Garbled} \cap Nat = {}
ASSUME BinaryAssumption == Binary \subseteq 1..MaxPuts

\* The n-th put writes the value n, or the tombstone.
Values == 1..MaxPuts
Entry == Values \cup {Tombstone, Garbled}
Tables == [Keys -> Entry \cup {Absent}]
EmptyTable == [k \in Keys |-> Absent]

\* memtableSize: a tombstone has an empty value.
Size(table) ==
    Cardinality({k \in Keys : table[k] # Absent})
        + Cardinality({k \in Keys : table[k] \notin {Tombstone, Absent}})

\* What a value that went through the log reads as.
Decoded(entry) == IF entry \in Binary THEN Garbled ELSE entry

Kinds == {"data", "bloom", "meta"}

VARIABLES
    mode,       \* "up", "closing", "down" (the process ended), "broken" (open threw)
    memtable,
    segments,   \* timestamps of the loaded segments, oldest first
    client,     \* client[c]: what c awaits
    compactor,  \* the running compaction, or idle
    wal,        \* on disk: the Level database
    files,      \* on disk: files[t], the kinds of file segment t has
    contents,   \* contents[t]: the table segment t was built from
    clock,      \* timestamp of the last segment
    puts,       \* puts begun
    promised,   \* promised[k]: the last put acknowledged, and those begun since
    \* What has happened so far:
    overlapped, \* a put began while another was awaited
    untidy,     \* a merge left younger segments out, or an unlink failed
    reloaded    \* the store was opened after that

history == <<overlapped, untidy, reloaded>>

vars == <<mode, memtable, segments, client, compactor, wal, files, contents,
          clock, puts, promised, overlapped, untidy, reloaded>>

Idle == [at |-> "idle", key |-> Absent, value |-> Absent, segment |-> 0]
Resting == [at |-> "idle", segment |-> 0, merging |-> <<>>, unlinking |-> <<>>, kind |-> "data"]

Timestamps == 1..MaxSegments

Init ==
    /\ mode = "up"
    /\ memtable = EmptyTable
    /\ segments = <<>>
    /\ client = [c \in Clients |-> Idle]
    /\ compactor = Resting
    /\ wal = EmptyTable
    /\ files = [t \in Timestamps |-> {}]
    /\ contents = [t \in Timestamps |-> EmptyTable]
    /\ clock = 0
    /\ puts = 0
    /\ promised = [k \in Keys |-> {Tombstone}]
    /\ overlapped = FALSE /\ untidy = FALSE /\ reloaded = FALSE

-----------------------------------------------------------------------------
(* Reading.  get looks at the memtable, then at the segments, newest first. *)

Newest(tables, k) ==
    LET has == {i \in DOMAIN tables : tables[i][k] # Absent}
    IN  IF has = {} THEN Absent
        ELSE tables[CHOOSE i \in has : \A j \in has : j <= i][k]

\* BloomFilter: the bits that add sets for the keys of a table.
Filter(table) == UNION {HashBits[k] : k \in {x \in Keys : table[x] # Absent}}

mightContain(bits, k) == HashBits[k] \subseteq bits

\* SSTable.entries, of each segment in order.
Entries(order) == [i \in DOMAIN order |-> contents[order[i]]]

\* SSTable.get asks the filter first.
SegmentTables(order) ==
    [i \in DOMAIN order |->
        [k \in Keys |-> IF mightContain(Filter(contents[order[i]]), k)
                           THEN contents[order[i]][k] ELSE Absent]]

\* A key that was never put reads as one that was deleted.
Visible(entry) == IF entry = Absent THEN Tombstone ELSE entry

Get(k) == Visible(Newest(Append(SegmentTables(segments), memtable), k))

-----------------------------------------------------------------------------
(* put and delete up to the flush.                                         *)

Put(c, k, v) ==
    /\ mode = "up"
    /\ client[c] = Idle
    /\ puts < MaxPuts
    /\ k \in KeysOf[c]
    /\ v \in {puts + 1, Tombstone}
    /\ puts' = puts + 1
    /\ promised' = [promised EXCEPT ![k] = @ \cup {v}]
    /\ client' = [client EXCEPT ![c] = [at |-> "wal", key |-> k, value |-> v, segment |-> 0]]
    /\ overlapped' = (overlapped \/ \E d \in Clients : client[d] # Idle)
    /\ UNCHANGED <<mode, memtable, segments, compactor, wal, files, contents, clock,
                   untidy, reloaded>>

\* The value is decoded into the text that is logged.
WalPut(c) ==
    /\ client[c].at = "wal"
    /\ wal' = [wal EXCEPT ![client[c].key] = Decoded(client[c].value)]
    /\ client' = [client EXCEPT ![c].at = "memtable"]
    /\ UNCHANGED <<mode, memtable, segments, compactor, files, contents, clock,
                   puts, promised, history>>

\* The put's promise resolves.
Acknowledge(c) ==
    /\ client' = [client EXCEPT ![c] = Idle]
    /\ promised' = IF client[c].key = Absent THEN promised
                   ELSE [promised EXCEPT ![client[c].key] = {client[c].value}]

\* flush, up to its first await: the segment is built from the memtable.
BuildSegment(c, table) ==
    /\ clock < MaxSegments
    /\ clock' = clock + 1
    /\ contents' = [contents EXCEPT ![clock + 1] = table]
    /\ client' = [client EXCEPT ![c].at = "data", ![c].segment = clock + 1]
    /\ UNCHANGED promised

MemtableSet(c) ==
    LET table == [memtable EXCEPT ![client[c].key] = client[c].value]
    IN  /\ client[c].at = "memtable"
        /\ memtable' = table
        /\ IF Size(table) >= MemtableSize
              THEN BuildSegment(c, table)
              ELSE Acknowledge(c) /\ UNCHANGED <<clock, contents>>
        /\ UNCHANGED <<mode, segments, compactor, wal, files, puts, history>>

\* close flushes what there is, then closes the log.  Nobody puts any more.
Close(c) ==
    /\ mode = "up"
    /\ \A d \in Clients : client[d] = Idle
    /\ mode' = "closing"
    /\ IF Size(memtable) > 0
          THEN BuildSegment(c, memtable)
          ELSE UNCHANGED <<client, contents, clock, promised>>
    /\ UNCHANGED <<memtable, segments, compactor, wal, files, puts, history>>

-----------------------------------------------------------------------------
(* SSTable.persist writes the data, the bloom filter, then the metadata.   *)

After == [data |-> "bloom", bloom |-> "meta", meta |-> "install"]

FlushWrite(c) ==
    /\ client[c].at \in Kinds
    /\ files' = [files EXCEPT ![client[c].segment] = @ \cup {client[c].at}]
    /\ client' = [client EXCEPT ![c].at = After[@]]
    /\ UNCHANGED <<mode, memtable, segments, compactor, wal, contents, clock,
                   puts, promised, history>>

\* A write fails: put rejects, with its entry in the log and the memtable.
FlushFails(c) ==
    /\ "write" \in Faults
    /\ client[c].at \in Kinds
    /\ client' = [client EXCEPT ![c] = Idle]
    /\ UNCHANGED <<mode, memtable, segments, compactor, wal, files, contents,
                   clock, puts, promised, history>>

FlushInstall(c) ==
    /\ client[c].at = "install"
    /\ segments' = Append(segments, client[c].segment)
    /\ memtable' = EmptyTable
    /\ client' = [client EXCEPT ![c].at = "clear"]
    /\ UNCHANGED <<mode, compactor, wal, files, contents, clock, puts, promised, history>>

\* The tombstones of the segments merged are dropped.
Merged(order) ==
    [k \in Keys |-> LET v == Newest(Entries(order), k)
                    IN  IF v = Tombstone THEN Absent ELSE v]

Oldest(order) ==
    SubSeq(order, 1, IF Len(order) < MergeWidth THEN Len(order) ELSE MergeWidth)

\* compact, up to its first await.
StartCompaction ==
    IF /\ Len(segments) >= CompactionThreshold
       /\ compactor = Resting
       /\ Len(segments) >= 2
       THEN /\ clock < MaxSegments
            /\ clock' = clock + 1
            /\ contents' = [contents EXCEPT ![clock + 1] = Merged(Oldest(segments))]
            /\ compactor' = [Resting EXCEPT !.at = "data", !.segment = clock + 1,
                                            !.merging = Oldest(segments)]
            /\ untidy' = (untidy \/ Len(segments) > MergeWidth)
       ELSE UNCHANGED <<clock, contents, compactor, untidy>>

FlushClearWal(c) ==
    /\ client[c].at = "clear"
    /\ wal' = EmptyTable
    /\ Acknowledge(c)
    /\ StartCompaction
    /\ UNCHANGED <<mode, memtable, segments, files, puts, overlapped, reloaded>>

-----------------------------------------------------------------------------
(* compact after its first await.                                          *)

CompactWrite ==
    /\ compactor.at \in Kinds
    /\ files' = [files EXCEPT ![compactor.segment] = @ \cup {compactor.at}]
    /\ compactor' = [compactor EXCEPT !.at = After[@]]
    /\ UNCHANGED <<mode, memtable, segments, client, wal, contents, clock, puts,
                   promised, history>>

\* The finally block: the segments stay as they are.
CompactFails ==
    /\ "write" \in Faults
    /\ compactor.at \in Kinds
    /\ compactor' = Resting
    /\ UNCHANGED <<mode, memtable, segments, client, wal, files, contents, clock,
                   puts, promised, history>>

\* Faulty: the files of the newest segment go first.
InstallUnlinkNewest ==
    /\ compactor.at = "install"
    /\ segments' = <<compactor.segment>> \o
                   SubSeq(segments, Len(compactor.merging) + 1, Len(segments))
    /\ compactor' = [compactor EXCEPT !.at = "unlink", !.unlinking = Reverse(compactor.merging)]
    /\ UNCHANGED <<mode, memtable, client, wal, files, contents, clock, puts, promised,
                   history>>

CompactInstall ==
    /\ compactor.at = "install"
    /\ segments' = <<compactor.segment>> \o
                   SubSeq(segments, Len(compactor.merging) + 1, Len(segments))
    /\ compactor' = [compactor EXCEPT !.at = "unlink", !.unlinking = compactor.merging]
    /\ UNCHANGED <<mode, memtable, client, wal, files, contents, clock, puts, promised,
                   history>>

\* The files that are left to unlink: kind and those after it of the first
\* segment, and every file of the others.
UnlinkNext ==
    IF compactor.kind = "meta"
       THEN [compactor EXCEPT !.kind = "data", !.unlinking = Tail(@)]
       ELSE [compactor EXCEPT !.kind = After[@]]

\* Faulty: the last unlink leaves the compacting flag set.
UnlinkForever ==
    /\ compactor.at = "unlink"
    /\ files' = [files EXCEPT ![Head(compactor.unlinking)] = @ \ {compactor.kind}]
    /\ compactor' = UnlinkNext
    /\ UNCHANGED <<mode, memtable, segments, client, wal, contents, clock, puts, promised,
                   history>>

\* An unlink that fails is passed over.
CompactUnlink ==
    /\ compactor.at = "unlink"
    /\ \E removed \in {{compactor.kind}} \cup (IF "unlink" \in Faults THEN {{}} ELSE {}) :
          /\ files' = [files EXCEPT ![Head(compactor.unlinking)] = @ \ removed]
          /\ untidy' = (untidy \/ removed = {})
    /\ compactor' = IF compactor.kind = "meta" /\ Len(compactor.unlinking) = 1
                       THEN Resting ELSE UnlinkNext
    /\ UNCHANGED <<mode, memtable, segments, client, wal, contents, clock, puts, promised,
                   overlapped, reloaded>>

-----------------------------------------------------------------------------
(* The process ends at any await and is started again.                     *)

Running == mode \in {"up", "closing"}

Crash ==
    /\ "crash" \in Faults
    /\ Running
    /\ mode' = "down"
    /\ memtable' = EmptyTable
    /\ segments' = <<>>
    /\ client' = [c \in Clients |-> Idle]
    /\ compactor' = Resting
    /\ UNCHANGED <<wal, files, contents, clock, puts, promised, history>>

Listed == {t \in Timestamps : "meta" \in files[t]}

\* loadSegments sorts by the timestamp in the metadata.
ByTimestamp(set) ==
    [i \in 1..Cardinality(set) |->
        CHOOSE t \in set : Cardinality({u \in set : u <= t}) = i]

\* Faulty: the log is not read back.
OpenWithoutLog ==
    /\ mode = "down"
    /\ mode' = "up"
    /\ segments' = ByTimestamp(Listed)
    /\ reloaded' = (reloaded \/ untidy)
    /\ UNCHANGED <<memtable, client, compactor, wal, files, contents, clock, puts, promised,
                   overlapped, untidy>>

\* recoverFromWAL takes the text of the log for the values.
Open ==
    /\ mode = "down"
    /\ IF \A t \in Listed : files[t] = Kinds
          THEN /\ mode' = "up"
               /\ segments' = ByTimestamp(Listed)
               /\ memtable' = wal
          ELSE mode' = "broken" /\ UNCHANGED <<segments, memtable>>
    /\ reloaded' = (reloaded \/ untidy)
    /\ UNCHANGED <<client, compactor, wal, files, contents, clock, puts, promised,
                   overlapped, untidy>>

Next ==
    \/ \E c \in Clients :
          \/ \E k \in Keys, v \in Entry : Put(c, k, v)
          \/ WalPut(c)
          \/ MemtableSet(c)
          \/ Close(c)
          \/ FlushWrite(c)
          \/ FlushFails(c)
          \/ FlushInstall(c)
          \/ FlushClearWal(c)
    \/ CompactWrite
    \/ CompactFails
    \/ CompactInstall
    \/ CompactUnlink
    \/ Crash
    \/ Open

Spec == Init /\ [][Next]_vars

-----------------------------------------------------------------------------
(* Properties.                                                             *)

StoreOK ==
    /\ mode \in {"up", "closing", "down", "broken"}
    /\ memtable \in Tables
    /\ segments \in Seq(Timestamps)
    /\ client \in [Clients -> [at : {"idle", "wal", "memtable", "install", "clear"} \cup Kinds,
                               key : Keys \cup {Absent}, value : Entry \cup {Absent},
                               segment : Timestamps \cup {0}]]
    /\ compactor \in [at : {"idle", "install", "unlink"} \cup Kinds,
                      segment : Timestamps \cup {0}, merging : Seq(Timestamps),
                      unlinking : Seq(Timestamps), kind : Kinds]
    /\ compactor.at = "unlink" <=> compactor.unlinking # <<>>
    /\ wal \in Tables
    /\ files \in [Timestamps -> SUBSET Kinds]
    /\ contents \in [Timestamps -> Tables]
    /\ clock \in Timestamps \cup {0}
    /\ puts \in 0..MaxPuts
    /\ promised \in [Keys -> SUBSET Entry]

HistoryOK == {overlapped, untidy, reloaded} \subseteq BOOLEAN

TypeOK == StoreOK /\ HistoryOK

\* What a put leaves to be read: its value, or what the log made of it.
Readable == [k \in Keys |-> promised[k] \cup {Decoded(v) : v \in promised[k]}]

\* "Durability: committed effects persist."  What get returns is the last put
\* that was acknowledged, or one that was under way, before and after crashes,
\* failed writes, compactions and restarts.
Durability == Running => \A k \in Keys : Get(k) \in Readable[k]

\* Get returns that as long as puts are awaited one at a time, and no store is
\* opened after a merge that left younger segments out or an unlink that failed.
ReadsLatest == overlapped \/ reloaded \/ Durability

\* The same of the disk alone, at every instant, even while an open would fail
\* because a compaction was cut between the unlinks of one segment: what a
\* restart would read is promised, until such a merge or unlink.
Complete == {t \in Listed : "data" \in files[t]}

DiskHoldsLatest ==
    \/ overlapped \/ untidy
    \/ \A k \in Keys :
          Visible(Newest(Append(SegmentTables(ByTimestamp(Complete)), wal), k)) \in Readable[k]

=============================================================================
