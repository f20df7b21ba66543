------------------------------ MODULE ChunkScan ------------------------------
(***************************************************************************)
(* The chunked scan of the LSM tree (lsm.rs scan_chunk_raw) and the        *)
(* resumable loop that migrations, full-text builds and exports run over   *)
(* it.                                                                     *)
(*                                                                         *)
(* A source is one SST or memtable reduced to what a scan at one snapshot  *)
(* sees of it: the newest visible version of each key it holds, 0 for a    *)
(* tombstone.  Sources are listed oldest first.  Between two chunks the    *)
(* tree may compact the oldest sources into one (a flush changes nothing   *)
(* in this view).                                                          *)
(***************************************************************************)
EXTENDS Integers, Sequences, SequencesExt, FiniteSetsExt

CONSTANTS
    MaxKey,         \* keys are 1 .. MaxKey, in byte order
    NumSources,     \* sources at the start
    MaxDistinct     \* the cap of one chunk

ScanKey == 1 .. MaxKey

VARIABLES
    sources,    \* Seq([subset of ScanKey -> version or 0])
    start,      \* start_user_key of the next chunk
    collected,  \* live keys handed to the caller: Seq(<<key, version>>)
    done

vars == <<sources, start, collected, done>>

\* The smallest n elements of a set of keys.
Smallest(S, n) == {k \in S : Cardinality({j \in S : j < k}) < n}

\* scan_from_max of one source: its first MaxDistinct keys from start on.
Window(src, from) == Smallest({k \in DOMAIN src : k >= from}, MaxDistinct)

\* The BTreeMap filled oldest source first: the newest source that offers a
\* key in its window decides its value.
Merge(srcs, from) ==
    LET offers(k) == {i \in DOMAIN srcs : k \in Window(srcs[i], from)}
    IN  [k \in {j \in ScanKey : offers(j) /= {}} |-> srcs[Max(offers(k))][k]]

Live(m, S) ==
    LET keys == SetToSortSeq({k \in S : m[k] /= 0}, <)
    IN  [i \in DOMAIN keys |-> <<keys[i], m[keys[i]]>>]

Saturated(srcs, from) ==
    \E i \in DOMAIN srcs : Cardinality(Window(srcs[i], from)) = MaxDistinct

\* Mutant: only a source that filled its window counts.
MoreKeysSaturated(srcs, from) == Saturated(srcs, from)

MoreKeys(srcs, from) ==
    \/ Saturated(srcs, from)
    \/ Cardinality(DOMAIN Merge(srcs, from)) > MaxDistinct

ScanChunkRaw(srcs, from) ==
    LET m == Merge(srcs, from)
        taken == Smallest(DOMAIN m, MaxDistinct)
    IN  [live |-> Live(m, taken),
         high_water |-> Max(taken \cup {0}),
         more |-> MoreKeys(srcs, from)]

-----------------------------------------------------------------------------

Init ==
    /\ \E alive \in [1 .. NumSources ->
                       UNION {[S -> {0, 1}] : S \in SUBSET ScanKey}] :
          sources = [i \in 1 .. NumSources |->
                        [k \in DOMAIN alive[i] |-> i * alive[i][k]]]
    /\ start = 1
    /\ collected = <<>>
    /\ done = FALSE

\* One iteration of the caller's loop: take the live rows, move the cursor
\* just past high_water, stop when there is no more.
ScanStep ==
    LET chunk == ScanChunkRaw(sources, start)
    IN  /\ ~ done
        /\ collected' = collected \o chunk.live
        /\ done' = (~ chunk.more \/ chunk.high_water = 0)
        /\ start' = chunk.high_water + 1
        /\ UNCHANGED sources

\* Compaction merges the SSTs, the oldest n sources, keeping tombstones.
Compact(n) ==
    LET whole == [k \in UNION {DOMAIN sources[i] : i \in 1 .. n} |->
                    sources[Max({i \in 1 .. n : k \in DOMAIN sources[i]})][k]]
    IN  /\ ~ done
        /\ sources' = <<whole>> \o SubSeq(sources, n + 1, Len(sources))
        /\ UNCHANGED <<start, collected, done>>

Next ==
    \/ ScanStep
    \/ \E n \in 2 .. Len(sources) : Compact(n)

Spec == Init /\ [][Next]_vars

-----------------------------------------------------------------------------

\* What an unbounded scan of the sources returns from a key on.
Rows(from) ==
    LET holders(k) == {i \in DOMAIN sources : k \in DOMAIN sources[i]}
        held == {k \in from .. MaxKey : holders(k) /= {}}
        newest == [k \in held |-> sources[Max(holders(k))][k]]
    IN  Live(newest, held)

TypeOK ==
    /\ \A i \in DOMAIN sources : DOMAIN sources[i] \subseteq ScanKey
    /\ start \in 1 .. MaxKey + 1
    /\ collected \in Seq(ScanKey \X (1 .. NumSources))
    /\ done \in BOOLEAN

\* The loop misses no live row, returns none twice, no deleted or stale one,
\* and in order: what it has handed out and what lies past its cursor are
\* together the rows of the snapshot, across tombstone runs longer than a
\* chunk, windows that overflow only together, and compactions between chunks.
ChunksExact == collected \o (IF done THEN <<>> ELSE Rows(start)) = Rows(1)
=============================================================================
