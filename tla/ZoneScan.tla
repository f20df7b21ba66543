------------------------------ MODULE ZoneScan ------------------------------
(***************************************************************************)
(* Filtered scans with zone maps (zone.rs, sst.rs scan_prefix_filtered,    *)
(* lsm.rs scan_prefix_filtered_at, database.rs filter scan).               *)
(*                                                                         *)
(* A row has one zone-mapped integer field.  An entry is                   *)
(* [key, version, field], with field 0 for a tombstone.  An SST lists its  *)
(* entries by key, newest version first, in blocks of BlockSize; each      *)
(* block keeps the smallest and largest field value of its entries, and a  *)
(* scan skips the blocks whose bounds exclude the predicate.               *)
(***************************************************************************)
EXTENDS Integers, Sequences, SequencesExt, FiniteSetsExt

CONSTANTS
    Key,        \* object keys, as integers in byte order
    Field,      \* values of the field, positive integers
    BlockSize,  \* entries of a block
    MaxVersion  \* bound on writes

Tombstone == 0
Op == {"Eq", "Ne", "Lt", "Le", "Gt", "Ge"}

VARIABLES
    active,     \* the memtable: a set of entries
    sst_files,  \* SSTs, oldest first: each a sequence of entries
    version     \* versions written so far

vars == <<active, sst_files, version>>

Passes(field, op, target) ==
    CASE op = "Eq" -> field = target
      [] op = "Ne" -> field /= target
      [] op = "Lt" -> field < target
      [] op = "Le" -> field <= target
      [] op = "Gt" -> field > target
      [] op = "Ge" -> field >= target

\* The order of internal keys: user key, then newest version first.
Before(e, f) == e.key < f.key \/ (e.key = f.key /\ e.version > f.version)

BlockOf(i) == (i - 1) \div BlockSize

\* ZoneBuilder: the field values of the block's entries; tombstones have none.
ZoneValues(sst, b) ==
    {sst[i].field : i \in {j \in DOMAIN sst : BlockOf(j) = b}} \ {Tombstone}

\* block_could_match on the block's bounds; no data means it must be scanned.
BlockCouldMatch(sst, b, op, target) ==
    LET values == ZoneValues(sst, b)
        min == Min(values)
        max == Max(values)
    IN  \/ values = {}
        \/ CASE op = "Eq" -> min <= target /\ target <= max
             [] op = "Ne" -> TRUE
             [] op = "Lt" -> min < target
             [] op = "Le" -> min <= target
             [] op = "Gt" -> max > target
             [] op = "Ge" -> max >= target

\* The newest entry at or below snap of each key in a set of entries.
NewestIn(E, snap) ==
    {e \in E : /\ e.version <= snap
               /\ \A f \in E : f.key = e.key /\ f.version <= snap =>
                                   f.version <= e.version}

\* scan_prefix_filtered walks the blocks that could match.  It emits a visible
\* entry unless it is of the key emitted last, and forgets that key when it
\* skips a block; the caller keeps the last entry emitted for each key.
ScanPrefixFiltered(sst, snap, op, target) ==
    LET Skipped(b) == ~ BlockCouldMatch(sst, b, op, target)
        walked == {i \in DOMAIN sst : sst[i].version <= snap
                                        /\ ~ Skipped(BlockOf(i))}
        Emitted(i) ==
            \A j \in walked : j < i /\ sst[j].key = sst[i].key =>
                \E b \in BlockOf(j) .. BlockOf(i) : Skipped(b)
        emitted == {i \in walked : Emitted(i)}
    IN  {sst[i] : i \in {j \in emitted :
            \A n \in emitted : sst[n].key = sst[j].key => n <= j}}

\* Later layers overwrite earlier ones.
Overlay(old, new) == {e \in old : \A f \in new : f.key /= e.key} \cup new

ScanPrefixFilteredAt(snap, op, target) ==
    LET Add(acc, sst) ==
            Overlay(acc, ScanPrefixFiltered(sst, snap, op, target))
    IN  Overlay(FoldLeft(Add, {}, sst_files), NewestIn(active, snap))

\* The engine drops tombstones and evaluates the predicate on each row left.
FilterScan(snap, op, target) ==
    {e \in ScanPrefixFilteredAt(snap, op, target) :
        e.field /= Tombstone /\ Passes(e.field, op, target)}

-----------------------------------------------------------------------------

Init ==
    /\ active = {}
    /\ sst_files = <<>>
    /\ version = 0

Write(k, field) ==
    /\ version < MaxVersion
    /\ version' = version + 1
    /\ active' = active \cup
                    {[key |-> k, version |-> version + 1, field |-> field]}
    /\ UNCHANGED sst_files

Flush ==
    /\ active /= {}
    /\ sst_files' = Append(sst_files, SetToSortSeq(active, Before))
    /\ active' = {}
    /\ UNCHANGED version

\* With an old snapshot open, compaction keeps every version.
Compact ==
    /\ Len(sst_files) >= 2
    /\ sst_files' = <<SetToSortSeq(UNION {ToSet(s) : s \in ToSet(sst_files)},
                                   Before)>>
    /\ UNCHANGED <<active, version>>

Next ==
    \/ \E k \in Key, f \in Field \cup {Tombstone} : Write(k, f)
    \/ Flush
    \/ Compact

Spec == Init /\ [][Next]_vars

-----------------------------------------------------------------------------

Entries == active \cup UNION {ToSet(s) : s \in ToSet(sst_files)}

\* The rows a filter must return: the newest version of each key, if it is a
\* row and satisfies the predicate.
Matching(snap, op, target) ==
    {e \in NewestIn(Entries, snap) :
        e.field /= Tombstone /\ Passes(e.field, op, target)}

TypeOK ==
    /\ \A e \in Entries : /\ e.key \in Key
                          /\ e.version \in 1 .. MaxVersion
                          /\ e.field \in Field \cup {Tombstone}
    /\ version \in 0 .. MaxVersion

\* A row's versions reach over at most two blocks of every SST.
Narrow(k) ==
    \A s \in ToSet(sst_files) :
        LET blocks == {BlockOf(i) : i \in {j \in DOMAIN s : s[j].key = k}}
        IN  \A b, c \in blocks : b - c <= 1

\* Pruning loses no row whose versions reach over at most two blocks of an
\* SST: if it satisfies the predicate at the snapshot it is returned, with its
\* current value, however its other versions are spread over the SSTs.
NarrowRowNotMissed ==
    \A snap \in 0 .. version, op \in Op, t \in Field :
        \A e \in Matching(snap, op, t) :
            Narrow(e.key) => e \in FilterScan(snap, op, t)

\* Pruning is only a pre-filter: a filtered scan returns exactly the rows that
\* satisfy the predicate at the snapshot.
FilteredScanExact ==
    \A snap \in 0 .. version, op \in Op, t \in Field :
        FilterScan(snap, op, t) = Matching(snap, op, t)
=============================================================================
