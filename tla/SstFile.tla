------------------------------ MODULE SstFile -------------------------------
(* What the store writes.  Its keys, as byte sequences: the builders of      *)
(* every family, the prefixes scans are made of, the encodings of indexed    *)
(* values.  And a sorted table on disk with the reads it answers.  An entry  *)
(* is a user key, a version and a value; the file holds entries in the order *)
(* of their internal keys, which is the user key followed by the inverted    *)
(* version, in blocks of ENTRIES_PER_BLOCK.  A version is one byte (8 in the *)
(* code), an offset in the file is the number of an entry.  The memtable     *)
(* keeps the same order and is read here too.                                *)
EXTENDS Integers, SequencesExt, FiniteSetsExt

CONSTANTS ENTRIES_PER_BLOCK,
          ID_BYTES,             \* the width of an identifier, 8 in the code
          GEN_BYTES             \* the width of a generation, 4 in the code

-----------------------------------------------------------------------------
(* Integers in keys.                                                         *)

\* to_be_bytes, at a width.
be(n, w) == [i \in 1 .. w |-> (n \div 256 ^ (w - i)) % 256]
u64(n) == be(n, ID_BYTES)
u32(n) == be(n, GEN_BYTES)
from_be(bytes) == FoldLeft(LAMBDA acc, b : 256 * acc + b, 0, bytes)

SEPARATOR == 58
KeyPrefix ==
    [Object |-> 111, Edge |-> 101, ReverseEdge |-> 114, Vector |-> 118, Unique |-> 117, Queue |-> 113,
     VectorState |-> 115, FieldIndex |-> 105, Generation |-> 103, Catalog |-> 99, Fulltext |-> 102,
     FulltextDoc |-> 108]

\* <tag>:<part>:<part>...
Joined(tag, parts) == FoldLeft(LAMBDA acc, p : acc \o <<SEPARATOR>> \o p, <<tag>>, parts)
Prefix(tag, parts) == Append(Joined(tag, parts), SEPARATOR)

-----------------------------------------------------------------------------
(* Values as indexed.                                                        *)

\* A zero becomes 0 1; 0 0 ends the value.
encode_bytes_for_index(b) ==
    FlattenSeq([i \in DOMAIN b |-> IF b[i] = 0 THEN <<0, 1>> ELSE <<b[i]>>]) \o <<0, 0>>

\* A term without its end: every longer term starts with it.
encode_term_prefix(b) ==
    LET e == encode_bytes_for_index(b) IN SubSeq(e, 1, Len(e) - 2)

\* A signed integer as an unsigned one of the same order: the top bit flipped.
encode_int_for_zone(n) == u64((n + 256 ^ ID_BYTES + 256 ^ ID_BYTES \div 2) % 256 ^ ID_BYTES)

-----------------------------------------------------------------------------
(* KeyBuilder.                                                               *)

object(t, id) == Joined(KeyPrefix.Object, <<u64(t), u64(id)>>)
edge(s, r, t) == Joined(KeyPrefix.Edge, <<u64(s), u64(r), u64(t)>>)
reverse_edge(t, r, s) == Joined(KeyPrefix.ReverseEdge, <<u64(t), u64(r), u64(s)>>)
vector(t, id, f) == Joined(KeyPrefix.Vector, <<u64(t), u64(id), u64(f)>>)
unique_index(t, f, bytes) == Joined(KeyPrefix.Unique, <<u64(t), u64(f), bytes>>)
field_index(t, f, value, id) == Joined(KeyPrefix.FieldIndex, <<u64(t), u64(f), value, u64(id)>>)
field_index_var(t, f, encoded, id) == Joined(KeyPrefix.FieldIndex, <<u64(t), u64(f), encoded \o u64(id)>>)
put_fulltext_prefix(tag, t, f, g) == Prefix(tag, <<u64(t), u64(f), u32(g)>>)
fulltext_posting(t, f, g, encoded, id) == put_fulltext_prefix(KeyPrefix.Fulltext, t, f, g) \o encoded \o u64(id)
fulltext_doc(t, f, g, id) == put_fulltext_prefix(KeyPrefix.FulltextDoc, t, f, g) \o u64(id)
queue_entry(job) == Joined(KeyPrefix.Queue, <<u64(job)>>)
vector_state(t, id, f) == Joined(KeyPrefix.VectorState, <<u64(t), u64(id), u64(f)>>)
object_version(t, id) == Joined(KeyPrefix.Generation, <<u64(t), u64(id)>>)

object_prefix(t) == Prefix(KeyPrefix.Object, <<u64(t)>>)
edge_prefix(s, r) == Prefix(KeyPrefix.Edge, <<u64(s), u64(r)>>)
reverse_edge_prefix(t, r) == Prefix(KeyPrefix.ReverseEdge, <<u64(t), u64(r)>>)
vector_prefix(t) == Prefix(KeyPrefix.Vector, <<u64(t)>>)
field_index_prefix(t, f) == Prefix(KeyPrefix.FieldIndex, <<u64(t), u64(f)>>)
field_index_value_prefix(t, f, value) == Prefix(KeyPrefix.FieldIndex, <<u64(t), u64(f), value>>)
field_index_var_value_prefix(t, f, encoded) == Joined(KeyPrefix.FieldIndex, <<u64(t), u64(f), encoded>>)
fulltext_term_prefix(t, f, g, encoded) == put_fulltext_prefix(KeyPrefix.Fulltext, t, f, g) \o encoded
fulltext_field_prefix(t, f, g) == put_fulltext_prefix(KeyPrefix.Fulltext, t, f, g)
fulltext_field_all_generations_prefix(t, f) == Prefix(KeyPrefix.Fulltext, <<u64(t), u64(f)>>)
fulltext_doc_prefix(t, f, g) == put_fulltext_prefix(KeyPrefix.FulltextDoc, t, f, g)
fulltext_doc_all_generations_prefix(t, f) == Prefix(KeyPrefix.FulltextDoc, <<u64(t), u64(f)>>)
queue_prefix == Prefix(KeyPrefix.Queue, <<>>)
vector_state_type_prefix(t) == Prefix(KeyPrefix.VectorState, <<u64(t)>>)
object_version_prefix == Prefix(KeyPrefix.Generation, <<>>)
all_objects_prefix == Prefix(KeyPrefix.Object, <<>>)
all_edges_prefix == Prefix(KeyPrefix.Edge, <<>>)

\* The window'th 256 jobs: all but the last byte of their ids.
queue_window_prefix(window) == queue_prefix \o SubSeq(u64((window * 256) % 256 ^ ID_BYTES), 1, ID_BYTES - 1)

\* The catalog's keys have a second tag; names are joined by a zero byte.
Sub(tag) == Prefix(KeyPrefix.Catalog, <<<<tag>>>>)
catalog_type(type) == Sub(84) \o type
catalog_field(type, field) == Sub(69) \o type \o <<0>> \o field
catalog_rel(type, field) == Sub(82) \o type \o <<0>> \o field
catalog_next_type == Sub(78) \o <<84>>
catalog_next_field == Sub(78) \o <<69>>
catalog_next_rel == Sub(78) \o <<82>>
catalog_next_migration == Sub(78) \o <<77>>
catalog_migration_log(n) == Sub(71) \o u64(n)
catalog_migration_plan(plan) == Sub(80) \o u64(plan)
catalog_partition_cursor(plan, partition) == Sub(83) \o u64(plan) \o <<partition>>
catalog_quarantine(plan, id) == Sub(81) \o u64(plan) \o u64(id)
catalog_fulltext_marker(t, f) == Sub(88) \o u64(t) \o u64(f)
catalog_format == Sub(70)
catalog_initialized == Sub(73)
catalog_metadata == Sub(77)
catalog_digest == Sub(68)
catalog_migration_version == Sub(86)
catalog_prefix_all == Prefix(KeyPrefix.Catalog, <<>>)
catalog_prefix_type == Sub(84)
catalog_prefix_field == Sub(69)
catalog_prefix_rel == Sub(82)
catalog_migration_log_prefix == Sub(71)
catalog_migration_plan_prefix == Sub(80)
catalog_partition_cursor_prefix == Sub(83)
catalog_quarantine_prefix == Sub(81)
catalog_fulltext_marker_prefix == Sub(88)
catalog_partition_cursor_plan_prefix(plan) == Sub(83) \o u64(plan)
catalog_quarantine_plan_prefix(plan) == Sub(81) \o u64(plan)

-----------------------------------------------------------------------------
(* What is read back from a key; <<>> where the code has None.               *)

Ending(bytes, n) == SubSeq(bytes, Len(bytes) - n + 1, Len(bytes))
FULLTEXT_PREFIX_LEN == 5 + 2 * ID_BYTES + GEN_BYTES

fulltext_object_id(key) ==
    IF Len(key) < FULLTEXT_PREFIX_LEN + ID_BYTES THEN <<>> ELSE <<from_be(Ending(key, ID_BYTES))>>

fulltext_posting_term(key) ==
    LET term == SubSeq(key, FULLTEXT_PREFIX_LEN + 1, Len(key) - ID_BYTES)
    IN  IF Len(key) < FULLTEXT_PREFIX_LEN + 2 + ID_BYTES \/ Ending(term, 2) /= <<0, 0>> THEN <<>> ELSE <<term>>

fulltext_generation(key) ==
    IF Len(key) < FULLTEXT_PREFIX_LEN THEN <<>>
    ELSE <<from_be(SubSeq(key, 5 + 2 * ID_BYTES, 4 + 2 * ID_BYTES + GEN_BYTES))>>

catalog_fulltext_marker_ids(key) ==
    IF Len(key) /= 4 + 2 * ID_BYTES THEN <<>>
    ELSE <<from_be(SubSeq(key, 5, 4 + ID_BYTES)), from_be(Ending(key, ID_BYTES))>>

-----------------------------------------------------------------------------
(* Arena variants append to a shared buffer and return the range they wrote. *)

Pushed(buf, bytes) == [buf |-> buf \o bytes, start |-> Len(buf), end |-> Len(buf) + Len(bytes)]

push_fulltext_prefix(tag, t, f, g) == Prefix(tag, <<u64(t), u64(f), u32(g)>>)
object_into(buf, t, id) == Pushed(buf, Joined(KeyPrefix.Object, <<u64(t), u64(id)>>))
edge_into(buf, s, r, t) == Pushed(buf, Joined(KeyPrefix.Edge, <<u64(s), u64(r), u64(t)>>))
reverse_edge_into(buf, t, r, s) == Pushed(buf, Joined(KeyPrefix.ReverseEdge, <<u64(t), u64(r), u64(s)>>))
object_version_into(buf, t, id) == Pushed(buf, Joined(KeyPrefix.Generation, <<u64(t), u64(id)>>))
unique_index_into(buf, t, f, bytes) == Pushed(buf, Joined(KeyPrefix.Unique, <<u64(t), u64(f), bytes>>))
field_index_into(buf, t, f, value, id) == Pushed(buf, Joined(KeyPrefix.FieldIndex, <<u64(t), u64(f), value, u64(id)>>))
field_index_var_into(buf, t, f, encoded, id) ==
    Pushed(buf, Joined(KeyPrefix.FieldIndex, <<u64(t), u64(f), encoded \o u64(id)>>))
fulltext_posting_into(buf, t, f, g, encoded, id) ==
    Pushed(buf, push_fulltext_prefix(KeyPrefix.Fulltext, t, f, g) \o encoded \o u64(id))
fulltext_doc_into(buf, t, f, g, id) == Pushed(buf, push_fulltext_prefix(KeyPrefix.FulltextDoc, t, f, g) \o u64(id))

-----------------------------------------------------------------------------
(* Sorted tables.                                                            *)

SST_VERSION_COMPRESSED == 6
SST_VERSION_MAX == 6
MAX_VERSION == 255
Miss == <<>>
Err == <<"corrupted", "block">>

\* Byte order, and a proper prefix comes first.
Less(a, b) ==
    \E n \in 0 .. Len(a) :
        /\ n < Len(b)
        /\ \A i \in 1 .. n : a[i] = b[i]
        /\ n = Len(a) \/ a[n + 1] < b[n + 1]
StartsWith(a, prefix) == Len(prefix) <= Len(a) /\ SubSeq(a, 1, Len(prefix)) = prefix

\* InternalKey::new
InternalKey(user_key, version) == Append(user_key, MAX_VERSION - version)
KeyOf(e) == InternalKey(e.key, e.version)

-----------------------------------------------------------------------------
(* The writer.                                                               *)

\* The entries in the order a memtable or a merge feeds them.
Sorted(entries) ==
    LET below(e) == {d \in entries : Less(KeyOf(d), KeyOf(e))}
    IN  [i \in 1 .. Cardinality(entries) |-> CHOOSE e \in entries : Cardinality(below(e)) = i - 1]

Blocks(entries) == (Len(entries) + ENTRIES_PER_BLOCK - 1) \div ENTRIES_PER_BLOCK
Offset(b) == (b - 1) * ENTRIES_PER_BLOCK + 1
BlockAt(p) == (p - 1) \div ENTRIES_PER_BLOCK + 1

\* add: the sparse index has the first key of every block.
add(entries) == [b \in 1 .. Blocks(entries) |-> KeyOf(entries[Offset(b)])]

\* A file opens if its footer is there, its version is known and its last block
\* can be read.
Opens(image) ==
    /\ image.whole /\ image.version \in 1 .. SST_VERSION_MAX
    /\ image.version < SST_VERSION_COMPRESSED \/ Blocks(Sorted(image.entries)) \notin image.damaged

\* finish and open: version 1 has no bloom filter; only compressed blocks can
\* be told damaged.  extra: the keys the filter answers for by accident.
open(image) ==
    LET entries == Sorted(image.entries)
    IN  [entries |-> entries, index |-> add(entries),
         version |-> image.version,
         bloom |-> [all |-> image.version = 1, keys |-> {e.key : e \in image.entries} \cup image.extra],
         damaged |-> IF image.version < SST_VERSION_COMPRESSED THEN {} ELSE image.damaged]

-----------------------------------------------------------------------------
(* The reader.                                                               *)

N(f) == Len(f.entries)
Nblocks(f) == Len(f.index)
might_contain(f, user_key) == f.bloom.all \/ user_key \in f.bloom.keys

\* A compressed block is told damaged by its frame or by what it unpacks to.
decompress_frame(f, b) == b \notin f.damaged

\* block: the positions of one block, none of a damaged one.
block(f, b) == IF decompress_frame(f, b) THEN Offset(b) .. Min({b * ENTRIES_PER_BLOCK, N(f)}) ELSE {}

first_user_key(f) == f.entries[1].key
compute_last_user_key(f) == f.entries[N(f)].key

range_overlaps_sorted(f, keys) ==
    /\ keys /= <<>> /\ N(f) > 0
    /\ ~Less(compute_last_user_key(f), keys[1])
    /\ ~Less(keys[Len(keys)], first_user_key(f))

\* Mutant: the largest prefix must not sort before the first key.
prefix_range_overlaps_sortedPlain(f, prefixes) ==
    /\ prefixes /= <<>> /\ N(f) > 0
    /\ ~Less(compute_last_user_key(f), prefixes[1])
    /\ ~Less(prefixes[Len(prefixes)], first_user_key(f))

prefix_range_overlaps_sorted(f, prefixes) ==
    /\ prefixes /= <<>> /\ N(f) > 0
    /\ ~Less(compute_last_user_key(f), prefixes[1])
    /\ LET largest == prefixes[Len(prefixes)]
       IN  ~Less(largest, first_user_key(f)) \/ StartsWith(first_user_key(f), largest)

\* The last block, from start on, whose first key is not after the search key.
Locate(f, key, start) == Max({b \in start .. Nblocks(f) : ~Less(key, f.index[b])} \cup {start})

locate_block_from(f, user_key, start) == Locate(f, InternalKey(user_key, MAX_VERSION), start)
prefix_start_block_from(f, prefix, start) == Locate(f, InternalKey(prefix, MAX_VERSION), start)
user_key_start_offset(f, start_key) == IF N(f) = 0 THEN 1 ELSE Offset(Locate(f, InternalKey(start_key, MAX_VERSION), 1))
prefix_start_offset(f, prefix) == IF N(f) = 0 THEN 1 ELSE Offset(Locate(f, InternalKey(prefix, MAX_VERSION), 1))

\* get: one internal key, looked for in one block.
get(f, user_key, version) ==
    LET key == InternalKey(user_key, version)
        b == Locate(f, key, 1)
        at == {p \in block(f, b) : KeyOf(f.entries[p]) = key}
    IN  IF ~might_contain(f, user_key) \/ N(f) = 0 \/ Less(key, f.index[1]) THEN Miss
        ELSE IF b \in f.damaged THEN Err
        ELSE IF at = {} THEN Miss ELSE <<f.entries[Min(at)]>>

Visible(e, user_key, version) == e.key = user_key /\ e.version <= version

\* get_versioned: forward from the located block to the first visible entry of
\* the key, or to the first entry that compares above it.
get_versioned(f, user_key, version) ==
    LET from == Locate(f, InternalKey(user_key, MAX_VERSION), 1)
        ends == {p \in Offset(from) .. N(f) : \/ Visible(f.entries[p], user_key, version)
                                              \/ Less(user_key, f.entries[p].key)}
        stop == Min(ends)
        walked == from .. (IF ends = {} THEN Nblocks(f) ELSE BlockAt(stop))
    IN  IF N(f) = 0 \/ ~might_contain(f, user_key) THEN Miss
        ELSE IF walked \cap f.damaged /= {} THEN Err
        ELSE IF ends = {} \/ f.entries[stop].key /= user_key THEN Miss
        ELSE <<f.entries[stop]>>

\* The block a cursor is in once it stands at p, given that it was in b.
Caught(f, b, p) == Max({b} \cup {c \in b .. Nblocks(f) : Offset(c) <= p})

\* A cursor that moved on from an entry below its needle: at a block's end it
\* searches the index again.
Galloped(f, key, b, p) ==
    IF b < Nblocks(f) /\ p >= Offset(b + 1)
    THEN LET c == Locate(f, InternalKey(key, MAX_VERSION), b + 1) IN [b |-> c, p |-> Offset(c)]
    ELSE [b |-> b, p |-> p]

\* Past every older version of the needle.
PastKey(f, p, needle) == Min({q \in p + 1 .. N(f) + 1 : q = N(f) + 1 \/ f.entries[q].key /= needle})

RECURSIVE MultiGet(_, _, _, _, _, _, _)
\* multi_get_versioned's cursor: needle i, block b, position p; b = 0 before
\* the first seek.
MultiGet(f, needles, version, i, b, p, out) ==
    IF i > Len(needles) THEN out
    ELSE LET needle == needles[i]
             miss == MultiGet(f, needles, version, i + 1, b, p, Append(out, Miss))
             seek == locate_block_from(f, needle, 1)
         IN  IF ~might_contain(f, needle) THEN miss
             ELSE IF b = 0 THEN MultiGet(f, needles, version, i, seek, Offset(seek), out)
             ELSE IF p > N(f) THEN miss
             ELSE LET e == f.entries[p]
                      moved == Galloped(f, needle, b, p + 1)
                      past == PastKey(f, p, needle)
                  IN  IF Less(e.key, needle) THEN MultiGet(f, needles, version, i, moved.b, moved.p, out)
                      ELSE IF e.key /= needle THEN miss
                      ELSE IF e.version <= version
                      THEN MultiGet(f, needles, version, i + 1, Caught(f, b, past), past, Append(out, <<e>>))
                      ELSE MultiGet(f, needles, version, i, Caught(f, b, p + 1), p + 1, out)

multi_get_versioned(f, needles, version) ==
    IF N(f) = 0 THEN [i \in DOMAIN needles |-> Miss]
    ELSE IF f.version >= SST_VERSION_COMPRESSED
    THEN LET got == [i \in DOMAIN needles |-> get_versioned(f, needles[i], version)]
         IN  IF Err \in ToSet(got) THEN [i \in DOMAIN needles |-> Err] ELSE got
    ELSE MultiGet(f, needles, version, 1, 0, 0, <<>>)

-----------------------------------------------------------------------------
(* Scans.                                                                    *)

\* SstIterator: block after block, up to the first damaged one.
next(f, start) ==
    LET bad == {b \in BlockAt(start) .. Nblocks(f) : ~decompress_frame(f, b)}
    IN  IF bad = {} THEN N(f) ELSE Offset(Min(bad)) - 1

iter_from(f, start) == SubSeq(f.entries, start, next(f, start))

\* The first visible entry of every run of one user key.
Newest(entries) ==
    FoldLeft(LAMBDA acc, e : IF acc /= <<>> /\ acc[Len(acc)].key = e.key THEN acc ELSE Append(acc, e), <<>>, entries)

\* What a scan sees of the entries it walks: skip what is below the start, stop
\* at the first outside the prefix, keep what the snapshot sees.
Seen(entries, prefix, start_key, version) ==
    LET above == SelectSeq(entries, LAMBDA e : ~Less(e.key, start_key))
        out == {p \in DOMAIN above : ~StartsWith(above[p].key, prefix)}
        inside == IF out = {} THEN above ELSE SubSeq(above, 1, Min(out) - 1)
    IN  SelectSeq(inside, LAMBDA e : e.version <= version)

Taken(entries, prefix, start_key, version, max) ==
    LET got == Newest(Seen(entries, prefix, start_key, version))
    IN  SubSeq(got, 1, Min({max, Len(got)}))

scan_prefix_impl(f, prefix, version, max) ==
    IF max = 0 THEN <<>> ELSE Taken(iter_from(f, prefix_start_offset(f, prefix)), prefix, prefix, version, max)

scan_from_max(f, prefix, start_key, version, max) ==
    IF max = 0 \/ ~StartsWith(start_key, prefix) THEN <<>>
    ELSE Taken(iter_from(f, user_key_start_offset(f, start_key)), prefix, start_key, version, max)

\* The block an entry of the file is in.
BlockOf(f, e) == BlockAt(CHOOSE p \in 1 .. N(f) : f.entries[p] = e)

\* scan_prefix_filtered_v6: pruned blocks are not read at all, and skipping one
\* forgets the key emitted last.
scan_prefix_filtered_v6(f, prefix, version, pruned) ==
    LET from == BlockAt(prefix_start_offset(f, prefix))
        read == {b \in from .. Nblocks(f) : b \notin pruned}
        ok == {b \in read : \A c \in read : c <= b => c \notin f.damaged}
        walked == SelectSeq(f.entries, LAMBDA e : BlockOf(f, e) \in ok)
        same_key(last, e) == last.key = e.key /\ BlockOf(f, last) .. BlockOf(f, e) \cap pruned = {}
    IN  FoldLeft(LAMBDA acc, e : IF acc /= <<>> /\ same_key(Last(acc), e) THEN acc ELSE Append(acc, e),
                 <<>>, Seen(walked, prefix, prefix, version))

RECURSIVE MultiScan(_, _, _, _, _, _, _, _)
\* multi_scan_prefix_versioned's cursor; got: what prefix i has so far.
MultiScan(f, prefixes, version, i, b, p, got, out) ==
    IF i > Len(prefixes) THEN out
    ELSE LET prefix == prefixes[i]
             done == MultiScan(f, prefixes, version, i + 1, b, p, <<>>, Append(out, got))
             seek == prefix_start_block_from(f, prefix, 1)
         IN  IF b = 0 THEN MultiScan(f, prefixes, version, i, seek, Offset(seek), <<>>, out)
             ELSE IF p > N(f) THEN done
             ELSE LET e == f.entries[p]
                      moved == Galloped(f, prefix, b, p + 1)
                      more == IF e.version <= version THEN Newest(Append(got, e)) ELSE got
                  IN  IF Less(e.key, prefix)
                      THEN MultiScan(f, prefixes, version, i, moved.b, moved.p, got, out)
                      ELSE IF StartsWith(e.key, prefix)
                      THEN MultiScan(f, prefixes, version, i, Caught(f, b, p + 1), p + 1, more, out)
                      ELSE done

multi_scan_prefix_versioned(f, prefixes, version) ==
    IF N(f) = 0 THEN [i \in DOMAIN prefixes |-> <<>>]
    ELSE IF f.version >= SST_VERSION_COMPRESSED
    THEN [i \in DOMAIN prefixes |-> scan_prefix_impl(f, prefixes[i], version, N(f))]
    ELSE MultiScan(f, prefixes, version, 1, 0, 0, <<>>, <<>>)

\* try_for_each_entry: everything, or an error.
try_for_each_entry(f) == IF f.damaged = {} THEN f.entries ELSE Err

max_version(f) == IF f.damaged = {} THEN <<Max({0} \cup {f.entries[p].version : p \in 1 .. N(f)})>> ELSE Err

-----------------------------------------------------------------------------
(* The memtable.                                                             *)

\* From the key at the snapshot on; the first entry decides.
MemGet(entries, user_key, version) ==
    LET map == Sorted(entries)
        from == {p \in DOMAIN map : ~Less(KeyOf(map[p]), InternalKey(user_key, version))}
    IN  IF from = {} \/ map[Min(from)].key /= user_key THEN Miss ELSE <<map[Min(from)]>>

MemScan(entries, prefix, version) ==
    LET map == SelectSeq(Sorted(entries), LAMBDA e : ~Less(KeyOf(e), InternalKey(prefix, MAX_VERSION)))
        out == {p \in DOMAIN map : ~StartsWith(map[p].key, prefix)}
        inside == IF out = {} THEN map ELSE SubSeq(map, 1, Min(out) - 1)
    IN  Newest(SelectSeq(inside, LAMBDA e : e.version <= version))
=============================================================================
