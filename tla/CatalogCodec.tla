---------------------------- MODULE CatalogCodec ----------------------------
(* The catalog's rows as bytes: identity entries, counters, migration plans, *)
(* partition cursors, quarantine records and the migration log.  A row is a  *)
(* format byte, a kind byte and a body; entries and plans are tag-length-    *)
(* value lists, so that a newer release can add tags and an older one keeps  *)
(* what it does not know.  Integers are ID_BYTES wide (8 in the code, and 4   *)
(* the version of a converter), lengths LEN_BYTES (2; 4 for a quarantined    *)
(* value).  Names are sequences of bytes, an optional value is a sequence of *)
(* at most one.                                                              *)
EXTENDS Integers, SequencesExt

CONSTANTS ID_BYTES, LEN_BYTES, MAX_RENAME_HISTORY, MAX_TYPE_CHANGE_HISTORY, MAX_PARALLEL_DEGREE,
          DEFAULT_QUARANTINE_CAP, MAX_QUARANTINE_ERROR_MSG

be(n, w) == [i \in 1 .. w |-> (n \div 256 ^ (w - i)) % 256]
from_be(bytes) == FoldLeft(LAMBDA acc, b : 256 * acc + b, 0, bytes)
u64(n) == be(n, ID_BYTES)
LengthPrefixed(b) == be(Len(b), LEN_BYTES) \o b

RECORD_FORMAT_V1 == 1
Kinds == [IdEntry |-> 1, Counter |-> 2, Marker |-> 3, Plan |-> 4, Cursor |-> 5, Quarantine |-> 6]
Tags ==
    [id |-> 1, assigned_at |-> 2, assigned_by |-> 3, kind |-> 4, status |-> 16, retired_at_ms |-> 17,
     retired_reason |-> 19, previous_names |-> 32, last_renamed_at_ms |-> 33,
     type_change_history |-> 48, last_type_change_at_ms |-> 49]
PlanTags ==
    [type_name |-> 1, field_name |-> 2, field_id |-> 3, src_kind |-> 4, target_kind |-> 5, status |-> 6,
     cursor |-> 7, chunk_size |-> 8, created_at_ms |-> 9, converter_name |-> 10, converter_version |-> 11,
     objects_converted |-> 12, phase |-> 32, cutover_cursor |-> 33, parallel_degree |-> 34,
     id_upper_bound |-> 35, error_policy |-> 36, dry_run |-> 37, error_count |-> 38, quarantine_cap |-> 39]

\* Refused: the reader gets an error, never a guess.
Err == [err |-> TRUE]
Ok(r) == r /= Err

-----------------------------------------------------------------------------
(* Tag-length-value lists.                                                   *)

write_tlv(tag, value) == <<tag>> \o LengthPrefixed(value)

Row(kind, body) == <<RECORD_FORMAT_V1, kind>> \o LengthPrefixed(body)

\* The body of a row of a kind; bytes beyond it are not looked at.
Body(kind, bytes) ==
    IF Len(bytes) < 2 + LEN_BYTES \/ bytes[1] /= RECORD_FORMAT_V1 \/ bytes[2] /= kind THEN Err
    ELSE LET n == from_be(SubSeq(bytes, 3, 2 + LEN_BYTES)) IN
         IF Len(bytes) < 2 + LEN_BYTES + n THEN Err ELSE [body |-> SubSeq(bytes, 3 + LEN_BYTES, 2 + LEN_BYTES + n)]

\* The pairs of a body; a tag below 128 comes once.
RECURSIVE Pairs(_, _)
Pairs(body, seen) ==
    IF body = <<>> THEN [pairs |-> <<>>]
    ELSE IF Len(body) < 1 + LEN_BYTES THEN Err
    ELSE LET tag == body[1]
             n == from_be(SubSeq(body, 2, 1 + LEN_BYTES))
             stop == 1 + LEN_BYTES + n
         IN IF Len(body) < stop \/ tag \in seen THEN Err
            ELSE LET rest == Pairs(SubSeq(body, stop + 1, Len(body)), IF tag < 128 THEN seen \cup {tag} ELSE seen)
                 IN IF ~Ok(rest) THEN Err
                    ELSE [pairs |-> <<[tag |-> tag, value |-> SubSeq(body, 2 + LEN_BYTES, stop)]>> \o rest.pairs]

Read(kind, bytes) ==
    LET b == Body(kind, bytes) IN IF Ok(b) THEN Pairs(b.body, {}) ELSE Err

\* The value of a tag, if it is there; at most one is.  Names are kept as bytes:
\* the UTF-8 check of read_str is left out.
At(pairs, tag) == LET p == SelectSeq(pairs, LAMBDA q : q.tag = tag) IN [i \in DOMAIN p |-> p[i].value]
Has(pairs, tag) == At(pairs, tag) /= <<>>
int(pairs, tag) == LET v == At(pairs, tag) IN [i \in DOMAIN v |-> from_be(v[i])]
The(opt) == opt[1]
Or(opt, default) == IF opt = <<>> THEN default ELSE opt[1]

Unknown(pairs, tags) == SelectSeq(pairs, LAMBDA p : \A t \in DOMAIN tags : tags[t] /= p.tag)
Kept(unknown) == FlattenSeq([i \in DOMAIN unknown |-> write_tlv(unknown[i].tag, unknown[i].value)])

\* A tag's value has the width of its type.
Wide(pairs, tags, names, w) ==
    \A n \in names : \A i \in DOMAIN At(pairs, tags[n]) : Len(At(pairs, tags[n])[i]) = w

-----------------------------------------------------------------------------
(* Identity entries: rows c:T:, c:E: and c:R:.                               *)

\* A tag of an optional integer.
Maybe(tag, opt) == IF opt = <<>> THEN <<>> ELSE write_tlv(tag, u64(opt[1]))

Chain(items) == <<Len(items)>> \o FlattenSeq(items)

encode_id_entry(e) ==
    Row(Kinds.IdEntry,
        write_tlv(Tags.id, u64(e.id)) \o write_tlv(Tags.assigned_at, u64(e.assigned_at))
        \o write_tlv(Tags.assigned_by, <<e.assigned_by>>) \o write_tlv(Tags.kind, <<e.kind>>)
        \o (IF e.status = "Live" THEN <<>>
            ELSE write_tlv(Tags.status, <<1>>) \o Maybe(Tags.retired_at_ms, e.retired_at_ms)
                 \o (IF e.retired_reason = <<>> THEN <<>> ELSE write_tlv(Tags.retired_reason, e.retired_reason)))
        \o (IF e.previous_names = <<>> THEN <<>>
            ELSE write_tlv(Tags.previous_names,
                    Chain([i \in DOMAIN e.previous_names |->
                            LET r == e.previous_names[i] IN LengthPrefixed(r.from) \o LengthPrefixed(r.to) \o u64(r.ms)]))
                 \o Maybe(Tags.last_renamed_at_ms, e.last_renamed_at_ms))
        \o (IF e.type_change_history = <<>> THEN <<>>
            ELSE write_tlv(Tags.type_change_history,
                    Chain([i \in DOMAIN e.type_change_history |->
                            LET r == e.type_change_history[i] IN <<r.from_kind, r.to_kind>> \o u64(r.ms)]))
                 \o Maybe(Tags.last_type_change_at_ms, e.last_type_change_at_ms))
        \o Kept(e.unknown_tlvs))

\* A length and that many bytes off the front, or an error.
Cut(bytes, w) ==
    IF Len(bytes) < w THEN Err
    ELSE LET n == from_be(SubSeq(bytes, 1, w)) IN
         IF Len(bytes) < w + n THEN Err
         ELSE [got |-> SubSeq(bytes, w + 1, w + n), rest |-> SubSeq(bytes, w + n + 1, Len(bytes))]

RECURSIVE Renames(_, _)
Renames(n, bytes) ==
    IF n = 0 THEN [chain |-> <<>>]
    ELSE LET from == Cut(bytes, LEN_BYTES) IN IF ~Ok(from) THEN Err
    ELSE LET to == Cut(from.rest, LEN_BYTES) IN IF ~Ok(to) \/ Len(to.rest) < ID_BYTES THEN Err
    ELSE LET more == Renames(n - 1, SubSeq(to.rest, ID_BYTES + 1, Len(to.rest))) IN
         IF ~Ok(more) THEN Err
         ELSE [chain |-> <<[from |-> from.got, to |-> to.got, ms |-> from_be(SubSeq(to.rest, 1, ID_BYTES))]>> \o more.chain]

decode_rename_chain(v) ==
    IF v = <<>> \/ v[1] = 0 \/ v[1] > MAX_RENAME_HISTORY THEN Err ELSE Renames(v[1], Tail(v))

decode_type_change_chain(v) ==
    LET w == 2 + ID_BYTES IN
    IF v = <<>> \/ v[1] = 0 \/ v[1] > MAX_TYPE_CHANGE_HISTORY \/ Len(v) < 1 + v[1] * w THEN Err
    ELSE [chain |-> [i \in 1 .. v[1] |->
            LET at == 1 + (i - 1) * w IN
            [from_kind |-> v[at + 1], to_kind |-> v[at + 2], ms |-> from_be(SubSeq(v, at + 3, at + w))]]]

\* The chain of an optional tag.
ChainOf(opt, decoded) == IF opt = <<>> THEN [chain |-> <<>>] ELSE decoded

decode_id_entry(bytes) ==
    LET r == Read(Kinds.IdEntry, bytes) IN
    IF ~Ok(r) THEN Err
    ELSE LET p == r.pairs
             N(name) == int(p, Tags[name])
             names == At(p, Tags.previous_names)
             changes == At(p, Tags.type_change_history)
             renamed == ChainOf(names, IF names = <<>> THEN Err ELSE decode_rename_chain(The(names)))
             retyped == ChainOf(changes, IF changes = <<>> THEN Err ELSE decode_type_change_chain(The(changes)))
             dead == N("status") = <<1>>
         IN IF \/ ~Wide(p, Tags, {"id", "assigned_at", "retired_at_ms", "last_renamed_at_ms",
                                  "last_type_change_at_ms"}, ID_BYTES)
               \/ ~Wide(p, Tags, {"assigned_by", "kind", "status", "retired_reason"}, 1)
               \/ \E n \in {"id", "assigned_at", "assigned_by", "kind"} : ~Has(p, Tags[n])
               \/ Or(N("status"), 0) \notin {0, 1} \/ Or(N("retired_reason"), 1) \notin {1, 2}
               \/ ~Ok(renamed) \/ ~Ok(retyped)
               \/ dead /\ (N("retired_at_ms") = <<>> \/ N("retired_reason") = <<>>)
            THEN Err
            ELSE [id |-> The(N("id")), assigned_at |-> The(N("assigned_at")),
                  assigned_by |-> The(N("assigned_by")), kind |-> The(N("kind")),
                  status |-> IF dead THEN "Tombstoned" ELSE "Live",
                  retired_at_ms |-> N("retired_at_ms"), retired_reason |-> N("retired_reason"),
                  previous_names |-> renamed.chain, last_renamed_at_ms |-> N("last_renamed_at_ms"),
                  type_change_history |-> retyped.chain,
                  last_type_change_at_ms |-> N("last_type_change_at_ms"), unknown_tlvs |-> Unknown(p, Tags)]

-----------------------------------------------------------------------------
(* Migration plans: rows c:P:.                                               *)

Bytes1 == {"src_kind", "target_kind", "status", "phase", "error_policy", "dry_run"}
Names == {"type_name", "field_name", "converter_name"}
Required ==
    Names \cup {"field_id", "src_kind", "target_kind", "status", "cursor", "chunk_size", "created_at_ms",
                "converter_version", "objects_converted"}

\* What a plan written by an earlier release does not say.
Defaults ==
    [phase |-> 0, cutover_cursor |-> 0, id_upper_bound |-> 0, error_policy |-> 0, dry_run |-> 0,
     error_count |-> 0, quarantine_cap |-> DEFAULT_QUARANTINE_CAP]

PlanValue(plan, n) ==
    CASE n \in Names \cup {"parallel_degree"} -> plan[n] [] n \in Bytes1 -> <<plan[n]>> [] OTHER -> u64(plan[n])

\* The tags a plan is written with, in the order of PlanTags.
Written(plan) ==
    LET order == <<"type_name", "field_name", "field_id", "src_kind", "target_kind", "status", "cursor",
                   "chunk_size", "created_at_ms", "converter_name", "converter_version", "objects_converted",
                   "phase", "cutover_cursor">>
    IN order \o (IF plan.parallel_degree = <<>> THEN <<>> ELSE <<"parallel_degree", "id_upper_bound">>)
       \o <<"error_policy", "dry_run", "error_count", "quarantine_cap">>

encode_migration_plan(plan) ==
    LET w == Written(plan) IN
    Row(Kinds.Plan,
        FlattenSeq([i \in DOMAIN w |-> write_tlv(PlanTags[w[i]], PlanValue(plan, w[i]))])
        \o Kept(plan.unknown_tlvs))

\* from_byte of the status, the phase and the error policy.
KnownBytes == [status |-> 0 .. 6, phase |-> 0 .. 2, error_policy |-> 0 .. 2]

decode_migration_plan(bytes) ==
    LET r == Read(Kinds.Plan, bytes) IN
    IF ~Ok(r) THEN Err
    ELSE LET p == r.pairs
             N(n) == int(p, PlanTags[n])
             ints == DOMAIN PlanTags \ (Names \cup Bytes1 \cup {"parallel_degree"})
             Value(n) == CASE n = "parallel_degree" -> N(n)
                           [] n \in Names -> The(At(p, PlanTags[n]))
                           [] n \in Required \ Names -> The(N(n))
                           [] n = "dry_run" -> IF Or(N(n), 0) = 0 THEN 0 ELSE 1
                           [] OTHER -> Or(N(n), Defaults[n])
         IN IF \/ ~Wide(p, PlanTags, ints, ID_BYTES) \/ ~Wide(p, PlanTags, Bytes1 \cup {"parallel_degree"}, 1)
               \/ \E n \in Required : ~Has(p, PlanTags[n])
               \/ \E n \in DOMAIN KnownBytes : Has(p, PlanTags[n]) /\ The(N(n)) \notin KnownBytes[n]
               \/ Or(N("parallel_degree"), 1) \notin 1 .. MAX_PARALLEL_DEGREE
            THEN Err
            ELSE [n \in DOMAIN PlanTags \cup {"unknown_tlvs"} |->
                    IF n = "unknown_tlvs" THEN Unknown(p, PlanTags) ELSE Value(n)]

-----------------------------------------------------------------------------
(* Rows of a fixed layout.                                                   *)

encode_counter(n) == <<RECORD_FORMAT_V1, Kinds.Counter>> \o u64(n)
decode_counter(b) ==
    IF Len(b) < 2 + ID_BYTES \/ b[1] /= RECORD_FORMAT_V1 \/ b[2] /= Kinds.Counter THEN Err
    ELSE [n |-> from_be(SubSeq(b, 3, 2 + ID_BYTES))]

encode_format_version(n) == u64(n)
decode_format_version(b) == IF Len(b) /= ID_BYTES THEN Err ELSE [n |-> from_be(b)]

encode_partition_cursor(c) ==
    <<RECORD_FORMAT_V1, Kinds.Cursor>> \o u64(c.cursor) \o u64(c.objects_converted) \o u64(c.errors)
    \o <<IF c.done THEN 1 ELSE 0>>

decode_partition_cursor(b) ==
    LET U(i) == from_be(SubSeq(b, 3 + i * ID_BYTES, 2 + (i + 1) * ID_BYTES)) IN
    IF Len(b) /= 3 + 3 * ID_BYTES THEN Err
    ELSE IF b[1] /= RECORD_FORMAT_V1 \/ b[2] /= Kinds.Cursor \/ b[Len(b)] \notin {0, 1} THEN Err
    ELSE [cursor |-> U(0), objects_converted |-> U(1), errors |-> U(2), done |-> b[Len(b)] = 1]

\* The message is cut at the last whole character within the limit; a byte from
\* 128 to 191 continues a character.
CharBoundary(s, n) == n \in {0, Len(s)} \/ s[n + 1] \notin 128 .. 191
Capped(msg) ==
    IF Len(msg) <= MAX_QUARANTINE_ERROR_MSG THEN msg
    ELSE SubSeq(msg, 1, CHOOSE n \in 0 .. MAX_QUARANTINE_ERROR_MSG :
            CharBoundary(msg, n) /\ \A k \in n + 1 .. MAX_QUARANTINE_ERROR_MSG : ~CharBoundary(msg, k))

encode_quarantine_record(q) ==
    <<RECORD_FORMAT_V1, Kinds.Quarantine>> \o u64(q.errored_at_ms)
    \o be(Len(q.source_value), 2 * LEN_BYTES) \o q.source_value
    \o LengthPrefixed(Capped(q.error_msg)) \o LengthPrefixed(q.attempted_converter_name)

decode_quarantine_record(b) ==
    IF Len(b) < 2 + ID_BYTES + 2 * LEN_BYTES \/ b[1] /= RECORD_FORMAT_V1 \/ b[2] /= Kinds.Quarantine THEN Err
    ELSE LET value == Cut(SubSeq(b, 3 + ID_BYTES, Len(b)), 2 * LEN_BYTES) IN IF ~Ok(value) THEN Err
    ELSE LET msg == Cut(value.rest, LEN_BYTES) IN IF ~Ok(msg) THEN Err
    ELSE LET name == Cut(msg.rest, LEN_BYTES) IN IF ~Ok(name) THEN Err
    ELSE [source_value |-> value.got, errored_at_ms |-> from_be(SubSeq(b, 3, 2 + ID_BYTES)),
          error_msg |-> msg.got, attempted_converter_name |-> name.got]

encode_migration_log_entry(e) == LengthPrefixed(e.name) \o u64(e.ms)
decode_migration_log_entry(b) ==
    LET name == Cut(b, LEN_BYTES) IN
    IF ~Ok(name) \/ (Ok(name) /\ Len(name.rest) < ID_BYTES) THEN Err
    ELSE [name |-> name.got, ms |-> from_be(SubSeq(name.rest, 1, ID_BYTES))]

-----------------------------------------------------------------------------
(* By the name of the row.                                                   *)

Encode(of, r) ==
    CASE of = "IdEntry" -> encode_id_entry(r) [] of = "Plan" -> encode_migration_plan(r)
      [] of = "Cursor" -> encode_partition_cursor(r) [] of = "Quarantine" -> encode_quarantine_record(r)
      [] of = "Log" -> encode_migration_log_entry(r) [] of = "Counter" -> encode_counter(r.n)
      [] of = "Version" -> encode_format_version(r.n)

Decode(of, b) ==
    CASE of = "IdEntry" -> decode_id_entry(b) [] of = "Plan" -> decode_migration_plan(b)
      [] of = "Cursor" -> decode_partition_cursor(b) [] of = "Quarantine" -> decode_quarantine_record(b)
      [] of = "Log" -> decode_migration_log_entry(b) [] of = "Counter" -> decode_counter(b)
      [] of = "Version" -> decode_format_version(b)

\* What a reader gets back of a row: the message of a quarantined row is cut.
AsStored(of, r) == IF of = "Quarantine" THEN [r EXCEPT !.error_msg = Capped(@)] ELSE r
=============================================================================
