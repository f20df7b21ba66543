-------------------------------- MODULE Wire --------------------------------
(* What the server and the Rust clients put on the wire and, for an object's *)
(* fields, on disk: values, field maps, objects, the payloads made of them,  *)
(* and frames read from a stream that arrives in pieces.  Integers are W2,   *)
(* W4 and W8 bytes wide (2, 4 and 8 in the code); floats are their bits.     *)
(* Text is a sequence of bytes: it is UTF-8 unless 255 is in it, and it is   *)
(* JSON when it is one of JsonTexts, a JSON value being its compact text.    *)
(* The second half is the TypeScript client's side, an implementation of its *)
(* own, whose decoders return values in the form of the query endpoint       *)
(* (bytes as base64, instants as RFC 3339, JSON parsed).  There bytes that   *)
(* are not UTF-8 become replacement characters, never an error.              *)
EXTENDS Integers, SequencesExt

CONSTANTS W2, W4, W8, MAX_FRAME_PAYLOAD, JsonTexts,
          SCRATCH,  \* the bytes of one polled read
          NAN,      \* the bits of f32::NAN
          YEARS,    \* the instants of the years 0000 to 9999
          DATES     \* the instants a JavaScript Date can hold

be(n, w) == [i \in 1 .. w |-> (n \div 256 ^ (w - i)) % 256]
from_be(bytes) == FoldLeft(LAMBDA acc, b : 256 * acc + b, 0, bytes)
utf8(bytes) == 255 \notin ToSet(bytes)
JsonNull == <<110>>

\* data[pos .. pos + n] and the integer there.
Slice(data, pos, n) == SubSeq(data, pos + 1, pos + n)
Num(data, pos, w) == from_be(Slice(data, pos, w))

\* Refused: an error or nothing, never a guess.  A panic unwinds the reader.
Err == [err |-> TRUE]
Panic == [panic |-> TRUE]

-----------------------------------------------------------------------------
(* Values: a tag and what it tags, a sequence: the bytes of a text, and of   *)
(* the rest the one number (a bool is 0 or 1), none for Null.                *)

ValueTag ==
    [Null |-> 0, String |-> 1, U32 |-> 2, U64 |-> 3, I32 |-> 4, I64 |-> 5, F32 |-> 6, F64 |-> 7, Bool |-> 8,
     Bytes |-> 9, DateTime |-> 10, Json |-> 11]

Known == 0 .. 11
Sized == {ValueTag.String, ValueTag.Bytes, ValueTag.Json}
Signed == {ValueTag.I32, ValueTag.I64, ValueTag.DateTime}
Width(tag) ==
    CASE tag = ValueTag.Null -> 0
      [] tag = ValueTag.Bool -> 1
      [] tag \in {ValueTag.U32, ValueTag.I32, ValueTag.F32} -> W4
      [] OTHER -> W8

Value(tag, v) == [tag |-> tag, v |-> v]

write_value_into(value) ==
    <<value.tag>> \o
    (CASE value.tag = ValueTag.Null -> <<>>
       [] value.tag \in Sized -> be(Len(value.v), W4) \o value.v
       [] OTHER -> be(value.v[1] % 256 ^ Width(value.tag), Width(value.tag)))

\* A fixed-width value from its bytes.
FromBe(tag, bytes) ==
    LET n == from_be(bytes) IN
    CASE tag = ValueTag.Null -> Value(tag, <<>>)
      [] tag = ValueTag.Bool -> Value(tag, <<IF n /= 0 THEN 1 ELSE 0>>)
      [] tag \in Signed /\ bytes[1] >= 128 -> Value(tag, <<n - 256 ^ Len(bytes)>>)
      [] OTHER -> Value(tag, <<n>>)

-----------------------------------------------------------------------------
(* Field maps.  A map is written in some order: here it is a sequence of     *)
(* names and values, read back as a function of the names.                   *)

serialize_fields_into(fields) ==
    be(Len(fields), W2) \o
    FlattenSeq([i \in DOMAIN fields |->
        be(Len(fields[i].name), W2) \o fields[i].name \o write_value_into(fields[i].value)])

\* The same for the disk: it writes the values itself.
serialize_fields_into_bytesmut(fields) ==
    LET Put(v) == IF v.tag \in Sized THEN be(Len(v.v), W4) \o v.v
                  ELSE FlattenSeq([i \in DOMAIN v.v |-> be(v.v[i] % 256 ^ Width(v.tag), Width(v.tag))])
    IN  FoldLeft(LAMBDA buf, f : buf \o be(Len(f.name), W2) \o f.name \o <<f.value.tag>> \o Put(f.value),
                 be(Len(fields), W2), fields)

\* The entry at pos, its value's bytes located but not looked at.
EntryAt(data, pos) ==
    IF pos + W2 > Len(data) THEN Err
    ELSE LET n == Num(data, pos, W2)
             tagged == pos + W2 + n
         IN IF tagged + 1 > Len(data) THEN Err
            ELSE LET name == Slice(data, pos + W2, n)
                     tag == data[tagged + 1]
                     Entry(at, len) == [name |-> name, tag |-> tag, at |-> at, len |-> len]
                 IN IF tag \notin Known THEN Err
                    ELSE IF tag \notin Sized THEN Entry(tagged + 1, Width(tag))
                    ELSE IF tagged + 1 + W4 > Len(data) THEN Err
                    ELSE Entry(tagged + 1 + W4, Num(data, tagged + 1, W4))

Whole(data, e) == e.at + e.len <= Len(data)

\* Mutant: the skip over an entry forgets that Null has no bytes.
SkipNoNull(e) == e.at + (IF e.tag = ValueTag.Null THEN 1 ELSE e.len)

Skip(e) == e.at + e.len

\* The first entry of a name among the next n; the ones before it are skipped by
\* their lengths alone.
RECURSIVE Found(_, _, _, _)
Found(data, name, n, pos) ==
    IF n = 0 THEN Err
    ELSE LET e == EntryAt(data, pos) IN
         IF e = Err \/ e.name = name THEN e ELSE Found(data, name, n - 1, Skip(e))

Find(data, name) ==
    IF Len(data) < W2 THEN Err
    ELSE LET e == Found(data, name, Num(data, 0, W2), W2) IN
         IF e = Err THEN Err ELSE IF Whole(data, e) THEN e ELSE Err

find_bytes_field_in_raw(data, name) ==
    LET e == Find(data, name) IN
    IF e = Err THEN Err ELSE IF e.tag /= ValueTag.Bytes THEN Err ELSE [bytes |-> Slice(data, e.at, e.len)]

\* An integer of any width and sign as u64: a negative one wraps.
find_u64_field_in_raw(data, name) ==
    LET e == Find(data, name) IN
    IF e = Err THEN Err
    ELSE IF e.tag \notin {ValueTag.U32, ValueTag.U64, ValueTag.I32, ValueTag.I64} THEN Err
    ELSE [u64 |-> FromBe(e.tag, Slice(data, e.at, e.len)).v[1] % 256 ^ W8]

\* The value of a sized entry: text must be UTF-8 and JSON must parse, or else
\* there is a stand-in, Err where the reader gives up.
SizedValue(tag, bytes, noText, noJson) ==
    CASE tag = ValueTag.String /\ ~utf8(bytes) -> noText
      [] tag = ValueTag.Json /\ bytes \notin JsonTexts -> noJson
      [] OTHER -> Value(tag, bytes)

ValueOf(data, e, noText, noJson) ==
    LET bytes == Slice(data, e.at, e.len) IN
    IF e.tag \in Sized THEN SizedValue(e.tag, bytes, noText, noJson) ELSE FromBe(e.tag, bytes)

extract_field(data, name) ==
    LET e == Find(data, name) IN IF e = Err THEN Err ELSE ValueOf(data, e, Err, Err)

EmptyText == Value(ValueTag.String, <<>>)
NullJson == Value(ValueTag.Json, JsonNull)
With(fields, name, value) == (name :> value) @@ fields

RECURSIVE Projected(_, _, _, _, _)
Projected(data, wanted, n, pos, fields) ==
    IF n = 0 \/ Cardinality(DOMAIN fields) = Len(wanted) THEN fields
    ELSE LET e == EntryAt(data, pos) IN
         IF e = Err THEN fields
         ELSE IF ~Whole(data, e) THEN fields
         ELSE Projected(data, wanted, n - 1, Skip(e),
                  IF e.name \in ToSet(wanted) /\ utf8(e.name)
                  THEN With(fields, e.name, ValueOf(data, e, EmptyText, NullJson)) ELSE fields)

deserialize_fields_projected(data, wanted) ==
    IF Len(data) < W2 \/ wanted = <<>> THEN <<>> ELSE Projected(data, wanted, Num(data, 0, W2), W2, <<>>)

\* The trusted reader: it indexes without looking, and an unknown tag is Null
\* with nothing skipped.
RECURSIVE Trusted(_, _, _, _)
Trusted(data, n, pos, fields) ==
    IF n = 0 THEN fields
    ELSE IF pos + W2 > Len(data) THEN Panic
    ELSE LET len == Num(data, pos, W2)
             tagged == pos + W2 + len
             name == Slice(data, pos + W2, len)
         IN IF tagged + 1 > Len(data) \/ ~utf8(name) THEN Panic
            ELSE IF data[tagged + 1] \notin Known
                 THEN Trusted(data, n - 1, tagged + 1, With(fields, name, Value(ValueTag.Null, <<>>)))
            ELSE LET e == EntryAt(data, pos) IN
                 IF e = Err THEN Panic
                 ELSE IF ~Whole(data, e) THEN Panic
                 ELSE LET v == ValueOf(data, e, Panic, NullJson) IN
                      IF v = Panic THEN Panic ELSE Trusted(data, n - 1, Skip(e), With(fields, name, v))

deserialize_fields(data) == IF Len(data) < W2 THEN <<>> ELSE Trusted(data, Num(data, 0, W2), W2, <<>>)

\* The reader of what came over the network: every read is checked.
RECURSIVE Checked(_, _, _, _)
Checked(data, n, pos, fields) ==
    IF n = 0 THEN [fields |-> fields, end |-> pos]
    ELSE LET e == EntryAt(data, pos) IN
         IF e = Err THEN Err
         ELSE IF ~utf8(e.name) \/ ~Whole(data, e) THEN Err
         ELSE LET v == ValueOf(data, e, Err, Err) IN
              IF v = Err THEN Err ELSE Checked(data, n - 1, Skip(e), With(fields, e.name, v))

try_deserialize_fields(data, start) ==
    IF start + W2 > Len(data) THEN Err ELSE Checked(data, Num(data, start, W2), start + W2, <<>>)

-----------------------------------------------------------------------------
(* Objects.  raw_fields holds the stored bytes of an object not yet looked   *)
(* into (a sequence of at most one); the wire takes them as they are.        *)

from_raw(type_name, id, raw) == [type_name |-> type_name, id |-> id, fields |-> <<>>, raw_fields |-> <<raw>>]

ensure_fields_deserialized(obj) ==
    IF obj.fields /= <<>> \/ obj.raw_fields = <<>> THEN obj
    ELSE [obj EXCEPT !.fields = deserialize_fields(obj.raw_fields[1])]

\* An object that has no raw bytes has its fields in the order they are written.
encode_object(obj) ==
    be(Len(obj.type_name), W2) \o obj.type_name \o be(obj.id, W8)
    \o (IF obj.raw_fields /= <<>> THEN obj.raw_fields[1] ELSE serialize_fields_into(obj.fields))

decode_object(data, pos) ==
    IF pos + W2 > Len(data) THEN Err
    ELSE LET n == Num(data, pos, W2)
             id == pos + W2 + n
             type_name == Slice(data, pos + W2, n)
         IN IF id > Len(data) \/ ~utf8(type_name) \/ id + W8 > Len(data) THEN Err
            ELSE LET read == try_deserialize_fields(data, id + W8) IN
                 IF read = Err THEN Err
                 ELSE [object |-> [type_name |-> type_name, id |-> Num(data, id, W8), fields |-> read.fields,
                                   raw_fields |-> <<>>],
                       end |-> read.end]

-----------------------------------------------------------------------------
(* Responses: rows are objects with no, one or two scores before each.  A    *)
(* row without a rerank score carries NaN.                                   *)

Rows(rows) == be(Len(rows), W4) \o FlattenSeq(rows)

encode_objects_payload_into(objects) == Rows([i \in DOMAIN objects |-> encode_object(objects[i])])
encode_scored_payload_into(rows) == Rows([i \in DOMAIN rows |-> be(rows[i].score, W4) \o encode_object(rows[i].object)])
encode_reranked_payload_into(rows) ==
    Rows([i \in DOMAIN rows |->
        be(rows[i].score, W4) \o be(IF rows[i].rerank = <<>> THEN NAN ELSE rows[i].rerank[1], W4)
        \o encode_object(rows[i].object)])
encode_single_payload(object) == encode_object(object)

\* n rows of k scores and an object each.
RECURSIVE ScoredRows(_, _, _, _)
ScoredRows(data, pos, n, k) ==
    IF n = 0 THEN [rows |-> <<>>]
    ELSE IF pos + k * W4 > Len(data) THEN Err
    ELSE LET read == decode_object(data, pos + k * W4) IN
         IF read = Err THEN Err
         ELSE LET rest == ScoredRows(data, read.end, n - 1, k) IN
              IF rest = Err THEN Err
              ELSE [rows |-> <<[scores |-> [i \in 1 .. k |-> Num(data, pos + (i - 1) * W4, W4)],
                                object |-> read.object]>> \o rest.rows]

Counted(data, k) == IF Len(data) < W4 THEN Err ELSE ScoredRows(data, W4, Num(data, 0, W4), k)

decode_objects_payload(data) ==
    LET got == Counted(data, 0) IN
    IF got = Err THEN Err ELSE [rows |-> [i \in DOMAIN got.rows |-> got.rows[i].object]]
decode_scored_payload(data) ==
    LET got == Counted(data, 1) IN
    IF got = Err THEN Err
    ELSE [rows |-> [i \in DOMAIN got.rows |-> [object |-> got.rows[i].object, score |-> got.rows[i].scores[1]]]]
decode_reranked_payload(data) ==
    LET got == Counted(data, 2) IN
    IF got = Err THEN Err
    ELSE [rows |-> [i \in DOMAIN got.rows |->
            [object |-> got.rows[i].object, score |-> got.rows[i].scores[1],
             rerank |-> IF got.rows[i].scores[2] = NAN THEN <<>> ELSE <<got.rows[i].scores[2]>>]]]
decode_single_payload(data) == LET read == decode_object(data, 0) IN IF read = Err THEN Err ELSE read.object

-----------------------------------------------------------------------------
(* Requests and short answers.                                               *)

encode_query_payload(query) == be(Len(query), W4) \o query
encode_error_payload_into(msg) == be(Len(msg), W4) \o msg

\* The text a length announces; bytes beyond it are not looked at.
Text(data) ==
    IF Len(data) < W4 THEN Err
    ELSE LET n == Num(data, 0, W4) IN
         IF Len(data) < W4 + n THEN Err
         ELSE IF utf8(Slice(data, W4, n)) THEN [text |-> Slice(data, W4, n)] ELSE Err

decode_query_payload(data) == Text(data)
decode_error_payload(data) == Text(data)

encode_execute_payload(stmt_id) == be(stmt_id, W8)
encode_prepared_payload_into(stmt_id) == be(stmt_id, W8)
encode_unsubscribe_payload(sub_req_id) == be(sub_req_id, W4)
Id(data, w) == IF Len(data) < w THEN Err ELSE [id |-> Num(data, 0, w)]
decode_execute_payload(data) == Id(data, W8)
decode_prepared_payload(data) == Id(data, W8)
decode_unsubscribe_payload(data) == Id(data, W4)

\* A vector's components are little-endian, unlike everything else.
encode_vector_batch_payload(batch) ==
    be(Len(batch.type_name), W2) \o batch.type_name \o be(Len(batch.field_name), W2) \o batch.field_name
    \o Rows([i \in DOMAIN batch.rows |->
            be(batch.rows[i].id, W8) \o be(Len(batch.rows[i].vector), W4)
            \o FlattenSeq([c \in DOMAIN batch.rows[i].vector |-> Reverse(be(batch.rows[i].vector[c], W4))])])

\* A name and where it ends.
ReadStr(data, pos) ==
    IF Len(data) < pos + W2 THEN Err
    ELSE LET n == Num(data, pos, W2)
             s == Slice(data, pos + W2, n)
         IN IF Len(data) < pos + W2 + n \/ ~utf8(s) THEN Err ELSE [s |-> s, end |-> pos + W2 + n]

RECURSIVE VectorRows(_, _, _)
VectorRows(data, pos, n) ==
    IF n = 0 THEN [rows |-> <<>>]
    ELSE IF Len(data) < pos + W8 + W4 THEN Err
    ELSE LET dim == Num(data, pos + W8, W4)
             at == pos + W8 + W4
         IN IF Len(data) < at + dim * W4 THEN Err
            ELSE LET rest == VectorRows(data, at + dim * W4, n - 1) IN
                 IF rest = Err THEN Err
                 ELSE [rows |-> <<[id |-> Num(data, pos, W8),
                                   vector |-> [c \in 1 .. dim |->
                                        from_be(Reverse(Slice(data, at + (c - 1) * W4, W4)))]]>> \o rest.rows]

decode_vector_batch_payload(data) ==
    LET type_name == ReadStr(data, 0) IN IF type_name = Err THEN Err
    ELSE LET field_name == ReadStr(data, type_name.end) IN
         IF field_name = Err THEN Err
         ELSE IF Len(data) < field_name.end + W4 THEN Err
         ELSE LET rows == VectorRows(data, field_name.end + W4, Num(data, field_name.end, W4)) IN
              IF rows = Err THEN Err
              ELSE [type_name |-> type_name.s, field_name |-> field_name.s, rows |-> rows.rows]

-----------------------------------------------------------------------------
(* A subscription's filter: flags, what they announce, and the kinds.        *)

FILTER_FLAG_TYPE == 1
FILTER_FLAG_OBJECT == 2
kind_bit(kind) == CASE kind = "Create" -> 1 [] kind = "Update" -> 2 [] kind = "Delete" -> 4
KindsOf(kinds) == FoldSet(LAMBDA k, acc : kind_bit(k) + acc, 0, kinds)
Bit(byte, bit) == (byte \div bit) % 2 = 1

\* An empty type name is no type filter; type_name and object_id are sequences
\* of at most one, kinds is a set.
encode_subscribe_filter(filter) ==
    LET type_name == IF filter.type_name = << <<>> >> THEN <<>> ELSE filter.type_name IN
    <<(IF type_name = <<>> THEN 0 ELSE FILTER_FLAG_TYPE)
      + (IF filter.object_id = <<>> THEN 0 ELSE FILTER_FLAG_OBJECT)>>
    \o (IF type_name = <<>> THEN <<>> ELSE be(Len(type_name[1]), W2) \o type_name[1])
    \o (IF filter.object_id = <<>> THEN <<>> ELSE be(filter.object_id[1], W8))
    \o <<KindsOf(filter.kinds)>>

decode_subscribe_filter(data) ==
    IF data = <<>> THEN Err
    ELSE IF data[1] > FILTER_FLAG_TYPE + FILTER_FLAG_OBJECT THEN Err
    ELSE LET typed == Bit(data[1], FILTER_FLAG_TYPE)
             name == IF typed THEN ReadStr(data, 1) ELSE [s |-> <<>>, end |-> 1]
         IN IF name = Err THEN Err
            ELSE LET of == Bit(data[1], FILTER_FLAG_OBJECT)
                     last == name.end + (IF of THEN W8 ELSE 0)
                 IN IF (typed /\ name.s = <<>>) \/ Len(data) /= last + 1 THEN Err
                    ELSE IF data[last + 1] > 7 THEN Err
                    ELSE [type_name |-> IF typed THEN <<name.s>> ELSE <<>>,
                          object_id |-> IF of THEN <<Num(data, name.end, W8)>> ELSE <<>>,
                          kinds |-> {k \in {"Create", "Update", "Delete"} : Bit(data[last + 1], kind_bit(k))}]

-----------------------------------------------------------------------------
(* Frames: [length][request][kind][payload], the length not counting itself. *)

HEADER == W4 + 1

write_frame(frame) == be(HEADER + Len(frame.payload), W4) \o be(frame.req_id, W4) \o <<frame.kind>> \o frame.payload

\* The header is reserved first and its length filled in once the payload is there.
write_frame_buffered(frame) ==
    LET buf == [i \in 1 .. W4 + HEADER |-> 0] \o frame.payload
        header == be(HEADER + Len(buf) - (W4 + HEADER), W4) \o be(frame.req_id, W4) \o <<frame.kind>>
    IN  [i \in DOMAIN buf |-> IF i <= W4 + HEADER THEN header[i] ELSE buf[i]]

FrameAt(bytes, off, len) ==
    [req_id |-> Num(bytes, off + W4, W4), kind |-> bytes[off + W4 + HEADER],
     payload |-> Slice(bytes, off + W4 + HEADER, len - HEADER)]

BadLength(len) == len < HEADER \/ len > MAX_FRAME_PAYLOAD + HEADER

\* Two exact reads: the length, then that many bytes.  What is left of the
\* stream stays in it; the end of the stream is an error.
read_frame(stream) ==
    IF Len(stream) < W4 THEN Err
    ELSE LET len == Num(stream, 0, W4) IN
         IF BadLength(len) \/ Len(stream) < W4 + len THEN Err
         ELSE [frame |-> FrameAt(stream, 0, len), rest |-> SubSeq(stream, W4 + len + 1, Len(stream))]

\* The blocking client's pair.
sync_read_frame(stream) ==
    LET len == Num(stream, 0, W4)
        body == Slice(stream, W4, len)
    IN IF Len(stream) < W4 THEN Err
       ELSE IF BadLength(len) \/ Len(stream) < W4 + len THEN Err
       ELSE [frame |-> [req_id |-> Num(body, 0, W4), kind |-> body[HEADER], payload |-> SubSeq(body, HEADER + 1, len)],
             rest |-> SubSeq(stream, W4 + len + 1, Len(stream))]
sync_write_frame(frame) ==
    be(HEADER + Len(frame.payload), W4) \o be(frame.req_id, W4) \o Append(<<>>, frame.kind) \o frame.payload

\* The reader that survives a cancelled read: its buffer is its own.
FrameReader == [buf |-> <<>>, start |-> 0]
None == [none |-> TRUE]

try_parse(r) ==
    LET avail == Len(r.buf) - r.start
        len == Num(r.buf, r.start, W4)
        start == r.start + W4 + len
    IN IF avail < W4 THEN [reader |-> r, got |-> None]
       ELSE IF BadLength(len) THEN [reader |-> r, got |-> Err]
       ELSE IF avail < W4 + len THEN [reader |-> r, got |-> None]
       ELSE [reader |-> IF start = Len(r.buf) THEN FrameReader ELSE [r EXCEPT !.start = start],
             got |-> FrameAt(r.buf, r.start, len)]

compact(r) == [buf |-> SubSeq(r.buf, r.start + 1, Len(r.buf)), start |-> 0]

\* The next frame out of chunks, one chunk a read; none left is the end of the
\* stream.  A call cancelled while it waits leaves the reader as it is here.
RECURSIVE next_frame(_, _)
next_frame(r, chunks) ==
    LET p == try_parse(r) IN
    IF p.got /= None THEN [reader |-> p.reader, got |-> p.got, chunks |-> chunks]
    ELSE LET c == compact(p.reader) IN
         IF chunks = <<>> THEN [reader |-> c, got |-> Err, chunks |-> <<>>]
         ELSE next_frame([c EXCEPT !.buf = @ \o chunks[1]], Tail(chunks))

\* The same for a stream that is polled: a poll reads at most SCRATCH bytes into
\* a buffer of its own and keeps them only once it is ready.
RECURSIVE poll_next_frame(_, _)
poll_next_frame(r, chunks) ==
    LET p == try_parse(r) IN
    IF p.got /= None THEN [reader |-> p.reader, got |-> p.got, chunks |-> chunks]
    ELSE LET c == compact(p.reader) IN
         IF chunks = <<>> THEN [reader |-> c, got |-> Err, chunks |-> <<>>]
         ELSE LET n == Min({SCRATCH, Len(chunks[1])})
                  filled == SubSeq(chunks[1], 1, n)
                  rest == SubSeq(chunks[1], n + 1, Len(chunks[1]))
              IN  poll_next_frame([c EXCEPT !.buf = @ \o filled],
                                  IF rest = <<>> THEN Tail(chunks) ELSE <<rest>> \o Tail(chunks))

-----------------------------------------------------------------------------
(* Values for people: the JSON of the query endpoint and of events, and the  *)
(* lossless envelopes of an export.  A text made of a number or of bytes is  *)
(* the record of what it spells.                                             *)

rfc3339_from_millis(ms) == IF ms \in YEARS THEN [rfc3339 |-> ms] ELSE [decimal |-> ms]

value_to_query_json(value) ==
    CASE value.tag = ValueTag.Bytes -> [string |-> [base64 |-> value.v]]
      [] value.tag = ValueTag.DateTime -> [string |-> rfc3339_from_millis(value.v[1])]
      [] value.tag = ValueTag.String -> [string |-> [text |-> value.v]]
      [] value.tag = ValueTag.Json -> [inline |-> value.v]
      [] value.tag = ValueTag.Bool -> [bool |-> value.v[1]]
      [] value.tag = ValueTag.Null -> [inline |-> JsonNull]
      [] value.tag \in {ValueTag.F32, ValueTag.F64} ->
            IF value.v[1] = NAN THEN [inline |-> JsonNull] ELSE [float |-> value.v[1]]
      [] OTHER -> [number |-> value.v[1]]

EnvelopeTag == <<"null", "str", "u32", "u64", "i32", "i64", "f32", "f64", "bool", "bytes", "datetime", "json">>

\* Integers are decimal, floats the hex digits of their bits.
value_to_json(value) ==
    [t |-> EnvelopeTag[value.tag + 1],
     v |-> CASE value.tag = ValueTag.Null -> [inline |-> JsonNull]
             [] value.tag = ValueTag.String -> [string |-> [text |-> value.v]]
             [] value.tag = ValueTag.Bool -> [bool |-> value.v[1]]
             [] value.tag = ValueTag.Bytes -> [string |-> [base64 |-> value.v]]
             [] value.tag = ValueTag.Json -> [inline |-> value.v]
             [] value.tag \in {ValueTag.F32, ValueTag.F64} ->
                    [string |-> [hex |-> be(value.v[1], Width(value.tag))]]
             [] OTHER -> [string |-> [decimal |-> value.v[1]]]]

Limits(tag) ==
    LET top == 256 ^ Width(tag) IN IF tag \in Signed THEN -(top \div 2) .. (top \div 2) - 1 ELSE 0 .. top - 1

Spells(v, how) == IF "string" \in DOMAIN v THEN how \in DOMAIN v.string ELSE FALSE

value_from_json(env) ==
    IF env.t \notin ToSet(EnvelopeTag) THEN Err
    ELSE LET tag == (CHOOSE i \in DOMAIN EnvelopeTag : EnvelopeTag[i] = env.t) - 1 IN
         CASE tag = ValueTag.Null -> Value(tag, <<>>)
           [] tag = ValueTag.String -> IF Spells(env.v, "text") THEN Value(tag, env.v.string.text) ELSE Err
           [] tag = ValueTag.Bool -> IF "bool" \in DOMAIN env.v THEN Value(tag, <<env.v.bool>>) ELSE Err
           [] tag = ValueTag.Bytes -> IF Spells(env.v, "base64") THEN Value(tag, env.v.string.base64) ELSE Err
           [] tag = ValueTag.Json -> Value(tag, env.v.inline)
           [] tag \in {ValueTag.F32, ValueTag.F64} ->
                IF ~Spells(env.v, "hex") THEN Err
                ELSE IF Len(env.v.string.hex) /= Width(tag) THEN Err
                ELSE Value(tag, <<from_be(env.v.string.hex)>>)
           [] OTHER ->
                IF ~Spells(env.v, "decimal") THEN Err
                ELSE IF env.v.string.decimal \in Limits(tag) THEN Value(tag, <<env.v.string.decimal>>) ELSE Err

fields_to_json(fields) == [n \in DOMAIN fields |-> value_to_json(fields[n])]
fields_from_json(json) ==
    IF \E n \in DOMAIN json : value_from_json(json[n]) = Err THEN Err
    ELSE [n \in DOMAIN json |-> value_from_json(json[n])]

-----------------------------------------------------------------------------
(* The TypeScript client: frames.                                            *)

encodeFrame(frame) == be(HEADER + Len(frame.payload), W4) \o be(frame.req_id, W4) \o <<frame.kind>> \o frame.payload

push(buf, chunk) == IF buf = <<>> THEN chunk ELSE buf \o chunk

next(buf) ==
    LET len == Num(buf, 0, W4) IN
    IF Len(buf) < W4 THEN [buf |-> buf, got |-> None]
    ELSE IF BadLength(len) THEN [buf |-> buf, got |-> Err]
    ELSE IF Len(buf) < W4 + len THEN [buf |-> buf, got |-> None]
    ELSE [buf |-> SubSeq(buf, W4 + len + 1, Len(buf)), got |-> FrameAt(buf, 0, len)]

-----------------------------------------------------------------------------
(* A bounds-checked reader: what was read and where it stands, or an error.  *)

need(buf, pos, n) == pos + n <= Len(buf)
At(v, pos) == [v |-> v, pos |-> pos]

ReaderNum(buf, pos, w) == IF need(buf, pos, w) THEN At(Num(buf, pos, w), pos + w) ELSE Err
ReaderBytes(buf, pos, n) == IF need(buf, pos, n) THEN At(Slice(buf, pos, n), pos + n) ELSE Err

Replaced(bytes) == [i \in DOMAIN bytes |-> IF bytes[i] = 255 THEN 239 ELSE bytes[i]]

\* A length of w bytes and that many bytes.
Prefixed(buf, pos, w) ==
    LET n == ReaderNum(buf, pos, w) IN IF n = Err THEN Err ELSE ReaderBytes(buf, n.pos, n.v)
Utf8(buf, pos, w) ==
    LET b == Prefixed(buf, pos, w) IN IF b = Err THEN Err ELSE At(Replaced(b.v), b.pos)

\* An instant no Date holds, or whose year is not of four digits, stays a number.
rfc3339FromMillis(ms) ==
    IF ms \notin DATES THEN [decimal |-> ms] ELSE IF ms \notin YEARS THEN [decimal |-> ms] ELSE [rfc3339 |-> ms]

SignedOf(tag, n) == IF tag \in Signed /\ n >= 256 ^ Width(tag) \div 2 THEN n - 256 ^ Width(tag) ELSE n

decodeValue(buf, pos) ==
    LET t == ReaderNum(buf, pos, 1) IN
    IF t = Err THEN Err
    ELSE IF t.v \notin Known THEN Err
    ELSE IF t.v = ValueTag.Null THEN At([inline |-> JsonNull], t.pos)
    ELSE IF t.v = ValueTag.Bytes
         THEN LET b == Prefixed(buf, t.pos, W4) IN IF b = Err THEN Err ELSE At([string |-> [base64 |-> b.v]], b.pos)
    ELSE IF t.v \in Sized
         THEN LET s == Utf8(buf, t.pos, W4) IN
              IF s = Err THEN Err
              ELSE IF t.v = ValueTag.String THEN At([string |-> [text |-> s.v]], s.pos)
              ELSE IF s.v \in JsonTexts THEN At([inline |-> s.v], s.pos) ELSE Err
    ELSE LET n == ReaderNum(buf, t.pos, Width(t.v)) IN
         IF n = Err THEN Err
         ELSE At(CASE t.v = ValueTag.Bool -> [bool |-> IF n.v /= 0 THEN 1 ELSE 0]
                   [] t.v = ValueTag.DateTime -> [string |-> rfc3339FromMillis(SignedOf(t.v, n.v))]
                   [] t.v \in {ValueTag.F32, ValueTag.F64} -> [float |-> n.v]
                   [] OTHER -> [number |-> SignedOf(t.v, n.v)], n.pos)

RECURSIVE FieldsFrom(_, _, _, _)
FieldsFrom(buf, pos, n, fields) ==
    IF n = 0 THEN At(fields, pos)
    ELSE LET name == Utf8(buf, pos, W2) IN
         IF name = Err THEN Err
         ELSE LET value == decodeValue(buf, name.pos) IN
              IF value = Err THEN Err ELSE FieldsFrom(buf, value.pos, n - 1, With(fields, name.v, value.v))

decodeFields(buf, pos) ==
    LET count == ReaderNum(buf, pos, W2) IN IF count = Err THEN Err ELSE FieldsFrom(buf, count.pos, count.v, <<>>)

decodeObjectAt(buf, pos) ==
    LET name == Utf8(buf, pos, W2) IN
    IF name = Err THEN Err
    ELSE LET id == ReaderNum(buf, name.pos, W8) IN
         IF id = Err THEN Err
         ELSE LET fields == decodeFields(buf, id.pos) IN
              IF fields = Err THEN Err
              ELSE At([typeName |-> name.v, id |-> id.v, fields |-> fields.v], fields.pos)

-----------------------------------------------------------------------------
(* Payloads of answers.                                                      *)

RECURSIVE RowsFrom(_, _, _, _)
RowsFrom(buf, pos, n, k) ==
    IF n = 0 THEN At(<<>>, pos)
    ELSE IF ~need(buf, pos, k * W4) THEN Err
    ELSE LET read == decodeObjectAt(buf, pos + k * W4) IN
         IF read = Err THEN Err
         ELSE LET rest == RowsFrom(buf, read.pos, n - 1, k) IN
              IF rest = Err THEN Err
              ELSE At(<<[scores |-> [i \in 1 .. k |-> Num(buf, pos + (i - 1) * W4, W4)],
                         object |-> read.v]>> \o rest.v, rest.pos)

Answer(buf, k) ==
    LET count == ReaderNum(buf, 0, W4) IN IF count = Err THEN Err ELSE RowsFrom(buf, count.pos, count.v, k)

decodeObjectsPayload(buf) ==
    LET rows == Answer(buf, 0) IN IF rows = Err THEN Err ELSE [v |-> [i \in DOMAIN rows.v |-> rows.v[i].object]]
decodeScoredPayload(buf) ==
    LET rows == Answer(buf, 1) IN
    IF rows = Err THEN Err
    ELSE [v |-> [i \in DOMAIN rows.v |-> [object |-> rows.v[i].object, score |-> rows.v[i].scores[1]]]]
decodeRerankedPayload(buf) ==
    LET rows == Answer(buf, 2) IN
    IF rows = Err THEN Err
    ELSE [v |-> [i \in DOMAIN rows.v |->
            [object |-> rows.v[i].object, score |-> rows.v[i].scores[1],
             rerank |-> IF rows.v[i].scores[2] = NAN THEN <<>> ELSE <<rows.v[i].scores[2]>>]]]
decodeSinglePayload(buf) == decodeObjectAt(buf, 0)
decodePreparedPayload(buf) == ReaderNum(buf, 0, W8)
decodeErrorPayload(buf) == Utf8(buf, 0, W4)

-----------------------------------------------------------------------------
(* Payloads of requests, and of a mock server's answers.                     *)

encodeQueryPayload(query) == be(Len(query), W4) \o query
encodeExecutePayload(stmtId) == be(stmtId, W8)
encodeUnsubscribePayload(handle) == be(handle, W4)
encodeErrorPayload(message) == be(Len(message), W4) \o message
encodePreparedPayload(stmtId) == be(stmtId, W8)

encodeVectorBatchPayload(batch) ==
    LET Row(r) == be(r.id, W8) \o be(Len(r.vector), W4)
                  \o FlattenSeq([i \in DOMAIN r.vector |-> Reverse(be(r.vector[i], W4))])
    IN  be(Len(batch.type_name), W2) \o batch.type_name \o be(Len(batch.field_name), W2) \o batch.field_name
        \o be(Len(batch.rows), W4) \o FlattenSeq([i \in DOMAIN batch.rows |-> Row(batch.rows[i])])

encodeSubscribeFilter(filter) ==
    LET typed == filter.type_name \notin {<<>>, << <<>> >>}
        of == filter.object_id /= <<>>
    IN  <<(IF typed THEN FILTER_FLAG_TYPE ELSE 0) + (IF of THEN FILTER_FLAG_OBJECT ELSE 0)>>
        \o (IF typed THEN be(Len(filter.type_name[1]), W2) \o filter.type_name[1] ELSE <<>>)
        \o (IF of THEN be(filter.object_id[1], W8) ELSE <<>>)
        \o <<KindsOf(filter.kinds)>>

encodeValueInto(value) ==
    <<value.tag>> \o
    (CASE value.tag = ValueTag.Null -> <<>>
       [] value.tag \in Sized -> be(Len(value.v), W4) \o value.v
       [] OTHER -> be(value.v[1] % 256 ^ Width(value.tag), Width(value.tag)))

encodeFields(fields) ==
    be(Len(fields), W2)
    \o FlattenSeq([i \in DOMAIN fields |->
        be(Len(fields[i].name), W2) \o fields[i].name \o encodeValueInto(fields[i].value)])

encodeObject(typeName, id, fields) == be(Len(typeName), W2) \o typeName \o be(id, W8) \o encodeFields(fields)

encodeObjectsPayload(objects) == be(Len(objects), W4) \o FlattenSeq(objects)
encodeScoredPayload(rows) ==
    be(Len(rows), W4) \o FlattenSeq([i \in DOMAIN rows |-> be(rows[i].score, W4) \o rows[i].object])
encodeRerankedPayload(rows) ==
    be(Len(rows), W4) \o FlattenSeq([i \in DOMAIN rows |->
        be(rows[i].score, W4) \o be(IF rows[i].rerank = <<>> THEN NAN ELSE rows[i].rerank[1], W4) \o rows[i].object])
=============================================================================
