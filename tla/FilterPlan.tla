------------------------------ MODULE FilterPlan -----------------------------
(***************************************************************************)
(* Type.filter(predicate): the access-path picker of the query executor    *)
(* (crates/rhypedb-query/src/executor.rs: plan_filter_scan and below) and  *)
(* the filtered scans of the engine that it picks from                     *)
(* (crates/rhypedb-engine/src/database.rs: filter_scan_at and its kin),    *)
(* against the full scan that evaluates the predicate on every object.     *)
(*                                                                         *)
(* A database is the schema of one type, which gives for each field its    *)
(* scalar type and whether it is @indexed and @unique, and two layers of   *)
(* writes, the older on disk: functions from ids to fields, or Dead.       *)
(* A value has a kind and a number; the numbers of strings give their      *)
(* order.  Floats are whole, and neg is the sign bit, which tells -0.0     *)
(* from 0.0.                                                               *)
(***************************************************************************)
EXTENDS SequencesExt, Integers

CONSTANTS
    Dead,       \* a tombstone
    Rfc3339,    \* the strings that are dates, a function to their millis
    Contained,  \* pairs <<string, needle>>
    Empty       \* the payload of an index entry older than covering entries

Value(k, v) == [k |-> k, v |-> v, neg |-> v < 0]
NegZero(k) == [k |-> k, v |-> 0, neg |-> TRUE]

Integral == {"U32", "I64", "DateTime"}
NoLimit == 99

-----------------------------------------------------------------------------
(* The range scans of the LSM tree (crates/rhypedb-storage/src/lsm.rs:     *)
(* scan_prefix_at and, under a pushed LIMIT, scan_prefix_at_limited and    *)
(* scan_from_at_limited).  A layer is a function from the keys it holds,   *)
(* numbers in key order, to their newest visible value there.  Layers go   *)
(* from the oldest SST file to the active memtable.                        *)

Ascending(keys) == SetToSortSeq(keys, LAMBDA a, b : a < b)
FirstOf(keys, n) == {k \in keys : Cardinality({q \in keys : q < k}) < n}

\* scan_prefix_max and scan_from_max: the first n keys of a layer from start on,
\* tombstones included.
scan_max(layer, start, n) ==
    Restrict(layer, FirstOf({k \in DOMAIN layer : k >= start}, n))

\* A newer layer hides the keys of an older one.
MergeLayers(layers) == FoldLeft(LAMBDA merged, layer : layer @@ merged, <<>>, layers)

Rows(merged, n) ==
    LET live == {k \in DOMAIN merged : merged[k] /= Dead}
        keys == Ascending(FirstOf(live, n))
    IN  [i \in DOMAIN keys |-> [key |-> keys[i], val |-> merged[keys[i]]]]

scan_from_at_limited(layers, start, n) ==
    Rows(MergeLayers([i \in DOMAIN layers |-> scan_max(layers[i], start, n)]), n)

\* The scan without a bound.
scan_prefix_at(layers) ==
    LET merged == MergeLayers(layers) IN Rows(merged, Cardinality(DOMAIN merged))

-----------------------------------------------------------------------------
(* Rows and index entries.                                                 *)

\* The object as of a layer.
AsOf(db, i, o) ==
    LET writes == {j \in 1 .. i : o \in DOMAIN db.layers[j]}
    IN  IF writes = {} THEN Dead ELSE db.layers[Max(writes)][o]

Ids(db) == UNION {DOMAIN db.layers[i] : i \in DOMAIN db.layers}
Fields(db, o) == AsOf(db, Len(db.layers), o)

\* scan_type: the objects in the order of their ids.
scan_type(db) ==
    LET ids == Ascending({o \in Ids(db) : Fields(db, o) /= Dead})
    IN  [i \in DOMAIN ids |-> [id |-> ids[i], fields |-> Fields(db, ids[i])]]

\* encode_f64_for_index: negative numbers, -0.0 among them, below the others.
encode_f64_for_index(v) == IF v.neg THEN v.v - 1 ELSE v.v

\* build_field_index_key, without the id: the place of a value in the index of
\* a field of this type, if it has one.
Encodes(ty, v) == v.k = ty /\ ty \in Integral \cup {"F64", "String", "Bool"}
Encoded(v) == IF v.k = "F64" THEN encode_f64_for_index(v) ELSE v.v

\* Values from -49 on, ids up to 9.
IndexKey(code, o) == (code + 50) * 10 + o
CodeOf(key) == key \div 10 - 50
IdOf(key) == key % 10

EntryKeys(db, f, o, fields) ==
    IF fields /= Dead /\ f \in DOMAIN fields /\ Encodes(db.schema[f].ty, fields[f])
    THEN {IndexKey(Encoded(fields[f]), o)} ELSE {}

\* The i: entries that the writes of a layer put and delete.
IndexLayer(db, f, i) ==
    LET now(o) == EntryKeys(db, f, o, AsOf(db, i, o))
        before(o) == EntryKeys(db, f, o, AsOf(db, i - 1, o))
        ids == DOMAIN db.layers[i]
        keys == UNION {now(o) \cup before(o) : o \in ids}
    IN  [k \in keys |-> IF k \notin now(IdOf(k)) THEN Dead
                        ELSE IF db.legacy /\ i = 1 THEN Empty ELSE AsOf(db, i, IdOf(k))]

IndexLayers(db, f) == [i \in DOMAIN db.layers |-> IndexLayer(db, f, i)]

\* The holder of a u: row.  An update to null leaves the row behind.
UniqueHolders(db, f, v) ==
    LET has(i, o) == AsOf(db, i, o) /= Dead /\ f \in DOMAIN AsOf(db, i, o) /\ AsOf(db, i, o)[f] = v
        now == {o \in Ids(db) : has(Len(db.layers), o)}
        left == {o \in Ids(db) : /\ \E i \in DOMAIN db.layers : has(i, o)
                                 /\ Fields(db, o) /= Dead /\ Fields(db, o)[f].k = "Null"}
    IN  IF now /= {} THEN now ELSE left

-----------------------------------------------------------------------------
(* Predicates over fields.                                                 *)

Compare(f, op, lit) == [is |-> "compare", f |-> f, op |-> op, lit |-> lit]
HasText(f, needle) == [is |-> "contains", f |-> f, needle |-> needle]
And(p, q) == [is |-> "and", l |-> p, r |-> q]
Or(p, q) == [is |-> "or", l |-> p, r |-> q]

compare_ord(a, op, b) ==
    CASE op = "==" -> a = b [] op = "!=" -> a /= b [] op = "<" -> a < b
      [] op = "<=" -> a <= b [] op = ">" -> a > b [] op = ">=" -> a >= b

compare_values(v, op, lit) ==
    CASE lit.k = "Null" -> (op = "==" /\ v.k = "Null") \/ (op = "!=" /\ v.k /= "Null")
      [] v.k \in {"U32", "I64", "F64"} /\ lit.k \in {"Int", "Float"} -> compare_ord(v.v, op, lit.v)
      [] v.k = "DateTime" /\ lit.k = "Int" -> compare_ord(v.v, op, lit.v)
      [] v.k = "DateTime" /\ lit.k = "String" ->
            lit.v \in DOMAIN Rfc3339 /\ compare_ord(v.v, op, Rfc3339[lit.v])
      [] v.k = "String" /\ lit.k = "String" -> compare_ord(v.v, op, lit.v)
      [] v.k = "Bool" /\ lit.k = "Bool" -> op \in {"==", "!="} /\ compare_ord(v.v, op, lit.v)
      [] OTHER -> FALSE

RECURSIVE evaluate_predicate(_, _)
evaluate_predicate(p, fields) ==
    CASE p.is = "compare" -> p.f \in DOMAIN fields /\ compare_values(fields[p.f], p.op, p.lit)
      [] p.is = "contains" ->
            p.f \in DOMAIN fields /\ fields[p.f].k = "String" /\ <<fields[p.f].v, p.needle>> \in Contained
      [] p.is = "and" -> evaluate_predicate(p.l, fields) /\ evaluate_predicate(p.r, fields)
      [] p.is = "or" -> evaluate_predicate(p.l, fields) \/ evaluate_predicate(p.r, fields)

\* Only strings have contains; the scan is not reached otherwise.
RECURSIVE validate_predicate_for_type(_, _)
validate_predicate_for_type(db, p) ==
    CASE p.is = "compare" -> TRUE
      [] p.is = "contains" -> p.f \in DOMAIN db.schema /\ db.schema[p.f].ty = "String"
      [] OTHER -> validate_predicate_for_type(db, p.l) /\ validate_predicate_for_type(db, p.r)

Filtered(rows, p) == SelectSeq(rows, LAMBDA r : evaluate_predicate(p, r.fields))

-----------------------------------------------------------------------------
(* The engine's scans.  limit is NoLimit or the number of rows that will   *)
(* do.                                                                     *)

Take(rows, n) == SubSeq(rows, 1, Min({n, Len(rows)}))

\* filter_scan_fallback, and the zone-map scan, which skips no row that passes
\* (ZoneScan): the type of the field does not matter, the kind of its value does.
filter_scan_fallback(db, f, kinds, op, n, limit) ==
    Take(SelectSeq(scan_type(db), LAMBDA r : /\ f \in DOMAIN r.fields /\ r.fields[f].k \in kinds
                                             /\ compare_ord(r.fields[f].v, op, n)),
         limit)

\* The payloads first; the entries without one are looked up, in id order.
Materialize(db, entries) ==
    LET covered == SelectSeq(entries, LAMBDA e : e.val /= Empty)
        bare == Ascending({IdOf(entries[i].key) : i \in {j \in DOMAIN entries : entries[j].val = Empty}})
        found == SelectSeq(bare, LAMBDA o : Fields(db, o) /= Dead)
    IN  [i \in DOMAIN covered |-> [id |-> IdOf(covered[i].key), fields |-> covered[i].val]]
            \o [i \in DOMAIN found |-> [id |-> found[i], fields |-> Fields(db, found[i])]]

\* filter_scan_via_index: a bound is pushed into the storage scan, save for !=.
Entries(db, f, op, code, limit) ==
    LET layers == IndexLayers(db, f)
        within == [i \in DOMAIN layers |->
                     Restrict(layers[i], {k \in DOMAIN layers[i] : CodeOf(k) = code})]
    IN  CASE op = "==" /\ limit = NoLimit -> scan_prefix_at(within)
          [] op = "==" -> scan_from_at_limited(within, 0, limit)
          [] op = ">" /\ limit /= NoLimit -> scan_from_at_limited(layers, IndexKey(code + 1, 0), limit)
          [] op = ">=" /\ limit /= NoLimit -> scan_from_at_limited(layers, IndexKey(code, 0), limit)
          [] op \in {"<", "<="} /\ limit /= NoLimit -> scan_from_at_limited(layers, 0, limit)
          [] OTHER -> scan_prefix_at(layers)

\* filter_scan_via_index_var pushes a bound for == only.
EntriesVar(db, f, op, code, limit) ==
    Entries(db, f, op, code, IF op = "==" THEN limit ELSE NoLimit)

Passing(entries, op, code, limit) ==
    Take(SelectSeq(entries, LAMBDA e : compare_ord(CodeOf(e.key), op, code)), limit)

filter_scan_via_index(db, f, op, code, limit) ==
    Materialize(db, Passing(Entries(db, f, op, code, limit), op, code, limit))

filter_scan_via_index_var(db, f, op, code, limit) ==
    Materialize(db, Passing(EntriesVar(db, f, op, code, limit), op, code, limit))

\* An integer out of the field's domain has no place in its index.
InDomain(ty, n) == ty \in {"I64", "DateTime"} \/ (ty = "U32" /\ n >= 0)

filter_scan_at(db, f, op, n, limit) ==
    LET ty == db.schema[f].ty
    IN  IF ~InDomain(ty, n)
        THEN filter_scan_fallback(db, f, Integral \cup {"F64"}, op, n, limit)
        ELSE IF db.schema[f].indexed THEN filter_scan_via_index(db, f, op, n, limit)
        ELSE filter_scan_fallback(db, f, Integral, op, n, limit)

filter_scan_str_at(db, f, op, lit, limit) ==
    IF db.schema[f].indexed /\ db.schema[f].ty = "String"
    THEN filter_scan_via_index_var(db, f, op, lit.v, limit)
    ELSE filter_scan_fallback(db, f, {"String"}, op, lit.v, limit)

\* Here, false is less than true.
filter_scan_bool_at(db, f, op, lit, limit) ==
    IF db.schema[f].indexed /\ db.schema[f].ty = "Bool"
    THEN filter_scan_via_index(db, f, op, lit.v, limit)
    ELSE filter_scan_fallback(db, f, {"Bool"}, op, lit.v, limit)

filter_scan_float_at(db, f, op, lit, limit) ==
    IF db.schema[f].indexed /\ db.schema[f].ty = "F64"
    THEN filter_scan_via_index(db, f, op, encode_f64_for_index(lit), limit)
    ELSE filter_scan_fallback(db, f, {"U32", "I64", "F64"}, op, lit.v, limit)

-----------------------------------------------------------------------------
(* The picker.  No is Ok(None): the caller scans the type.                 *)

No == [some |-> FALSE, rows |-> <<>>]
Some(rows) == [some |-> TRUE, rows |-> rows]

\* A field that the schema does not have makes the scan fail.
Knows(db, p) == p.f \in DOMAIN db.schema

try_filter_scan(db, p, limit) ==
    LET ty == db.schema[p.f].ty  lit == p.lit
    IN  IF p.is /= "compare" THEN No
        ELSE CASE ty = "DateTime" /\ lit.k = "Int" -> Some(filter_scan_at(db, p.f, p.op, lit.v, limit))
               [] ty = "DateTime" /\ lit.k = "String" /\ lit.v \in DOMAIN Rfc3339 ->
                     Some(filter_scan_at(db, p.f, p.op, Rfc3339[lit.v], limit))
               [] ty = "DateTime" -> No
               [] lit.k = "Int" -> Some(filter_scan_at(db, p.f, p.op, lit.v, limit))
               [] lit.k = "String" -> Some(filter_scan_str_at(db, p.f, p.op, lit, limit))
               [] lit.k = "Bool" -> Some(filter_scan_bool_at(db, p.f, p.op, lit, limit))
               [] lit.k = "Float" -> Some(filter_scan_float_at(db, p.f, p.op, lit, limit))
               [] OTHER -> No

\* literal_to_value for the types that a unique probe takes; Dead: no value.
literal_to_value(lit, ty) ==
    CASE lit.k = "Int" /\ InDomain(ty, lit.v) -> Value(ty, lit.v)
      [] lit.k = "String" /\ ty = "String" -> Value("String", lit.v)
      [] lit.k = "String" /\ ty = "DateTime" /\ lit.v \in DOMAIN Rfc3339 ->
            Value("DateTime", Rfc3339[lit.v])
      [] lit.k = "Bool" /\ ty = "Bool" -> Value("Bool", lit.v)
      [] OTHER -> Dead

\* At most one row, which may no longer hold the value.
unique_eq_probe(db, p) ==
    IF p.is /= "compare" \/ p.op /= "==" \/ ~Knows(db, p) THEN No
    ELSE LET v == literal_to_value(p.lit, db.schema[p.f].ty)
         IN  IF ~db.schema[p.f].unique \/ v = Dead THEN No
             ELSE LET ids == Ascending(UniqueHolders(db, p.f, v))
                  IN  Some([i \in DOMAIN ids |-> [id |-> ids[i], fields |-> Fields(db, ids[i])]])

\* The rows that pass, in the order of their ids, each once.
refilter_and_sort(p, rows) ==
    LET kept == Filtered(rows, p)
        ids == Ascending({kept[i].id : i \in DOMAIN kept})
    IN  [n \in DOMAIN ids |-> CHOOSE r \in Range(kept) : r.id = ids[n]]

RECURSIVE Flatten(_, _)
Flatten(p, is) == IF p.is = is THEN Flatten(p.l, is) \o Flatten(p.r, is) ELSE <<p>>

\* Mutant: an equality of floats may be looked up.
HitsIndexFloatEq(ty, op, lit) ==
    CASE ty \in Integral /\ lit.k = "Int" -> InDomain(ty, lit.v)
      [] ty = "DateTime" -> lit.k = "String"
      [] ty \in {"String", "Bool"} -> lit.k = ty
      [] ty = "F64" -> lit.k = "Float"
      [] OTHER -> FALSE

HitsIndex(ty, op, lit) ==
    CASE ty \in Integral /\ lit.k = "Int" -> InDomain(ty, lit.v)
      [] ty = "DateTime" -> lit.k = "String"
      [] ty \in {"String", "Bool"} -> lit.k = ty
      [] ty = "F64" -> lit.k = "Float" /\ op /= "=="
      [] OTHER -> FALSE

\* conjunct_index_generator: how selective, from 0; 9 is None.
Rank(db, p) ==
    IF p.is /= "compare" \/ ~Knows(db, p) THEN 9
    ELSE LET s == db.schema[p.f]
         IN  IF p.op = "!=" \/ ~s.indexed \/ ~HitsIndex(s.ty, p.op, p.lit) THEN 9
             ELSE IF p.op /= "==" THEN 1 ELSE IF s.ty = "Bool" THEN 2 ELSE 0

intersect_by_id(a, b) ==
    LET base == IF Len(b) < Len(a) THEN b ELSE a
        other == IF Len(b) < Len(a) THEN a ELSE b
    IN  SelectSeq(base, LAMBDA r : \E i \in DOMAIN other : other[i].id = r.id)

plan_and(db, p, conjuncts) ==
    LET probe == SelectInSeq(conjuncts, LAMBDA c : unique_eq_probe(db, c).some)
        equal == SelectSeq(conjuncts, LAMBDA c : Rank(db, c) = 0)
        scan(c) == try_filter_scan(db, c, NoLimit)
        best == Min({Rank(db, conjuncts[i]) : i \in DOMAIN conjuncts})
        generator == conjuncts[SelectInSeq(conjuncts, LAMBDA c : Rank(db, c) = best)]
    IN  IF probe > 0
        THEN Some(refilter_and_sort(p, unique_eq_probe(db, conjuncts[probe]).rows))
        ELSE IF Len(equal) >= 2 /\ scan(equal[1]).some /\ scan(equal[2]).some
        THEN Some(refilter_and_sort(p, intersect_by_id(scan(equal[1]).rows, scan(equal[2]).rows)))
        ELSE IF best = 9 \/ ~scan(generator).some THEN No
        ELSE Some(refilter_and_sort(p, scan(generator).rows))

DisjunctPart(db, d) ==
    IF unique_eq_probe(db, d).some THEN unique_eq_probe(db, d)
    ELSE IF Rank(db, d) < 9 THEN try_filter_scan(db, d, NoLimit) ELSE No

plan_or_union(db, p, disjuncts) ==
    LET parts == [i \in DOMAIN disjuncts |-> DisjunctPart(db, disjuncts[i])]
    IN  IF \E i \in DOMAIN parts : ~parts[i].some THEN No
        ELSE Some(refilter_and_sort(p, FlattenSeq([i \in DOMAIN parts |-> parts[i].rows])))

plan_filter_scan(db, p, limit) ==
    CASE p.is = "compare" ->
            IF unique_eq_probe(db, p).some
            THEN Some(refilter_and_sort(p, unique_eq_probe(db, p).rows))
            ELSE try_filter_scan(db, p, limit)
      [] p.is = "and" -> plan_and(db, p, Flatten(p, "and"))
      [] p.is = "or" -> plan_or_union(db, p, Flatten(p, "or"))
      [] OTHER -> No

\* Source::Filter of execute_source, with a .limit step after it or NoLimit.
FilterSource(db, p, limit) ==
    LET plan == plan_filter_scan(db, p, limit)
    IN  Take(IF plan.some THEN plan.rows ELSE Filtered(scan_type(db), p), limit)

-----------------------------------------------------------------------------
(* What a filter means, and the deviations that are named.                 *)

Meaning(db, p) == Filtered(scan_type(db), p)

RECURSIVE Leaves(_)
Leaves(p) == IF p.is \in {"and", "or"} THEN Leaves(p.l) \cup Leaves(p.r) ELSE {p}

\* An ordering of booleans on its own: the scans order them, the evaluation
\* does not.
OrdersBool(p) == p.is = "compare" /\ p.lit.k = "Bool" /\ p.op \notin {"==", "!="}

\* A zero against an index on floats: by order, or on its own.
ComparesZero(db, p) ==
    \E c \in Leaves(p) :
        /\ c.is = "compare" /\ (c = p \/ c.op \notin {"==", "!="})
        /\ c.lit.k = "Float" /\ c.lit.v = 0
        /\ db.schema[c.f].ty = "F64" /\ db.schema[c.f].indexed

\* A bound that is pushed into an index which holds tombstones.
MeetsTombstones(db, p, limit) ==
    /\ p.is = "compare" /\ limit /= NoLimit /\ db.schema[p.f].indexed
    /\ \E i \in DOMAIN db.layers : Dead \in Range(IndexLayer(db, p.f, i))

\* Whatever path the picker takes, a filter gives the objects that its
\* predicate holds for, each once and as they are; a conjunction or disjunction
\* gives them in the order of their ids, so that a bound after it takes the
\* same rows as the full scan would (plan_filter_scan: "the output equals
\* scan_all_objects + evaluate_predicate").
PlanExact(db, p, limit) ==
    LET rows == FilterSource(db, p, limit)
        meaning == Meaning(db, p)
    IN  \/ OrdersBool(p) \/ ComparesZero(db, p) \/ MeetsTombstones(db, p, limit)
        \/ /\ p.is /= "compare" => rows = Take(meaning, limit)
           /\ Range(rows) \subseteq Range(meaning)
           /\ Cardinality(Range(rows)) = Len(rows) /\ Len(rows) = Min({limit, Len(meaning)})

\* The same without the named deviations: "the output equals scan_all_objects +
\* evaluate_predicate, incl. a trailing .limit/.offset" (plan_filter_scan).
PlanEqualsScan(db, p, limit) == FilterSource(db, p, limit) = Take(Meaning(db, p), limit)
=============================================================================
