------------------------------ MODULE Catalog ------------------------------
(***************************************************************************)
(* The schema catalog: the durable rows that give every type, field and    *)
(* relation a numeric id for life, the opening of a database under a       *)
(* schema (backfill, recovery of a partial catalog, the digest fast path,  *)
(* reconcile), the rename and field-type-change verbs with the rows and    *)
(* covers they rewrite, the migration log, and the handles that verbs      *)
(* replace while other threads still hold the old ones.                    *)
(*                                                                         *)
(* kv is the committed key-value state.  A key is a tuple tagged as in     *)
(* key.rs: <<"T",t>>, <<"E",t,f>>, <<"R",t,f>> are catalog rows, <<"F">>    *)
(* the format, <<"I">> the initialized marker, <<"D">> the digest, <<"N">>  *)
(* the three counters, <<"V">> the migration log, <<"P">> the one           *)
(* field-type plan; <<"o",tid,o>> is an object, <<"i",fid,o>> a covering    *)
(* index entry, <<"r",rid,o>> the reverse edge of o's link through rid and  *)
(* <<"g",o>> a generation.  A stored value carries, as a ghost, the id of   *)
(* the field it was written for.                                           *)
(***************************************************************************)
EXTENDS Integers, Sequences, FiniteSets, SequencesExt, FiniteSetsExt, Functions, TLC

CONSTANTS Setups,           \* what a behaviour may do, defined in the MC module
          TypeOrder,        \* all type names, sorted
          MaxRenameHistory, MaxTypeChangeHistory,
          Migrators, NoOne

VARIABLES setup, kv,
          handles,   \* the open Database handles of this process
          counters,  \* the version_counters they share
          lock,      \* who holds migration_lock.write()
          mig,       \* the threads inside a verb
          ran,       \* ghost: the verbs that migration lists have committed
          left, odd

vars == <<setup, kv, handles, counters, lock, mig, ran, left, odd>>

----------------------------------------------------------------------------
(* Rows and batches *)

Keys(s, tag) == {k \in DOMAIN s : k[1] = tag}
RowsOf(s, tag, t) == {k \in Keys(s, tag) : k[2] = t}
CatalogRows(s) == UNION {Keys(s, tag) : tag \in {"T", "E", "R"}}
Objects(s) == {k[3] : k \in Keys(s, "o")}
RowKey(s, o) == CHOOSE k \in Keys(s, "o") : k[3] = o
Generation(s, o) == IF <<"g", o>> \in DOMAIN s THEN s[<<"g", o>>] ELSE 1

NoWrites == [put |-> <<>>, del |-> {}]
Puts(f) == [put |-> f, del |-> {}]

Write(s, b) == Restrict(b.put @@ s, (DOMAIN b.put \cup DOMAIN s) \ b.del)

\* Mutant: the raw batches, all puts and then all deletes.
AbsorbRaw(ov, b) == [put |-> b.put @@ ov.put, del |-> ov.del \cup b.del]

\* WriteOverlay::absorb: later verbs win, so every key is put or deleted, not both.
Absorb(ov, b) ==
    LET put == b.put @@ ov.put
    IN [put |-> Restrict(put, DOMAIN put \ b.del), del |-> (ov.del \ DOMAIN b.put) \cup b.del]

Entry(id, kind) == [id |-> id, kind |-> kind, live |-> TRUE, renames |-> 0, changes |-> 0]

RenameKey(f, old, new) ==
    IF old \notin DOMAIN f THEN f
    ELSE [x \in (DOMAIN f \ {old}) \cup {new} |-> IF x = new THEN f[old] ELSE f[x]]

----------------------------------------------------------------------------
(* Schemas: a function from type names to sequences of field declarations. *)

TypeRows(schema) ==
    LET ts == SelectSeq(TypeOrder, LAMBDA t : t \in DOMAIN schema)
    IN [i \in DOMAIN ts |-> [key |-> <<"T", ts[i]>>, kind |-> "type"]]

FieldRows(schema) ==
    FlattenSeq([i \in DOMAIN TypeRows(schema) |->
        LET t == TypeRows(schema)[i].key[2]
        IN [j \in DOMAIN schema[t] |->
               [key |-> <<"E", t, schema[t][j].name>>, kind |-> schema[t][j].kind]]])

RelRows(schema) ==
    LET rels == SelectSeq(FieldRows(schema), LAMBDA r : r.kind = "rel")
    IN [i \in DOMAIN rels |-> [rels[i] EXCEPT !.key[1] = "R"]]

Named(schema) == ToSet(TypeRows(schema)) \cup ToSet(FieldRows(schema)) \cup ToSet(RelRows(schema))

ScalarsOf(schema, t) == {f \in ToSet(schema[t]) : f.kind # "rel"}
IndexedOf(schema, t) == {f \in ScalarsOf(schema, t) : f.indexed}
RelationsOf(schema, t) == {f \in ToSet(schema[t]) : f.kind = "rel"}

\* Everything the catalog depends on; not the @on_delete policies.
compute_schema_digest(schema) ==
    [t \in DOMAIN schema |->
        [i \in DOMAIN schema[t] |-> [x \in {"name", "kind", "indexed", "target"} |-> schema[t][i][x]]]]

----------------------------------------------------------------------------
(* Loading, backfill, reconcile *)

\* Ids in order from the counter, for the rows that have none yet.
Allot(s, rows, first) ==
    LET new == SelectSeq(rows, LAMBDA r : r.key \notin DOMAIN s)
    IN [k \in {r.key : r \in ToSet(new)} |->
           LET i == CHOOSE i \in DOMAIN new : new[i].key = k
           IN Entry(first + i - 1, new[i].kind)]

Allocate(s, schema, n) ==
    LET ts == Allot(s, TypeRows(schema), n.t)
        fs == Allot(s, FieldRows(schema), n.f)
        rs == Allot(s, RelRows(schema), n.r)
    IN (<<"N">> :> [t |-> n.t + Cardinality(DOMAIN ts), f |-> n.f + Cardinality(DOMAIN fs),
                    r |-> n.r + Cardinality(DOMAIN rs)])
       @@ ts @@ fs @@ rs

backfill_into_txn(schema) ==
    Allocate(<<>>, schema, [t |-> 1, f |-> 1, r |-> 1])
    @@ (<<"F">> :> 1) @@ (<<"D">> :> compute_schema_digest(schema)) @@ (<<"I">> :> TRUE)

\* The plan is not derived from the schema and survives the clearing.
recover_partial_into_txn(s, schema) ==
    [put |-> backfill_into_txn(schema),
     del |-> {k \in DOMAIN s : k[1] \in {"F", "I", "D", "N", "T", "E", "R", "V"}}
             \ DOMAIN backfill_into_txn(schema)]

\* What load_existing refuses: duplicate ids and tombstones of a v1 catalog.
load_existing(s) ==
    \A tag \in {"T", "E", "R"} :
        /\ \A k, l \in Keys(s, tag) : s[k].id = s[l].id => k = l
        /\ s[<<"F">>] = 1 => \A k \in Keys(s, tag) : s[k].live

self_heal_counter(s, tag, n) == Max({n} \cup {s[k].id + 1 : k \in Keys(s, tag)})

Counters(s) ==
    LET n == s[<<"N">>]
    IN [t |-> self_heal_counter(s, "T", n.t), f |-> self_heal_counter(s, "E", n.f),
        r |-> self_heal_counter(s, "R", n.r)]

\* MigrationStatus::quiesces: a plan that runs, failed or awaits its converter.
Unsettled(s) == <<"P">> \in DOMAIN s /\ s[<<"P">>].status # "settled"

\* Any unsettled plan licenses a schema that is ahead of the catalog.
resumable_plan_for_kind_change(s, k, want) ==
    /\ Unsettled(s)
    /\ LET p == s[<<"P">>]
       IN k = <<"E", p.t, p.f>> /\ s[k].kind = p.from /\ want = p.to

KindsAgree(s, schema) ==
    \A r \in ToSet(FieldRows(schema)) :
        r.key \in DOMAIN s /\ s[r.key].kind # r.kind => resumable_plan_for_kind_change(s, r.key, r.kind)

NoRetiredName(s, schema) ==
    \A r \in Named(schema) : r.key \in DOMAIN s => s[r.key].live

Dropped(s, schema) ==
    {k \in CatalogRows(s) : s[k].live /\ k \notin {r.key : r \in Named(schema)}}

\* The batch, or nothing when the schema is refused.
reconcile_into_txn(s, schema, shrink) ==
    LET dropped == Dropped(s, schema)
    IN IF ~((dropped = {} \/ shrink) /\ NoRetiredName(s, schema) /\ KindsAgree(s, schema)) THEN {}
       ELSE {Allocate(s, schema, Counters(s))
             @@ [k \in dropped |-> [s[k] EXCEPT !.live = FALSE]]
             @@ (<<"F">> :> IF dropped # {} THEN Max({s[<<"F">>], 2}) ELSE s[<<"F">>])
             @@ (<<"D">> :> compute_schema_digest(schema))}

\* The stores an open may leave: one, or none when it fails.
load_or_initialize(s, schema, shrink) ==
    LET markers == {<<"F">>, <<"I">>} \cap DOMAIN s
    IN CASE markers = {} -> {Write(s, Puts(backfill_into_txn(schema)))}
         [] Cardinality(markers) = 1 -> {Write(s, recover_partial_into_txn(s, schema))}
         [] OTHER ->
              IF ~load_existing(s) THEN {}
              ELSE IF s[<<"D">>] = compute_schema_digest(schema) THEN {s}
              ELSE {Write(s, Puts(put)) : put \in reconcile_into_txn(s, schema, shrink)}

\* The rebuild indexes its id maps with these names and panics without one.
Resolves(s, schema) ==
    \A r \in Named(schema) :
        \/ r.key \in DOMAIN s
        \/ r.key[1] = "E" /\ \A f \in IndexedOf(schema, r.key[2]) : f.name # r.key[3]

\* hook is the double-write hook of a plan: armed where the plan was started or,
\* with no converter, by an open; a rebuilt handle does not carry it.
Opened(s, schema) ==
    [schema |-> schema, ids |-> [k \in CatalogRows(s) |-> s[k].id], hook |-> "none",
     migrated |-> FALSE, dropped |-> FALSE]

\* auto_resume_migrations, on a genuine open only.
Rearmed(s, h) == IF Unsettled(s) THEN [h EXCEPT !.hook = "reopened"] ELSE h

----------------------------------------------------------------------------
(* Rename verbs: the batch, or nothing when the verb is refused. *)

Renamed(e) == [e EXCEPT !.renames = @ + 1]
CanRename(s, k) == k \in DOMAIN s /\ s[k].live /\ s[k].renames < MaxRenameHistory

apply_type_rename_verb(s, old, new) ==
    LET children == RowsOf(s, "E", old) \cup RowsOf(s, "R", old)
        moved(k) == <<k[1], new, k[3]>>
    IN IF ~(old # new /\ CanRename(s, <<"T", old>>) /\ <<"T", new>> \notin DOMAIN s) THEN {}
       ELSE {[put |-> (<<"T", new>> :> Renamed(s[<<"T", old>>]))
                      @@ [k \in {moved(c) : c \in children} |-> s[<<k[1], old, k[3]>>]],
              del |-> children \cup {<<"T", old>>}]}

\* What both field verbs ask of the type, the source and the target name.
FieldRenameAllowed(s, t, old, new) ==
    /\ old # new
    /\ <<"T", t>> \in DOMAIN s /\ s[<<"T", t>>].live
    /\ {<<"E", t, new>>, <<"R", t, new>>} \cap DOMAIN s = {}

\* The reverse edges whose source is an object of the type.
SourceCovers(s, t) ==
    {k \in Keys(s, "r") : /\ \E r \in RowsOf(s, "R", t) : s[r].id = k[2]
                          /\ <<"o", s[<<"T", t>>].id, k[3]>> \in DOMAIN s}

\* The covering entries of one object; the handle finds its indexed fields by
\* the type's name, and each field's current name by its id.
rename_index_cover_puts(s, h, t, o, row, key, new) ==
    LET current(fid) == IF fid = s[key].id THEN new
                        ELSE (CHOOSE k \in RowsOf(s, "E", t) : s[k].id = fid)[3]
        fids == IF t \notin DOMAIN h.schema THEN {}
                ELSE {h.ids[<<"E", t, f.name>>] : f \in IndexedOf(h.schema, t)}
                     \cap {s[k].id : k \in RowsOf(s, "E", t)}
    IN [k \in {<<"i", fid, o>> : fid \in {x \in fids : current(x) \in DOMAIN row}} |-> row]

apply_field_rename_verb(s, h, t, old, new) ==
    LET key == <<"E", t, old>>
        rows == {k \in RowsOf(s, "o", s[<<"T", t>>].id) : old \in DOMAIN s[k]}
        covers == {k \in SourceCovers(s, t) : old \in DOMAIN s[k].own}
        blob(k) == RenameKey(s[k], old, new)
    IN IF ~(FieldRenameAllowed(s, t, old, new) /\ CanRename(s, key)) THEN {}
       ELSE {[put |-> (<<"E", t, new>> :> Renamed(s[key]))
                      @@ [k \in rows |-> blob(k)]
                      @@ [k \in covers |-> [s[k] EXCEPT !.own = RenameKey(@, old, new)]]
                      @@ FoldSet(LAMBDA k, acc : acc @@
                                     rename_index_cover_puts(s, h, t, k[3], blob(k), key, new),
                                 <<>>, rows),
              del |-> {key}]}

apply_relation_rename_verb(s, t, old, new) ==
    LET E == <<"E", t, old>>
        R == <<"R", t, old>>
        covers == {k \in SourceCovers(s, t) : old \in DOMAIN s[k].own \cup DOMAIN s[k].side}
    IN IF ~(FieldRenameAllowed(s, t, old, new) /\ CanRename(s, R)) THEN {}
       ELSE {[put |-> (<<"E", t, new>> :> Renamed(s[E])) @@ (<<"R", t, new>> :> Renamed(s[R]))
                      @@ [k \in covers |-> [s[k] EXCEPT !.own = RenameKey(@, old, new),
                                                        !.side = RenameKey(@, old, new)]],
              del |-> {E, R}]}

BlockedByPlan(s, v) ==
    /\ Unsettled(s)
    /\ LET p == s[<<"P">>]
       IN \/ v.verb = "type" /\ v.old = p.t
          \/ v.verb = "field" /\ v.t = p.t /\ v.old = p.f
          \/ v.verb = "change" /\ v.t = p.t

\* A type rename and a field rename of that type do not share a plan.
TypeWithField(verbs) ==
    \E a, b \in ToSet(verbs) : a.verb = "type" /\ b.verb = "field" /\ b.t \in {a.old, a.new}

VerbBatch(s, h, v) ==
    CASE v.verb = "type" -> apply_type_rename_verb(s, v.old, v.new)
      [] <<"R", v.t, v.old>> \in DOMAIN s /\ s[<<"R", v.t, v.old>>].live ->
             apply_relation_rename_verb(s, v.t, v.old, v.new)
      [] OTHER -> apply_field_rename_verb(s, h, v.t, v.old, v.new)

\* Mutant: a later verb reads the objects of the snapshot, not the overlay.
PlanStepAtSnapshot(s, h, acc, v) ==
    UNION {{Absorb(ov, b) : b \in VerbBatch([k \in DOMAIN Write(s, ov) |->
                IF k[1] = "o" THEN s[k] ELSE Write(s, ov)[k]], h, v)} : ov \in acc}

\* One verb of a plan reads the snapshot through what the verbs before it wrote.
PlanStep(s, h, acc, v) == UNION {{Absorb(ov, b) : b \in VerbBatch(Write(s, ov), h, v)} : ov \in acc}

apply_migration_with_cover(s, h, verbs) ==
    LET done == FoldLeft(LAMBDA acc, v : PlanStep(s, h, acc, v), {NoWrites}, verbs)
        format == Max({s[<<"F">>], IF \A v \in ToSet(verbs) : v.verb = "type" THEN 3 ELSE 5})
    IN IF ~load_existing(s) \/ TypeWithField(verbs) \/ \E v \in ToSet(verbs) : BlockedByPlan(s, v) THEN {}
       ELSE {Write(s, [ov EXCEPT !.put = (<<"F">> :> format) @@ @]) : ov \in done}

----------------------------------------------------------------------------
(* Changing a field's type in one commit *)

validate_field_type_change(s, h, v) ==
    LET k == <<"E", v.t, v.f>>
    IN /\ k \in DOMAIN s /\ s[k].live
       /\ s[k].kind \notin {v.to, "rel"}
       /\ v.t \in DOMAIN h.schema
       /\ \E f \in ToSet(h.schema[v.t]) : f.name = v.f /\ ~f.indexed
       /\ s[k].changes < MaxTypeChangeHistory

\* A cover of a converted object must look stale: it is stamped with a generation.
stage_generation_bump(s, o) == <<"g", o>> :> Generation(s, o) + 1

sibling_index_cover_puts(h, t, o, row) ==
    LET fs == IF t \notin DOMAIN h.schema THEN {}
              ELSE {f \in IndexedOf(h.schema, t) : f.name \in DOMAIN row}
    IN [k \in {<<"i", h.ids[<<"E", t, f.name>>], o>> : f \in fs} |-> row]

ConvertRows(s, h, v) ==
    LET rows == {k \in RowsOf(s, "o", s[<<"T", v.t>>].id) : v.f \in DOMAIN s[k]}
        blob(k) == [s[k] EXCEPT ![v.f].kind = v.to]
    IN [k \in rows |-> blob(k)]
       @@ FoldSet(LAMBDA k, acc : acc @@ stage_generation_bump(s, k[3])
                                      @@ sibling_index_cover_puts(h, v.t, k[3], blob(k)), <<>>, rows)

apply_field_type_change(s, h, v) ==
    LET k == <<"E", v.t, v.f>>
    IN IF ~load_existing(s) \/ BlockedByPlan(s, v) \/ ~validate_field_type_change(s, h, v) THEN {}
       ELSE {Write(s, Puts(ConvertRows(s, h, v)
                           @@ (k :> [s[k] EXCEPT !.kind = v.to, !.changes = @ + 1])
                           @@ (<<"F">> :> Max({s[<<"F">>], 4}))))}

\* One call of the verb API, or one verb of a migration: what it may commit.
Committed(s, h, verbs) ==
    IF verbs[1].verb = "change" THEN apply_field_type_change(s, h, verbs[1])
    ELSE apply_migration_with_cover(s, h, verbs)

----------------------------------------------------------------------------
(* Handles and the data written through them *)

Usable(i) == i \in DOMAIN handles /\ ~handles[i].dropped /\ ~handles[i].migrated
Closed == \A i \in DOMAIN handles : handles[i].dropped
GenerationsOf(s) == [o \in Objects(s) |-> Generation(s, o)]

Agrees(s, schema) ==
    /\ \A r \in Named(schema) : r.key \in DOMAIN s /\ s[r.key].live
    /\ KindsAgree(s, schema)

\* The digest fast path takes a schema the verbs have left behind.
Trusting(s, schema) == [odd EXCEPT !.digest = @ \/ (s = kv /\ ~Agrees(s, schema))]

Open(schema, shrink) ==
    /\ left.opens > 0 /\ Closed /\ lock = NoOne
    /\ \A m \in Migrators : mig[m].pc = "idle"
    /\ \E s \in load_or_initialize(kv, schema, shrink) :
        /\ Resolves(s, schema)
        /\ kv' = s
        /\ handles' = <<Rearmed(s, Opened(s, schema))>>
        /\ counters' = GenerationsOf(s)
        /\ odd' = Trusting(s, schema)
    /\ left' = [left EXCEPT !.opens = @ - 1]
    /\ UNCHANGED <<setup, lock, mig, ran>>

IdOf(h, k) == IF k \in DOMAIN h.ids THEN h.ids[k] ELSE 0

\* A hook without a converter rejects writes of the field it covers.
PutObject(i, t, o) ==
    LET h == handles[i]
        row == [n \in {f.name : f \in ScalarsOf(h.schema, t)} |->
                   [id |-> IdOf(h, <<"E", t, n>>),
                    kind |-> (CHOOSE f \in ScalarsOf(h.schema, t) : f.name = n).kind]]
    IN /\ t \in DOMAIN h.schema
       /\ h.hook = "reopened" => t # kv[<<"P">>].t
       /\ o \notin Objects(kv)
       /\ kv' = (<<"o", h.ids[<<"T", t>>], o>> :> row)
                @@ [k \in {<<"i", h.ids[<<"E", t, f.name>>], o>> : f \in IndexedOf(h.schema, t)} |-> row]
                @@ kv
       /\ counters' = (o :> 1) @@ counters
       /\ left' = [left EXCEPT !.writes = @ - 1]
       /\ UNCHANGED <<setup, handles, lock, mig, ran, odd>>

\* A write holds migration_lock.read() and checks the handle under it.
CreateObject(i, t, o) == left.writes > 0 /\ lock = NoOne /\ Usable(i) /\ PutObject(i, t, o)

\* The reverse edge carries the source's fields, the name of each relation it is
\* linked through, and for the other links their target's fields and generation.
Link(i, t, o, rel, tgt) ==
    LET h == handles[i]
        rid == h.ids[<<"R", t, rel.name>>]
        peers == {p \in RelationsOf(h.schema, t) \ {rel} : <<"r", h.ids[<<"R", t, p.name>>], o>> \in DOMAIN kv}
        peerRow(n) == kv[<<"r", h.ids[<<"R", t, n>>], o>>]
        names == {p.name : p \in peers}
    IN /\ left.writes > 0 /\ lock = NoOne
       /\ Usable(i) /\ t \in DOMAIN h.schema /\ rel \in RelationsOf(h.schema, t)
       /\ {<<"o", h.ids[<<"T", t>>], o>>, <<"o", h.ids[<<"T", rel.target>>], tgt>>} \subseteq DOMAIN kv
       /\ <<"r", rid, o>> \notin DOMAIN kv
       /\ kv' = (<<"r", rid, o>> :>
                    [tgt |-> tgt,
                     own |-> [n \in names \cup {rel.name} |-> [id |-> h.ids[<<"R", t, n>>], kind |-> "rel"]]
                             @@ kv[<<"o", h.ids[<<"T", t>>], o>>],
                     side |-> [n \in names |-> [tgt |-> peerRow(n).tgt, v |-> counters[peerRow(n).tgt],
                                                fields |-> kv[RowKey(kv, peerRow(n).tgt)]]]])
                @@ kv
       /\ left' = [left EXCEPT !.writes = @ - 1]
       /\ UNCHANGED <<setup, handles, counters, lock, mig, ran, odd>>

\* The last owner of a handle lets it go; a verb still running on it is an owner.
Drop(i) ==
    /\ i \in DOMAIN handles /\ ~handles[i].dropped
    /\ \A m \in Migrators : mig[m].pc # "idle" => mig[m].on # i
    /\ handles' = [handles EXCEPT ![i].dropped = TRUE]
    /\ UNCHANGED <<setup, kv, counters, lock, mig, ran, left, odd>>

----------------------------------------------------------------------------
(* A chunked field-type plan, as far as the catalog meets it *)

PlanStarts(i, v) ==
    /\ left.plans > 0 /\ lock = NoOne /\ Usable(i)
    /\ ~Unsettled(kv) /\ validate_field_type_change(kv, handles[i], v)
    /\ kv' = (<<"P">> :> [t |-> v.t, f |-> v.f, from |-> kv[<<"E", v.t, v.f>>].kind, to |-> v.to,
                          status |-> "running"]) @@ kv
    /\ handles' = [handles EXCEPT ![i].hook = "started"]
    /\ left' = [left EXCEPT !.plans = @ - 1]
    /\ UNCHANGED <<setup, counters, lock, mig, ran, odd>>

\* A handle's schema is stale once a plan settles on the kind it does not have.
LeftBehind(s) ==
    [odd EXCEPT !.stopped = @ \/ \E i \in DOMAIN handles : Usable(i) /\ ~Agrees(s, handles[i].schema)]

\* A converter error parks the plan and leaves the hook armed.
PlanFails ==
    /\ lock = NoOne /\ Unsettled(kv) /\ kv[<<"P">>].status = "running"
    /\ \E i \in DOMAIN handles : Usable(i)
    /\ kv' = [kv EXCEPT ![<<"P">>].status = "failed"]
    /\ UNCHANGED <<setup, handles, counters, lock, mig, ran, left, odd>>

\* cancel_migration: a running or a failed plan settles and leaves the source kind.
PlanCancelled(i) ==
    /\ lock = NoOne /\ Usable(i) /\ Unsettled(kv)
    /\ kv' = [kv EXCEPT ![<<"P">>].status = "settled"]
    /\ handles' = [handles EXCEPT ![i].hook = "none"]
    /\ odd' = LeftBehind(kv')
    /\ UNCHANGED <<setup, counters, lock, mig, ran, left>>

\* The driver that the plan was started with cuts over under the source schema;
\* resuming a plan, failed or not, needs a handle opened with the target schema.
CutsOver(h, k, p) ==
    \/ h.hook = "started" /\ p.status = "running"
    \/ \E r \in ToSet(FieldRows(h.schema)) : r.key = k /\ r.kind = p.to

PlanCutsOver(i) ==
    /\ lock = NoOne /\ Usable(i) /\ Unsettled(kv)
    /\ LET p == kv[<<"P">>]
           v == [t |-> p.t, f |-> p.f, to |-> p.to]
           k == <<"E", p.t, p.f>>
       IN /\ CutsOver(handles[i], k, p)
          /\ kv' = Write(kv, Puts(ConvertRows(kv, handles[i], v)
                                  @@ (k :> [kv[k] EXCEPT !.kind = p.to, !.changes = @ + 1])
                                  @@ (<<"F">> :> Max({kv[<<"F">>], 4}))
                                  @@ (<<"P">> :> [p EXCEPT !.status = "settled"])))
    /\ handles' = [handles EXCEPT ![i].hook = "none"]
    /\ counters' = GenerationsOf(kv')
    /\ odd' = LeftBehind(kv')
    /\ UNCHANGED <<setup, lock, mig, ran, left>>

----------------------------------------------------------------------------
(* The verb API: check the handle, take the lock, commit, rebuild *)

Idle == [pc |-> "idle"]

\* check_not_migrated comes before migration_lock.write().
Call(m, i, op) ==
    /\ left.calls > 0 /\ mig[m].pc = "idle" /\ Usable(i)
    /\ mig' = [mig EXCEPT ![m] = [pc |-> "waiting", on |-> i, op |-> op, at |-> 1, verb |-> 1, dirty |-> FALSE]]
    /\ left' = [left EXCEPT !.calls = @ - 1]
    /\ UNCHANGED <<setup, kv, handles, counters, lock, ran, odd>>

Locks(m) ==
    /\ mig[m].pc = "waiting" /\ lock = NoOne
    /\ lock' = m
    /\ mig' = [mig EXCEPT ![m].pc = mig[m].op.call]
    /\ UNCHANGED <<setup, kv, handles, counters, ran, left, odd>>

Returns(m) == mig' = [mig EXCEPT ![m] = Idle] /\ lock' = NoOne

Fails(m) ==
    /\ Returns(m)
    /\ UNCHANGED <<setup, kv, handles, counters, ran, left, odd>>

\* Sidecars of the renamed field's objects, in covers of other types' links.
NamesASidecar(s, verbs) ==
    \E v \in ToSet(verbs) : v.verb = "field" /\ \E k \in Keys(s, "r") : \E n \in DOMAIN s[k].side :
        v.old \in DOMAIN s[k].side[n].fields

Notes(m, verbs) ==
    LET i == mig[m].on
        v == verbs[1]
    IN [odd EXCEPT !.race = @ \/ i < Len(handles),
                   !.sidecar = @ \/ NamesASidecar(kv, verbs),
                   !.maintainer = @ \/ (v.verb \in {"field", "change"} /\ v.t \notin DOMAIN handles[i].schema)]

\* One verb, or one plan of rename verbs.
VerbCommits(m) ==
    /\ mig[m].pc = "verb" /\ lock = m
    /\ \E s \in Committed(kv, handles[mig[m].on], mig[m].op.verbs) :
        /\ kv' = s
        /\ odd' = Notes(m, mig[m].op.verbs)
    /\ mig' = [mig EXCEPT ![m].pc = "done"]
    /\ UNCHANGED <<setup, handles, counters, lock, ran, left>>

\* Refused, or the caller's converter fails: nothing is written.
VerbFails(m) ==
    /\ mig[m].pc = "verb" /\ lock = m
    /\ \/ Committed(kv, handles[mig[m].on], mig[m].op.verbs) = {}
       \/ mig[m].op.verbs[1].verb = "change"
    /\ Fails(m)

\* The plain verbs leave reopening to the caller, who lets the handle go.
ReturnsToCaller(m) ==
    /\ mig[m].pc = "done" /\ lock = m /\ ~mig[m].op.consume
    /\ Returns(m)
    /\ handles' = [handles EXCEPT ![mig[m].on].dropped = TRUE]
    /\ UNCHANGED <<setup, kv, counters, ran, left, odd>>

\* A replaced handle hands its counters on, whatever generations a verb wrote.
Carrying(m, s, schema) ==
    [Trusting(s, schema) EXCEPT !.carried = @ \/ GenerationsOf(s) # counters,
                                !.race = @ \/ mig[m].on < Len(handles)]

\* clone_into_new_handle: the old handle is poisoned before the rebuild, which
\* carries the shared counters; a rebuild that fails leaves no handle.
Rebuilds(m) ==
    /\ mig[m].pc = "done" /\ lock = m /\ mig[m].op.consume
    /\ Returns(m)
    /\ LET old == [handles EXCEPT ![mig[m].on].migrated = TRUE]
           stores == {s \in load_or_initialize(kv, mig[m].op.post, FALSE) : Resolves(s, mig[m].op.post)}
       IN \/ /\ stores = {}
             /\ handles' = old /\ UNCHANGED <<kv, odd>>
          \/ \E s \in stores :
                /\ kv' = s /\ handles' = Append(old, Opened(s, mig[m].op.post))
                /\ odd' = Carrying(m, s, mig[m].op.post)
    /\ UNCHANGED <<setup, counters, ran, left>>

\* reload_handle: refused while a hook of the handle is armed; the old handle is not
\* poisoned, its holder swaps it for the new one when the rebuild succeeds.
Reloads(m) ==
    LET post == mig[m].op.post
        stores == IF handles[mig[m].on].hook # "none" THEN {}
                  ELSE {s \in load_or_initialize(kv, post, FALSE) : Resolves(s, post)}
    IN /\ mig[m].pc = "reload" /\ lock = m
       /\ Returns(m)
       /\ \/ stores = {} /\ UNCHANGED <<kv, handles, odd>>
          \/ \E s \in stores :
                /\ kv' = s /\ odd' = Carrying(m, s, post)
                /\ handles' = Append([handles EXCEPT ![mig[m].on].dropped = TRUE], Opened(s, post))
       /\ UNCHANGED <<setup, counters, ran, left>>

----------------------------------------------------------------------------
(* run_migrations: a list of named migrations against the log *)

Log(s) == IF <<"V">> \in DOMAIN s THEN s[<<"V">>] ELSE <<>>

\* The list must extend what the log says was applied.
ListStarts(m) ==
    LET list == mig[m].op.list
        log == Log(kv)
    IN /\ mig[m].pc = "list" /\ lock = m
       /\ IF Len(list) < Len(log) \/ \E n \in DOMAIN log : n <= Len(list) /\ list[n].name # log[n]
          THEN Fails(m)
          ELSE /\ mig' = [mig EXCEPT ![m].pc = "step", ![m].at = Len(log) + 1]
               /\ UNCHANGED <<setup, kv, handles, counters, lock, ran, left, odd>>

\* Each verb of a migration is a commit of its own; a caller told of an error
\* keeps a handle that the verbs before it made stale.
ListVerb(m) ==
    LET t == mig[m]
    IN /\ t.pc = "step" /\ t.at <= Len(t.op.list) /\ t.verb <= Len(t.op.list[t.at].verbs)
       /\ LET verbs == <<t.op.list[t.at].verbs[t.verb]>>
              stores == Committed(kv, handles[t.on], verbs)
          IN \/ /\ stores = {}
                /\ Returns(m)
                /\ odd' = [odd EXCEPT !.partial = @ \/ t.verb > 1, !.stale = @ \/ t.dirty]
                /\ UNCHANGED <<kv, handles, ran>>
             \/ \E s \in stores :
                /\ kv' = s
                /\ odd' = Notes(m, verbs)
                /\ ran' = Append(ran, <<t.op.list[t.at].name, t.verb>>)
                /\ mig' = [mig EXCEPT ![m].verb = @ + 1, ![m].dirty = TRUE]
                /\ UNCHANGED <<handles, lock>>
       /\ UNCHANGED <<setup, counters, left>>

\* Mutant: the log entry goes first.
ListLogsEarly(m) ==
    LET t == mig[m]
    IN /\ t.pc = "step" /\ t.at <= Len(t.op.list)
       /\ t.verb >= Len(t.op.list[t.at].verbs)
       /\ kv' = (<<"V">> :> Append(Log(kv), t.op.list[t.at].name)) @@ kv
       /\ mig' = [mig EXCEPT ![m].at = @ + 1, ![m].verb = 1]
       /\ UNCHANGED <<setup, handles, counters, lock, ran, left, odd>>

ListLogs(m) ==
    LET t == mig[m]
    IN /\ t.pc = "step" /\ t.at <= Len(t.op.list)
       /\ t.verb > Len(t.op.list[t.at].verbs)
       /\ kv' = (<<"V">> :> Append(Log(kv), t.op.list[t.at].name)) @@ kv
       /\ mig' = [mig EXCEPT ![m].at = @ + 1, ![m].verb = 1]
       /\ UNCHANGED <<setup, handles, counters, lock, ran, left, odd>>

ListEnds(m) ==
    /\ mig[m].pc = "step" /\ mig[m].at > Len(mig[m].op.list)
    /\ mig' = [mig EXCEPT ![m].pc = "done"]
    /\ UNCHANGED <<setup, kv, handles, counters, lock, ran, left, odd>>

Crash ==
    /\ left.crashes > 0
    /\ handles' = <<>> /\ counters' = <<>> /\ lock' = NoOne
    /\ mig' = [m \in Migrators |-> Idle]
    /\ odd' = [odd EXCEPT !.partial = @ \/ \E m \in Migrators : mig[m].pc = "step" /\ mig[m].verb > 1]
    /\ left' = [left EXCEPT !.crashes = @ - 1]
    /\ UNCHANGED <<setup, kv, ran>>

----------------------------------------------------------------------------
Init ==
    /\ setup \in Setups
    /\ kv = setup.store
    /\ handles = <<>> /\ counters = <<>>
    /\ lock = NoOne /\ mig = [m \in Migrators |-> Idle]
    /\ ran = <<>>
    /\ left = setup.left
    /\ odd = [x \in {"digest", "stopped", "race", "sidecar", "maintainer", "carried", "partial",
                      "stale"} |-> FALSE]

Writes(i) ==
    \E t \in DOMAIN handles[i].schema, o \in setup.objects :
        \/ CreateObject(i, t, o)
        \/ \E rel \in RelationsOf(handles[i].schema, t), tgt \in setup.objects : Link(i, t, o, rel, tgt)

Next ==
    \/ \E schema \in setup.schemas, shrink \in setup.shrink : Open(schema, shrink)
    \/ \E i \in DOMAIN handles :
        \/ Writes(i) \/ Drop(i) \/ PlanCancelled(i) \/ PlanCutsOver(i)
        \/ \E v \in setup.plans : PlanStarts(i, v)
        \/ \E m \in Migrators, op \in setup.ops : Call(m, i, op)
    \/ PlanFails
    \/ \E m \in Migrators :
        \/ Locks(m) \/ VerbCommits(m) \/ VerbFails(m) \/ ReturnsToCaller(m) \/ Rebuilds(m) \/ Reloads(m)
        \/ ListStarts(m) \/ ListVerb(m) \/ ListLogs(m) \/ ListEnds(m)
    \/ Crash

Spec == Init /\ [][Next]_vars

----------------------------------------------------------------------------
(* What the catalog promises *)

Initialised(s) == {<<"F">>, <<"I">>} \subseteq DOMAIN s

\* Whatever sequence of opens, shrinks, renames, type changes and crashes wrote
\* it, an initialised catalog can be loaded again: ids are distinct and below
\* their counters, tombstones are of a format that has them, and a relation row
\* stands beside the field row of the same name.
CatalogLoads ==
    Initialised(kv) =>
        /\ load_existing(kv)
        /\ <<"N">> \in DOMAIN kv /\ Counters(kv) = kv[<<"N">>]
        /\ \A k \in Keys(kv, "E") : <<"T", k[2]>> \in DOMAIN kv
        /\ {<<k[2], k[3]>> : k \in Keys(kv, "R")} =
              {<<k[2], k[3]>> : k \in {e \in Keys(kv, "E") : kv[e].kind = "rel"}}

Unforeseen == odd.digest \/ odd.race \/ odd.stale

\* With no verb inside the lock, a handle that accepts writes has a schema whose
\* every name is a live row of the catalog, of the kind the catalog says or the
\* one an unsettled plan, running or failed, moves to.  The exceptions are the
\* digest left in place by the verbs, a verb that waited while its handle was
\* replaced, a failed list of migrations, and a plan that settled on the kind the
\* handle does not have.
SchemaAgrees ==
    lock = NoOne /\ ~Unforeseen /\ ~odd.stopped =>
        \A i \in DOMAIN handles : Usable(i) => Agrees(kv, handles[i].schema)

NameOf(s, tag, t, id) == {k \in RowsOf(s, tag, t) : s[k].id = id}

\* A value stored under a name belongs to the field that has the name now: it
\* was written for that field's id, and has its kind or the one a plan moves it
\* to.  Renames, type changes, plans, reopens and writes through old handles
\* never leave a row under a name the catalog gives to nothing or to another.
RowsNamed ==
    ~Unforeseen /\ ~odd.stopped =>
        \A k \in Keys(kv, "o") : \E t \in Keys(kv, "T") :
            /\ kv[t].id = k[2]
            /\ \A n \in DOMAIN kv[k] :
                LET e == <<"E", t[2], n>>
                IN /\ e \in NameOf(kv, "E", t[2], kv[k][n].id)
                   /\ \/ kv[e].kind = kv[k][n].kind
                      \/ resumable_plan_for_kind_change(kv, e, kv[k][n].kind)

\* A covering index entry repeats the object's row, and a reverse edge names its
\* source's fields as the catalog does, unless a list of migrations renamed the
\* type and then a field of it.
CoversNamed ==
    ~Unforeseen /\ ~odd.maintainer =>
        /\ \A k \in Keys(kv, "i") : kv[k] = kv[RowKey(kv, k[3])]
        /\ \A k \in Keys(kv, "r") : \E t \in Keys(kv, "T") :
            /\ kv[t].id = RowKey(kv, k[3])[2]
            /\ \A n \in DOMAIN kv[k].own :
                NameOf(kv, IF kv[k].own[n].kind = "rel" THEN "R" ELSE "E", t[2], kv[k].own[n].id)
                = {<<IF kv[k].own[n].kind = "rel" THEN "R" ELSE "E", t[2], n>>}

\* An id, once given, names the same kind of thing for ever: no step takes a row's
\* id away, gives it to a row of another type, revives a tombstone or lowers a
\* counter.  Rows go only where recovery of a half-written catalog rebuilds it.
Identified ==
    /\ Initialised(kv')
    /\ \A k \in CatalogRows(kv) : \E l \in CatalogRows(kv') :
        /\ l[1] = k[1] /\ kv'[l].id = kv[k].id
        /\ k[1] # "T" => kv'[<<"T", l[2]>>].id = kv[<<"T", k[2]>>].id
        /\ kv'[l].live => kv[k].live
    /\ \A c \in {"t", "f", "r"} : kv'[<<"N">>][c] >= kv[<<"N">>][c]

SidecarsCurrent ==
    (\E i \in DOMAIN handles : Usable(i)) /\ lock = NoOne /\ ~Unforeseen /\ ~odd.carried =>
        \A k \in Keys(kv, "r") : \A n \in DOMAIN kv[k].side :
            LET c == kv[k].side[n]
            IN c.v = counters[c.tgt] => c.fields = kv[RowKey(kv, c.tgt)]

\* A second-degree cover whose stamp equals the generation in memory holds its
\* target's row, unless a field of a target was renamed or a type change kept
\* the counters of the handle it replaced.
TrustedSidecarCurrent == ~odd.sidecar => SidecarsCurrent

\* rename_field's documentation: the covers the executor reads without a probe
\* are rewritten in the rename's own batch, so none shows the old field name.
RenameReachesCovers == SidecarsCurrent

\* Every verb of a logged migration ran, and none twice unless a call stopped
\* between the verbs of a migration and its log entry: crashes, repeated calls
\* and lists that grow do not change this.
LogExact ==
    /\ ~odd.partial => IsInjective(ran)
    /\ \A n \in DOMAIN Log(kv) : \E op \in setup.ops : \E x \in ToSet(op.list) :
        x.name = Log(kv)[n] /\ \A v \in DOMAIN x.verbs : \E y \in ToSet(ran) : y = <<x.name, v>>
============================================================================
