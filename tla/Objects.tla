------------------------------- MODULE Objects -------------------------------
(***************************************************************************)
(* The engine's write path (crates/rhypedb-engine/src/database.rs):        *)
(* create, create_batch, restore_objects, update, delete with its          *)
(* policies, link, unlink, the generation counters and the cover-refresh   *)
(* worker, each over a snapshot transaction of the storage layer.          *)
(*                                                                         *)
(* The schema has a source type with the forward relations Rel (numbered   *)
(* in field order) to a target type.  An object has one @unique @indexed   *)
(* field, key, which may be Null, and one plain field, note.  The database *)
(* is a partial function from keys to values, one family per keyspace:     *)
(*   <<"o", o>>          object            <<"e", src, rel, tgt>>  edge    *)
(*   <<"u", type, key>>  unique index      <<"r", tgt, rel, src>>  reverse *)
(*   <<"i", key, o>>     covering index    <<"g", o>>          generation  *)
(* where o is a type and an id, and src and tgt are ids.                   *)
(* A reverse edge carries the covers of its source's other 1:1 targets.    *)
(*                                                                         *)
(* A transaction reads the database as it was when it began and commits    *)
(* unless a key it writes was committed by another since: what Mvcc shows  *)
(* of handles that registered in time.                                     *)
(***************************************************************************)
EXTENDS Integers, Sequences, FiniteSets, FiniteSetsExt

CONSTANTS
    Session,    \* threads that call the engine
    Rel,        \* forward relations of the source type
    Many,       \* the relations that are to-many
    KeyValue,   \* values of the unique field
    Null,
    MaxId,      \* bound on object ids
    Setups      \* what to explore: [db, a database built by earlier calls,
                \* policy, the @on_delete policy of each relation, inputs, a set
                \* of <<kind, argument>>, calls and faults, the bounds on calls
                \* and on restarts and commits that report an error]

Type == {"source", "target"}
Id == 1 .. MaxId
Obj == Type \X Id
Src(id) == <<"source", id>>
Tgt(id) == <<"target", id>>
Note == {0, 1}
OneToOne == Rel \ Many

ASSUME SchemaAssumption ==
    /\ Rel \subseteq Nat /\ Many \subseteq Rel
    /\ \A x \in Setups : x.policy \in [Rel -> {"deny", "remove", "cascade"}]
    /\ Null \notin KeyValue
    /\ MaxId \in Nat

\* The input of create: a type, a key and the inline links, a partial function
\* from relations to target ids.
Row == [type : Type, key : KeyValue \cup {Null},
        links : UNION {[R -> Id] : R \in SUBSET Rel}]

\* The inputs name objects by their ids and relations of the schema.
ASSUME InputAssumption ==
    \A x \in Setups : \A i \in x.inputs :
        LET a == i[2]
        IN  /\ i[1] = "create" => a \in Row
            /\ i[1] = "create_batch" => a \in Seq(Row)
            /\ i[1] = "restore" => a.row \in Row /\ a.id \in Id
            /\ i[1] = "update" => a.o \in Obj /\ a.key \in KeyValue \cup {Null}
            /\ i[1] = "delete" => a \in Obj
            /\ i[1] \in {"link", "unlink"} => a \in Id \X Rel \X Id

VARIABLES
    db,                 \* the committed keys and their values
    version_counters,   \* [Obj -> Nat]; 0 stands for no entry
    next_object_id,
    call,               \* [Session -> the call in progress]
    refresh_queue,      \* Seq(Obj), the channel of the cover-refresh worker
    refresh_sources,    \* the sources its read pass found
    setup,              \* the member of Setups being explored
    calls, faults,      \* counters for the bounds
    born, reborn,       \* history: objects ever created, and twice
    collided,           \* history: objects created over a live one
    erred,              \* history: a published commit reported an error
    skewed,             \* history: edges linked beside a delete of an end
    cascaded            \* history: objects deleted by a cascade

store == <<db, version_counters, next_object_id>>
refresh == <<refresh_queue, refresh_sources>>
history == <<born, reborn, collided, erred, skewed, cascaded>>
vars == <<store, call, refresh, setup, calls, faults, history>>

-----------------------------------------------------------------------------
(* Writes: what a batch puts, a set of <<key, value>>, and what it deletes.*)

PutKeys(puts) == {p[1] : p \in puts}

Write(puts, dels) ==
    [puts |-> puts, dels |-> dels \ PutKeys(puts)]

\* Mutant: covers are advisory, so reverse edges are not checked for conflicts.
WriteSetNoCovers(w) == {k \in PutKeys(w.puts) \cup w.dels : k[1] /= "r"}

WriteSet(w) == PutKeys(w.puts) \cup w.dels

Apply(d, w) ==
    [k \in (DOMAIN d \ w.dels) \cup PutKeys(w.puts) |->
        IF k \in PutKeys(w.puts)
        THEN (CHOOSE p \in w.puts : p[1] = k)[2]
        ELSE d[k]]

-----------------------------------------------------------------------------
(* Reading a database d.                                                   *)

Live(d, o) == <<"o", o>> \in DOMAIN d
Object(d, o) == d[<<"o", o>>]

Targets(d, src, rel) == {t \in Id : <<"e", src, rel, t>> \in DOMAIN d}
Sources(d, tgt, rel) == {s \in Id : <<"r", tgt, rel, s>> \in DOMAIN d}

\* Both directions of a set of edges <<src, rel, tgt>>.
EdgeKeys(E) == {<<"e", e[1], e[2], e[3]>> : e \in E}
                   \cup {<<"r", e[3], e[2], e[1]>> : e \in E}

\* check_unique_and_insert finds the value held by another object.
Taken(d, key, o) ==
    /\ <<"u", o[1], key>> \in DOMAIN d
    /\ d[<<"u", o[1], key>>] /= o[2]

\* Null is not indexed.
UniqueKeys(o, key) == {<<"u", o[1], k>> : k \in {key} \ {Null}}
IndexKeys(o, key) == {<<"i", k, o>> : k \in {key} \ {Null}}

Idle == [pc |-> "idle"]
NoFields == [key |-> Null, note |-> 0]

\* Some call has bumped o's counter, or is deleting o, and has not returned.
InFlight(o) ==
    \E s \in Session : call[s].pc \in {"staged", "committed"}
                       /\ o \in call[s].bumped \cup call[s].deleted

\* What a cover stores of a target: its id, its fields as the transaction
\* reads them, and its live generation.  quiet is history: the fields were
\* still the committed ones and no rewrite of them was in flight.
CoverOf(d, id) ==
    IF Live(d, Tgt(id))
    THEN [id |-> id, fields |-> Object(d, Tgt(id)), v |-> version_counters[Tgt(id)],
          quiet |-> /\ Live(db, Tgt(id)) /\ Object(db, Tgt(id)) = Object(d, Tgt(id))
                    /\ ~ InFlight(Tgt(id))]
    ELSE [id |-> id, fields |-> NoFields, v |-> 0, quiet |-> TRUE]

\* build_covering_rev_value: the first target of each other 1:1 relation.
CoveringRevValue(d, src, rel) ==
    [q \in {p \in OneToOne \ {rel} : Targets(d, src, p) /= {}} |->
        CoverOf(d, Min(Targets(d, src, q)))]

\* build_inflight_cover: the other 1:1 links of the row being created.
InflightCover(d, links, rel) ==
    [q \in (DOMAIN links \cap OneToOne) \ {rel} |-> CoverOf(d, links[q])]

\* refresh_outbound_rev_edges: fresh covers on every reverse edge of o.
OutboundRevEdges(d, o) ==
    {<<<<"r", x[2], x[1], o[2]>>, CoveringRevValue(d, o[2], x[1])>> :
        x \in {x \in Rel \X Id : /\ o[1] = "source" /\ OneToOne /= {}
                                 /\ x[2] \in Targets(d, o[2], x[1])}}

-----------------------------------------------------------------------------
(* Every call: it begins a transaction, stages its writes against the      *)
(* snapshot and the live counters, commits, and finishes.                  *)

Inputs(kind) == {i[2] : i \in {i \in setup.inputs : i[1] = kind}}

Begin(s, kind, arg) ==
    /\ call[s] = Idle
    /\ calls < setup.calls
    /\ calls' = calls + 1
    /\ call' = [call EXCEPT ![s] =
                    [pc |-> "begun", kind |-> kind, arg |-> arg,
                     snap |-> db, dirty |-> {}]]
    /\ UNCHANGED <<db, version_counters, refresh, setup, faults, history>>

Staging(s, kind) == call[s].pc = "begun" /\ call[s].kind = kind

Fails(s) ==
    /\ call' = [call EXCEPT ![s] = Idle]
    /\ UNCHANGED <<db, version_counters, refresh, setup, calls, faults, history>>

\* bump_version on every object in bumped; deleted is delete's set of victims.
BumpVersions(bumped) ==
    [o \in Obj |-> version_counters[o] + (IF o \in bumped THEN 1 ELSE 0)]

Staged(s, write, bumped, deleted) ==
    /\ call' = [call EXCEPT ![s] =
                    [pc |-> "staged", kind |-> @.kind, arg |-> @.arg,
                     snap |-> @.snap, dirty |-> @.dirty, write |-> write,
                     bumped |-> bumped, deleted |-> deleted]]
    /\ version_counters' = BumpVersions(bumped)
    /\ UNCHANGED <<db, refresh, setup, calls, faults, history>>

-----------------------------------------------------------------------------
(* create, create_batch, restore_objects.                                  *)

Ref(row, id) == <<row.type, id>>
FieldsOf(row) == [key |-> row.key, note |-> 0]

\* stage_create_writes rejects a row with a missing link target or a key that
\* is taken in the snapshot or by an earlier row of the batch.
RowFails(d, rows, ids, n) ==
    \/ \E rel \in DOMAIN rows[n].links : ~ Live(d, Tgt(rows[n].links[rel]))
    \/ Taken(d, rows[n].key, Ref(rows[n], ids[n]))
    \/ \E i \in 1 .. n - 1 : rows[i].key = rows[n].key /\ rows[n].key /= Null

RowPuts(d, row, id) ==
    LET o == Ref(row, id)
        edges == {<<id, rel, row.links[rel]>> : rel \in DOMAIN row.links}
    IN  {<<<<"o", o>>, FieldsOf(row)>>}
            \cup {<<k, id>> : k \in UniqueKeys(o, row.key)}
            \cup {<<k, FieldsOf(row)>> : k \in IndexKeys(o, row.key)}
            \cup {<<<<"e", id, e[2], e[3]>>, "edge">> : e \in edges}
            \cup {<<<<"r", e[3], e[2], id>>, InflightCover(d, row.links, e[2])>> : e \in edges}

StageCreateWrites(d, rows, ids) ==
    Write(UNION {RowPuts(d, rows[n], ids[n]) : n \in DOMAIN rows}, {})

Created(rows, ids) == {Ref(rows[n], ids[n]) : n \in DOMAIN rows}

\* create_with_origin takes its id before it begins.
BeginCreate(s) ==
    /\ next_object_id <= MaxId
    /\ next_object_id' = next_object_id + 1
    /\ \E row \in Inputs("create") :
          Begin(s, "create", [rows |-> <<row>>, ids |-> <<next_object_id>>])

StageCreate(s) ==
    /\ Staging(s, "create")
    /\ UNCHANGED next_object_id
    /\ LET a == call[s].arg  d == call[s].snap
       IN  IF RowFails(d, a.rows, a.ids, 1)
           THEN Fails(s)
           ELSE Staged(s, StageCreateWrites(d, a.rows, a.ids), Created(a.rows, a.ids), {})

\* create_batch_with_origin takes the id of each row as it stages it, and stops
\* at the first row that fails.
BeginCreateBatch(s) ==
    /\ UNCHANGED next_object_id
    /\ \E rows \in Inputs("create_batch") :
          Begin(s, "create_batch", [rows |-> rows, ids |-> <<>>])

StageCreateBatch(s) ==
    /\ Staging(s, "create_batch")
    /\ LET rows == call[s].arg.rows
           d == call[s].snap
           ids == [n \in DOMAIN rows |-> next_object_id + n - 1]
           failing == {n \in DOMAIN rows : RowFails(d, rows, ids, n)}
       IN  /\ next_object_id + Len(rows) - 1 <= MaxId
           /\ IF failing /= {}
              THEN Fails(s) /\ next_object_id' = next_object_id + Min(failing)
              ELSE /\ Staged(s, StageCreateWrites(d, rows, ids), Created(rows, ids), {})
                   /\ next_object_id' = next_object_id + Len(rows)

\* restore_objects_with_origin with reject_existing: the caller's id, refused
\* when an object has it.
BeginRestore(s) ==
    /\ UNCHANGED next_object_id
    /\ \E i \in Inputs("restore") :
          Begin(s, "restore", [rows |-> <<i.row>>, ids |-> <<i.id>>])

StageRestore(s) ==
    /\ Staging(s, "restore")
    /\ UNCHANGED next_object_id
    /\ LET a == call[s].arg  d == call[s].snap
       IN  IF Live(d, Ref(a.rows[1], a.ids[1])) \/ RowFails(d, a.rows, a.ids, 1)
           THEN Fails(s)
           ELSE Staged(s, StageCreateWrites(d, a.rows, a.ids), Created(a.rows, a.ids), {})

-----------------------------------------------------------------------------
(* update.                                                                 *)

\* The input of update names an object, one field and its new value.
BeginUpdate(s) ==
    /\ UNCHANGED next_object_id
    /\ \E a \in Inputs("update") : Begin(s, "update", a)

\* The fields after the update is merged into the stored ones.
Merged(old, a) ==
    IF a.field = "key" THEN [old EXCEPT !.key = a.key] ELSE [old EXCEPT !.note = a.note]

\* The u: entry is moved when key is among the updates.
UniqueWrite(o, old, new, field) ==
    IF field = "key"
    THEN Write({<<k, o[2]>> : k \in UniqueKeys(o, new.key)}, UniqueKeys(o, old.key))
    ELSE Write({}, {})

\* Mutant: the payload of an entry whose key did not change is left alone.
RewriteObjectIfMoved(d, o, old, new) ==
    Write({<<k, new>> : k \in IndexKeys(o, new.key) \ IndexKeys(o, old.key)}
              \cup OutboundRevEdges(d, o)
              \cup {<<<<"g", o>>, version_counters[o] + 1>>},
          IndexKeys(o, old.key) \ IndexKeys(o, new.key))

\* rewrite_object_and_maintain_covers: the i: entry is moved or its payload is
\* rewritten, the covers on the outbound reverse edges are rebuilt, and the
\* generation is bumped and persisted.
RewriteObject(d, o, old, new) ==
    Write({<<k, new>> : k \in IndexKeys(o, new.key)}
              \cup OutboundRevEdges(d, o)
              \cup {<<<<"g", o>>, version_counters[o] + 1>>},
          IndexKeys(o, old.key))

StageUpdate(s) ==
    /\ Staging(s, "update")
    /\ UNCHANGED next_object_id
    /\ LET a == call[s].arg
           d == call[s].snap
           old == Object(d, a.o)
           new == Merged(old, a)
           u == UniqueWrite(a.o, old, new, a.field)
           w == RewriteObject(d, a.o, old, new)
       IN  IF ~ Live(d, a.o) \/ (a.field = "key" /\ Taken(d, a.key, a.o))
           THEN Fails(s)
           ELSE Staged(s, Write(u.puts \cup w.puts \cup {<<<<"o", a.o>>, new>>},
                                u.dels \cup w.dels),
                       {a.o}, {})
-----------------------------------------------------------------------------
(* delete.                                                                 *)

BeginDelete(s) ==
    /\ UNCHANGED next_object_id
    /\ \E o \in Inputs("delete") : Begin(s, "delete", [o |-> o])

\* The relations, and the edges, by which o is referenced in d.
Incoming(d, o) ==
    {rel \in Rel : o[1] = "target" /\ Sources(d, o[2], rel) /= {}}
IncomingEdges(d, o) ==
    UNION {{<<s, rel, o[2]>> : s \in Sources(d, o[2], rel)} : rel \in Incoming(d, o)}

Denied(d, o) == \E rel \in Incoming(d, o) : setup.policy[rel] = "deny"

\* The relation by which the cascade first reaches the source src of o.
Via(d, o, src) ==
    Min({rel \in Incoming(d, o) : setup.policy[rel] = "cascade" /\ src \in Sources(d, o[2], rel)})

Cascade(d, o) ==
    UNION {Sources(d, o[2], rel) :
               rel \in {rel \in Incoming(d, o) : setup.policy[rel] = "cascade"}}

\* The outbound edges of src that a cascade from o removes: nothing more of the
\* relation it came by, the targets the cover names, and a scan of the rest.
CascadedEdges(d, o, src) ==
    LET via == Via(d, o, src)
        cover == d[<<"r", o[2], via, src>>]
        scanned == Rel \ ({via} \cup DOMAIN cover)
    IN  {<<src, rel, cover[rel].id>> : rel \in DOMAIN cover}
            \cup UNION {{<<src, rel, t>> : t \in Targets(d, src, rel)} : rel \in scanned}

\* Mutant: the outbound edges are left to the targets.
OutboundEdgesKept(d, o) == {}

OutboundEdges(d, o) ==
    IF o[1] = "source"
    THEN UNION {{<<o[2], rel, t>> : t \in Targets(d, o[2], rel)} : rel \in Rel}
    ELSE {}

\* The keys of the object itself; g: only when it was ever updated.
OwnKeys(d, o) ==
    {<<"o", o>>}
        \cup (IF version_counters[o] > 1 THEN {<<"g", o>>} ELSE {})
        \cup (IF Live(d, o)
              THEN UniqueKeys(o, Object(d, o).key) \cup IndexKeys(o, Object(d, o).key)
              ELSE {})

\* delete_inner, with its cascade.
DeleteInner(d, o) ==
    LET victims == {o} \cup {Src(src) : src \in Cascade(d, o)}
        edges == IncomingEdges(d, o) \cup OutboundEdges(d, o)
                     \cup UNION {CascadedEdges(d, o, src) : src \in Cascade(d, o)}
    IN  [victims |-> victims,
         keys |-> EdgeKeys(edges) \cup UNION {OwnKeys(d, x) : x \in victims}]

StageDelete(s) ==
    /\ Staging(s, "delete")
    /\ UNCHANGED next_object_id
    /\ LET o == call[s].arg.o  d == call[s].snap
       IN  IF ~ Live(d, o) \/ Denied(d, o)
           THEN Fails(s)
           ELSE Staged(s, Write({}, DeleteInner(d, o).keys), {}, DeleteInner(d, o).victims)

-----------------------------------------------------------------------------
(* link and unlink.                                                        *)

BeginLink(s) ==
    /\ UNCHANGED next_object_id
    /\ \E kind \in {"link", "unlink"} : \E e \in Inputs(kind) :
          Begin(s, kind, [src |-> e[1], rel |-> e[2], tgt |-> e[3]])

StageLink(s) ==
    /\ Staging(s, "link")
    /\ UNCHANGED next_object_id
    /\ LET a == call[s].arg  d == call[s].snap
       IN  IF Live(d, Src(a.src)) /\ Live(d, Tgt(a.tgt))
           THEN Staged(s, Write({<<<<"e", a.src, a.rel, a.tgt>>, "edge">>,
                                 <<<<"r", a.tgt, a.rel, a.src>>,
                                   CoveringRevValue(d, a.src, a.rel)>>}, {}), {}, {})
           ELSE Fails(s)

\* unlink checks nothing.
StageUnlink(s) ==
    /\ Staging(s, "unlink")
    /\ UNCHANGED next_object_id
    /\ LET a == call[s].arg
       IN  Staged(s, Write({}, EdgeKeys({<<a.src, a.rel, a.tgt>>})), {}, {})
-----------------------------------------------------------------------------
(* Commit.                                                                 *)

\* The edges a write puts and the edges of a database.
EdgesPut(w) == {<<k[2], k[3], k[4]>> : k \in {k \in PutKeys(w.puts) : k[1] = "e"}}
Edges(d) == {<<k[2], k[3], k[4]>> : k \in {k \in DOMAIN d : k[1] = "e"}}
Ends(e) == {Src(e[1]), Tgt(e[3])}

\* The writes of s reach the database; the others' snapshots are behind by
\* them.
Published(s) ==
    LET c == call[s]
        news == {o \in Obj : <<"o", o>> \in PutKeys(c.write.puts) /\ c.kind /= "update"}
    IN  /\ c.pc = "staged"
        /\ WriteSet(c.write) \cap c.dirty = {}
        /\ db' = Apply(db, c.write)
        /\ born' = born \cup news
        /\ reborn' = reborn \cup (born \cap news)
        /\ collided' = collided \cup {o \in news : Live(db, o)}
        /\ skewed' = skewed
              \cup {e \in EdgesPut(c.write) : \E o \in Ends(e) :
                        ~ Live(db, o) /\ <<"o", o>> \notin PutKeys(c.write.puts)}
              \cup {e \in Edges(db) : Ends(e) \cap c.deleted /= {}
                                      /\ <<"e", e[1], e[2], e[3]>> \notin DOMAIN c.snap}
        /\ cascaded' = cascaded \cup (IF c.kind = "delete" THEN c.deleted \ {c.arg.o} ELSE {})

\* The calls after s has written, with s at its next stop.
Behind(s, next) ==
    [x \in Session |->
        IF x = s THEN next
        ELSE IF call[x].pc \in {"begun", "staged"}
             THEN [call[x] EXCEPT !.dirty = @ \cup WriteSet(call[s].write)]
             ELSE call[x]]

Commit(s) ==
    /\ Published(s)
    /\ call' = Behind(s, IF call[s].kind \in {"update", "delete", "restore"}
                         THEN [pc |-> "committed", kind |-> call[s].kind, arg |-> call[s].arg,
                               bumped |-> call[s].bumped, deleted |-> call[s].deleted]
                         ELSE Idle)
    /\ UNCHANGED <<version_counters, next_object_id, refresh, setup, calls, faults, erred>>

\* rollback_version: one down, and the entry is dropped at zero.
RollbackVersions(bumped) ==
    [o \in Obj |-> IF o \in bumped /\ version_counters[o] > 0
                   THEN version_counters[o] - 1 ELSE version_counters[o]]

\* A write conflict: nothing lands and the bump is undone.
CommitConflict(s) ==
    /\ call[s].pc = "staged"
    /\ WriteSet(call[s].write) \cap call[s].dirty /= {}
    /\ version_counters' = RollbackVersions(call[s].bumped)
    /\ call' = [call EXCEPT ![s] = Idle]
    /\ UNCHANGED <<db, next_object_id, refresh, setup, calls, faults, history>>

\* The commit is published, then the flush it triggers fails: the caller sees an
\* error, undoes the bump and skips what follows a commit.
CommitErrs(s) ==
    /\ faults < setup.faults
    /\ Published(s)
    /\ call' = Behind(s, Idle)
    /\ version_counters' = RollbackVersions(call[s].bumped)
    /\ erred' = TRUE
    /\ faults' = faults + 1
    /\ UNCHANGED <<next_object_id, refresh, setup, calls>>

\* After the commit: update asks for a cover refresh, delete forgets the
\* counters of its victims, restore moves next_object_id past its id.
Finish(s) ==
    LET c == call[s]
    IN  /\ c.pc = "committed"
        /\ call' = [call EXCEPT ![s] = Idle]
        /\ version_counters' =
              [o \in Obj |-> IF o \in c.deleted THEN 0 ELSE version_counters[o]]
        /\ next_object_id' = IF c.kind = "restore"
                             THEN Max({next_object_id, c.arg.ids[1] + 1})
                             ELSE next_object_id
        /\ refresh_queue' = IF c.kind = "update"
                            THEN Append(refresh_queue, c.arg.o)
                            ELSE refresh_queue
        /\ UNCHANGED <<db, refresh_sources, setup, calls, faults, history>>

-----------------------------------------------------------------------------
(* The cover-refresh worker, and restarts.                                 *)

\* refresh_covers_for_target, read pass: the sources with a 1:1 edge to it.
RefreshRead ==
    /\ refresh_queue /= <<>>
    /\ refresh_sources = {}
    /\ LET o == Head(refresh_queue)
       IN  refresh_sources' = IF o[1] = "target"
                              THEN UNION {Sources(db, o[2], rel) : rel \in OneToOne}
                              ELSE {}
    /\ refresh_queue' = Tail(refresh_queue)
    /\ UNCHANGED <<store, call, setup, calls, faults, history>>

\* Write pass, under maintenance_lock.write(): no call is in progress.
RefreshWrite ==
    /\ refresh_sources /= {}
    /\ \A s \in Session : call[s] = Idle
    /\ db' = Apply(db, Write(UNION {OutboundRevEdges(db, Src(src)) :
                                        src \in {x \in refresh_sources : Live(db, Src(x))}}, {}))
    /\ refresh_sources' = {}
    /\ UNCHANGED <<version_counters, next_object_id, call, refresh_queue,
                   setup, calls, faults, history>>

\* Mutant: generations are rebuilt from the objects alone.
SeededVersionsBorn ==
    [o \in Obj |-> IF Live(db, o) THEN 1 ELSE 0]

\* rebuild_with_arc_storage: a live object is at generation 1, or at the one it
\* persisted.
SeededVersions ==
    [o \in Obj |-> IF <<"g", o>> \in DOMAIN db THEN db[<<"g", o>>]
                   ELSE IF Live(db, o) THEN 1 ELSE 0]

\* Ids continue after the highest live one.
Restart ==
    /\ faults < setup.faults
    /\ faults' = faults + 1
    /\ call' = [s \in Session |-> Idle]
    /\ refresh_queue' = <<>>
    /\ refresh_sources' = {}
    /\ version_counters' = SeededVersions
    /\ next_object_id' = Max({o[2] : o \in {o \in Obj : Live(db, o)}} \cup {0}) + 1
    /\ UNCHANGED <<db, setup, calls, history>>

-----------------------------------------------------------------------------
Init ==
    /\ setup \in Setups
    /\ db = setup.db
    /\ version_counters = SeededVersions
    /\ next_object_id = Max({o[2] : o \in {o \in Obj : Live(db, o)}} \cup {0}) + 1
    /\ call = [s \in Session |-> Idle]
    /\ refresh_queue = <<>> /\ refresh_sources = {}
    /\ calls = 0 /\ faults = 0
    /\ born = {o \in Obj : Live(db, o)}
    /\ reborn = {} /\ collided = {} /\ erred = FALSE /\ skewed = {} /\ cascaded = {}

Next ==
    \/ \E s \in Session :
          \/ BeginCreate(s) \/ StageCreate(s)
          \/ BeginCreateBatch(s) \/ StageCreateBatch(s)
          \/ BeginRestore(s) \/ StageRestore(s)
          \/ BeginUpdate(s) \/ StageUpdate(s)
          \/ BeginDelete(s) \/ StageDelete(s)
          \/ BeginLink(s) \/ StageLink(s) \/ StageUnlink(s)
          \/ Commit(s) \/ CommitConflict(s) \/ CommitErrs(s) \/ Finish(s)
    \/ RefreshRead \/ RefreshWrite
    \/ Restart

Spec == Init /\ [][Next]_vars

-----------------------------------------------------------------------------
(* Properties.                                                             *)

\* Every variable has its type; counters never go below zero.
TypeOK ==
    /\ version_counters \in [Obj -> Nat]
    /\ next_object_id \in Nat
    /\ \A s \in Session : call[s].pc \in {"idle", "begun", "staged", "committed"}
    /\ refresh_queue \in Seq(Obj)
    /\ refresh_sources \subseteq Id

EKey(src, rel, tgt) == <<"e", src, rel, tgt>>
RKey(src, rel, tgt) == <<"r", tgt, rel, src>>
OKey(o) == <<"o", o>>
UKey(o, key) == <<"u", o[1], key>>
IKey(o, key) == <<"i", key, o>>

\* An edge has its reverse edge, and a reverse edge its edge.
Paired(d) ==
    \A src, tgt \in Id, rel \in Rel :
        EKey(src, rel, tgt) \in DOMAIN d <=> RKey(src, rel, tgt) \in DOMAIN d

\* An object with a key has an entry in both indexes, the unique one naming it,
\* so that no two objects of a type share a key; every unique entry names an
\* object with that key; every covering entry holds an object with that key as
\* it is now.
Indexed(d) ==
    /\ \A o \in Obj : Live(d, o) /\ Object(d, o).key /= Null =>
          /\ UKey(o, Object(d, o).key) \in DOMAIN d
          /\ d[UKey(o, Object(d, o).key)] = o[2]
          /\ IKey(o, Object(d, o).key) \in DOMAIN d
    /\ \A t \in Type, v \in KeyValue : <<"u", t, v>> \in DOMAIN d =>
          LET o == <<t, d[<<"u", t, v>>]>>
          IN  o \in Obj /\ Live(d, o) /\ Object(d, o).key = v
    /\ \A k \in DOMAIN d : k[1] = "i" =>
          \E o \in Obj, v \in KeyValue :
              k = IKey(o, v) /\ Live(d, o) /\ Object(d, o).key = v /\ d[k] = Object(d, o)

\* The objects of d have fields, and its edges join ids by relations.
IsFields(f) == f = [key |-> f.key, note |-> f.note] /\ f.key \in KeyValue \cup {Null}
Typed(d) ==
    /\ \A o \in Obj : Live(d, o) => IsFields(Object(d, o))
    /\ \A k \in DOMAIN d : k[1] = "e" =>
          \E src, tgt \in Id, rel \in Rel : k = EKey(src, rel, tgt)

Whole(d, e) == \A o \in Ends(e) : Live(d, o)

\* The databases of the setups are ones that earlier calls leave.
ASSUME SetupAssumption ==
    \A x \in Setups :
        Paired(x.db) /\ Indexed(x.db) /\ Typed(x.db) /\ \A e \in Edges(x.db) : Whole(x.db, e)

\* An edge and its reverse edge exist together, whatever updates, refreshes,
\* cascades and unlinks of the same source interleave.
EdgesPaired == Paired(db)

\* Whatever creates, updates, deletes and cascades raced, both indexes of the key
\* field agree with the objects (stage_unique, stage_field_index): no two live
\* objects share a key, no freed key stays taken, no payload is stale.
IndexesExact == collided = {} => Indexed(db)

\* An edge loses an end only if a link ran beside the delete of that end, or if
\* a cascade deleted its source.
DanglingExplained ==
    \A e \in Edges(db) : Whole(db, e) \/ e \in skewed \/ Src(e[1]) \in cascaded

\* The fusion reader's test: this cover is taken for the target's fields.
Trusted(cover) ==
    /\ cover.fields /= NoFields
    /\ cover.v = version_counters[Tgt(cover.id)] /\ cover.v /= 0

Covers == UNION {{db[k][q] : q \in DOMAIN db[k]} : k \in {k \in DOMAIN db : k[1] = "r"}}

Current(cover) ==
    Live(db, Tgt(cover.id)) /\ Object(db, Tgt(cover.id)) = cover.fields

\* A cover the reader trusts holds the target's current fields, if it was
\* stamped while no rewrite of the target was in flight and none is now, the
\* target's id was never reused, and no published commit reported an error.
TrustedCoverCurrent ==
    \A c \in Covers : Trusted(c) /\ c.quiet /\ ~ InFlight(Tgt(c.id))
                      /\ Tgt(c.id) \notin reborn /\ ~ erred => Current(c)

\* With no call in progress, an object has a generation exactly when it lives.
GenerationMeansLive ==
    (\A s \in Session : call[s] = Idle) /\ ~ erred /\ reborn = {} =>
        \A o \in Obj : version_counters[o] > 0 <=> Live(db, o)

\* A reverse edge's cover that the reader trusts is current, and the generations it
\* is judged by stand for the objects that live: TrustedCoverCurrent and
\* GenerationMeansLive (build_covering_rev_value, version_counters).
CoversCurrent == TrustedCoverCurrent /\ GenerationMeansLive

\* README: the database guarantees no dangling references.
NoDanglingEdge == \A e \in Edges(db) : Whole(db, e)

\* The reader's test detects every cover that an update has made stale.
StaleCoverDetected ==
    \A c \in Covers : Trusted(c) /\ ~ InFlight(Tgt(c.id)) => Current(c)
=============================================================================
