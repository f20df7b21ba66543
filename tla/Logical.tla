------------------------------- MODULE Logical -------------------------------
(* Logical export and import: the NDJSON dump of a database as a sequence of *)
(* lines, the validation of a file, and the offline and online imports that  *)
(* replay one through the write path.                                        *)
(*                                                                           *)
(* A database is [objects, edges, vectors]: objects [type, id, v] where v is *)
(* a @unique field or Null, forward edges [type, src, field, dst] and raw    *)
(* vectors [type, id, field, v].  Types and fields are numbered in the       *)
(* order an export visits them.                                              *)
EXTENDS Integers, SequencesExt

CONSTANTS
  Types,         \* the schema's types
  Target,        \* relation field -> the type it points to
  Vectorized,    \* the <<type, field>> declared @vectorize; other vector fields are BYO
  IMPORT_CHUNK,  \* rows per engine call
  Null

NoDb == [objects |-> {}, edges |-> {}, vectors |-> {}]
Exists(db, t, id) == \E o \in db.objects : o.type = t /\ o.id = id

\* A section's lines, in key order.
Precedes(a, b) == \E i \in 1 .. 3 : a[i] < b[i] /\ \A j \in 1 .. i - 1 : a[j] = b[j]
Lines(S) == SetToSortSeq(S, LAMBDA a, b : Precedes(a.at, b.at))

-----------------------------------------------------------------------------
\* Export: database.rs export_sections, at one pinned snapshot.

ObjectLines(db, types) ==
  Lines({[kind |-> "object", type |-> o.type, at |-> <<o.type, o.id, 0>>, row |-> o] :
           o \in {p \in db.objects : p.type \in types}})

\* Forward edges of the objects that exist, toward an exported type.
\* Mutant: edges toward a type left out of the export are kept.
ExportedEdgesAll(db, types) ==
  {e \in db.edges : e.type \in types /\ Exists(db, e.type, e.src)}
ExportedEdges(db, types) ==
  {e \in db.edges : e.type \in types /\ Exists(db, e.type, e.src) /\ Target[e.field] \in types}

EdgeLines(db, types) ==
  Lines({[kind |-> "edge", type |-> e.type, at |-> <<e.src, e.field, e.dst>>, row |-> e] :
           e \in ExportedEdges(db, types)})

\* Raw vectors, of a deleted object too; a reembed export leaves out the
\* @vectorize fields and a none export all.
ExportedVectors(db, types, mode) ==
  {x \in db.vectors : /\ x.type \in types /\ mode # "none"
                      /\ mode = "reembed" => <<x.type, x.field>> \notin Vectorized}

VectorLines(db, types, mode) ==
  Lines({[kind |-> "vector", type |-> x.type, at |-> <<x.type, x.id, x.field>>, row |-> x] :
           x \in ExportedVectors(db, types, mode)})

Count(lines, kind, t) ==
  Len(SelectSeq(lines, LAMBDA l : l.kind = kind /\ l.type = t))

Tally(lines, t) == [objects |-> Count(lines, "object", t), edges |-> Count(lines, "edge", t),
                    vectors |-> Count(lines, "vector", t)]

export_sections(db, types, mode) ==
  LET data == ObjectLines(db, types) \o EdgeLines(db, types) \o VectorLines(db, types, mode)
  IN  <<[kind |-> "header"], [kind |-> "schema"]>> \o data
      \o <<[kind |-> "trailer", counts |-> [t \in types |-> Tally(data, t)]]>>

-----------------------------------------------------------------------------
\* import.rs validate_file; the CLI's verify_export_file makes the same checks.

DataLines(lines) == SelectSeq(lines, LAMBDA l : l.kind \in {"object", "edge", "vector"})

CountsAgree(data, counts) ==
  /\ \A t \in DOMAIN counts : Tally(data, t) = counts[t]
  /\ \A i \in DOMAIN data : data[i].type \in DOMAIN counts

validate_file(lines) ==
  /\ lines # <<>> /\ lines[1].kind = "header"
  /\ \A i \in 2 .. Len(lines) : lines[i].kind # "header"
  /\ \E i \in DOMAIN lines : lines[i].kind = "schema"
  /\ \E i \in DOMAIN lines : lines[i].kind = "trailer"
  /\ \A i \in 1 .. Len(lines) - 1 : lines[i].kind # "trailer"
  /\ CountsAgree(DataLines(lines), lines[Len(lines)].counts)

-----------------------------------------------------------------------------
\* The engine calls of an import, on [ok, db]: nothing is written once one
\* has failed.

Uniques(objects, t) == {o \in objects : o.type = t /\ o.v # Null}

\* database.rs restore_objects_with_origin: one transaction for the chunk.
Refused(db, rows, reject_existing) ==
  reject_existing /\ \E i \in DOMAIN rows : Exists(db, rows[i].type, rows[i].id)

restore_objects(r, rows, reject_existing) ==
  LET db == r.db
      new == ToSet(rows)
      kept == {o \in db.objects : ~ \E n \in new : n.type = o.type /\ n.id = o.id}
      clash == \E n \in new, o \in kept \cup new :
                 o.type = n.type /\ o.id # n.id /\ n.v # Null /\ o.v = n.v
  IN  IF ~ r.ok \/ rows = <<>> THEN r
      ELSE IF Refused(db, rows, reject_existing) \/ clash THEN [r EXCEPT !.ok = FALSE]
      ELSE [r EXCEPT !.db.objects = kept \cup new]

\* Both endpoints must exist.
link(r, e) ==
  IF r.ok /\ Exists(r.db, e.type, e.src) /\ Exists(r.db, Target[e.field], e.dst)
  THEN [r EXCEPT !.db.edges = @ \cup {e}] ELSE [r EXCEPT !.ok = FALSE]

\* restore_vectors offline, ingest_vectors online: neither looks for the object.
flush_vectors(r, rows) ==
  LET new == ToSet(rows)
  IN  IF r.ok
      THEN [r EXCEPT !.db.vectors =
              {x \in @ : ~ \E n \in new : <<n.type, n.id, n.field>> = <<x.type, x.id, x.field>>} \cup new]
      ELSE r

\* import_pass: objects are buffered per type and vectors per field, and
\* flushed when that changes, at a full chunk and when another section begins.
FlushObjects(st, reject_existing) ==
  [st EXCEPT !.r = restore_objects(st.r, st.rows, reject_existing), !.rows = <<>>]
FlushVectors(st) == [st EXCEPT !.r = flush_vectors(st.r, st.vecs), !.vecs = <<>>]

OnObject(st, o, reject_existing) ==
  LET s == IF st.rows # <<>> /\ st.rows[1].type # o.type THEN FlushObjects(st, reject_existing) ELSE st
      t == [s EXCEPT !.rows = Append(@, o), !.n.objects = @ + 1]
  IN  IF Len(t.rows) >= IMPORT_CHUNK THEN FlushObjects(t, reject_existing) ELSE t

OnEdge(st, e, reject_existing) ==
  LET s == FlushObjects(st, reject_existing)
  IN  [s EXCEPT !.r = link(s.r, e), !.n.edges = @ + 1]

OnVector(st, x, reject_existing, mode) ==
  LET s == FlushObjects(st, reject_existing)
      t == IF s.vecs # <<>> /\ <<s.vecs[1].type, s.vecs[1].field>> # <<x.type, x.field>>
           THEN FlushVectors(s) ELSE s
      u == [t EXCEPT !.vecs = Append(@, x), !.n.vectors = @ + 1]
  IN  IF mode = "none" THEN s ELSE IF Len(u.vecs) >= IMPORT_CHUNK THEN FlushVectors(u) ELSE u

import_pass(lines, db, mode, reject_existing) ==
  LET start == [r |-> [ok |-> TRUE, db |-> db], rows |-> <<>>, vecs |-> <<>>,
                n |-> [objects |-> 0, edges |-> 0, vectors |-> 0]]
      step(st, l) ==
        IF ~ st.r.ok THEN st
        ELSE CASE l.kind = "object"  -> OnObject(st, l.row, reject_existing)
               [] l.kind = "edge"    -> OnEdge(st, l.row, reject_existing)
               [] l.kind = "vector"  -> OnVector(st, l.row, reject_existing, mode)
               [] l.kind = "trailer" -> FlushVectors(FlushObjects(st, reject_existing))
               [] OTHER -> st
  IN  FlushVectors(FlushObjects(FoldLeft(step, start, lines), reject_existing))

\* Reembed: every @vectorize field again from its source text (here, v); embeds
\* says whether the build has an embedder, and its models load and fit.
Embedded(objects) ==
  {[type |-> o.type, id |-> o.id, field |-> f, v |-> o.v] :
     o \in {p \in objects : p.v # Null}, f \in {x[2] : x \in Vectorized}}
reembed_pass(r, embeds) ==
  IF Vectorized # {} /\ ~ embeds THEN [ok |-> FALSE, db |-> NoDb]
  ELSE flush_vectors(r, SetToSeq({x \in Embedded(r.db.objects) : <<x.type, x.field>> \in Vectorized}))

\* What was imported against the totals of the file that was validated.
verify_counts(n, lines, mode) ==
  LET of(kind) == Len(SelectSeq(lines, LAMBDA l : l.kind = kind))
  IN  /\ n.objects = of("object") /\ n.edges = of("edge")
      /\ mode = "raw" => n.vectors = of("vector")

\* run_import: built in a staging directory, installed whole or not at all.
\* The file is read twice: validated first, then replayed.
run_import(checked, lines, mode, embeds) ==
  LET st == import_pass(lines, NoDb, mode, FALSE)
  IN  IF ~ validate_file(checked) \/ ~ st.r.ok \/ ~ verify_counts(st.n, checked, mode)
      THEN [ok |-> FALSE, db |-> NoDb]
      ELSE IF mode = "reembed" THEN reembed_pass(st.r, embeds) ELSE st.r

\* run_online_import: straight into the live database; what was written before
\* a failure stays.
run_online_import(lines, live, mode) ==
  LET st == import_pass(lines, live, mode, TRUE)
  IN  IF ~ validate_file(lines) THEN [ok |-> FALSE, db |-> live]
      ELSE [ok |-> st.r.ok /\ verify_counts(st.n, lines, mode), db |-> st.r.db]

-----------------------------------------------------------------------------
Importable(db, types) == \A e \in ExportedEdges(db, types) : Exists(db, Target[e.field], e.dst)

\* What a database is after an export of the types and an import of the dump.
Expected(db, types, mode) ==
  LET objects == {o \in db.objects : o.type \in types}
      own(x) == <<x.type, x.field>> \in Vectorized
  IN  [objects |-> objects,
       edges |-> {e \in db.edges : /\ e.type \in types /\ Target[e.field] \in types
                                   /\ Exists(db, e.type, e.src)},
       vectors |-> CASE mode = "raw" -> {x \in db.vectors : x.type \in types}
                     [] mode = "none" -> {}
                     [] mode = "reembed" ->
                          {x \in db.vectors : x.type \in types /\ ~ own(x)}
                            \cup {x \in Embedded(objects) : own(x)}]

\* The files a lost, repeated or displaced line, or a cut download, leaves.
Damaged(lines) ==
  {RemoveAt(lines, i) : i \in DOMAIN lines}
    \cup {InsertAt(lines, i, lines[i]) : i \in DOMAIN lines}
    \cup {SubSeq(lines, 1, i) : i \in 0 .. Len(lines) - 1}
    \cup {[lines EXCEPT ![i] = lines[i + 1], ![i + 1] = lines[i]] : i \in 1 .. Len(lines) - 1}

\* A dump of a database whose exported edges all have their target is
\* accepted, and importing it rebuilds exactly the exported part, whatever
\* the chunk boundaries.
RoundTrip(db, types, mode) ==
  Importable(db, types) =>
    LET lines == export_sections(db, types, mode)
    IN  run_import(lines, lines, mode, TRUE) = [ok |-> TRUE, db |-> Expected(db, types, mode)]

\* A damaged dump is refused or still means the same database: neither a
\* file with a lost or cut line nor one that loses a line between its two
\* reads ever installs a smaller database, and neither does an import whose
\* models are not there.
NeverSilentlyDifferent(db, types, mode) ==
  LET lines == export_sections(db, types, mode)
      whole == run_import(lines, lines, mode, TRUE)
      same(r) == r.ok => whole.ok /\ r.db = whole.db
  IN  /\ same(run_import(lines, lines, mode, FALSE))
      /\ \A d \in Damaged(lines) :
           same(run_import(d, d, mode, TRUE)) /\ (mode = "raw" => same(run_import(lines, d, mode, TRUE)))

Colliding(db, live) ==
  \E x \in db.vectors : ~ Exists(db, x.type, x.id) /\ Exists(live, x.type, x.id)

\* An online import only adds: whatever the dump and however far it gets, no
\* object, edge or vector the live database already holds is changed or lost.
AdditiveOnly(db, live, types, mode) ==
  LET after == run_online_import(export_sections(db, types, mode), live, mode).db
  IN  /\ live.objects \subseteq after.objects
      /\ live.edges \subseteq after.edges
      /\ ~ Colliding(db, live) => live.vectors \subseteq after.vectors
=============================================================================
