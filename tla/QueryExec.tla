------------------------------ MODULE QueryExec ------------------------------
(***************************************************************************)
(* The execution of a query, a source and then its steps, by one caller:   *)
(* crates/rhypedb-query/src/executor.rs with the budgets of governor.rs    *)
(* and the read and write rules of authz.rs.                               *)
(*                                                                         *)
(* A database holds objects (type, value, generation), edges <<source,     *)
(* relation, target>>, and for each edge the bytes kept with its reverse.  *)
(* These name the source's targets by its 1:1 relations, each with a cover *)
(* of the target, if there is one: its value, its generation at the time,  *)
(* and bytes that name its own targets.  A context has the limits of the   *)
(* governor (0: none) and the rules: which objects the caller may read and *)
(* write, whether it may create, and the edges that each judgement costs.  *)
(***************************************************************************)
EXTENDS SequencesExt, Integers

CONSTANTS
    Relation,   \* <<type, field>> -> [target, many, via]; via is the field of
                \* which this one is the inverse, or Forward
    Forward,
    NoCover,
    NoBytes,
    NoRules,
    Words,      \* the full-text words of a value
    ExactFilterMax, \* EXACT_FILTER_MAX
    MaxPool     \* MAX_VECTOR_SEARCH_POOL

Ascending(ids) == SetToSortSeq(ids, LAMBDA a, b : a < b)
Take(s, n) == SubSeq(s, 1, Min({n, Len(s)}))
Skip(s, n) == SubSeq(s, n + 1, Len(s))

\* The rows whose id no earlier row has.
Firsts(rows) ==
    LET first(i) == \A j \in 1 .. i - 1 : rows[j].id /= rows[i].id
        at == SelectSeq([i \in DOMAIN rows |-> i], first)
    IN  [i \in DOMAIN at |-> rows[at[i]]]

-----------------------------------------------------------------------------
(* The database.                                                           *)

Row(id, val, bytes) == [id |-> id, val |-> val, bytes |-> bytes]
Ids(rows) == [i \in DOMAIN rows |-> rows[i].id]
Exists(db, t, id) == id \in DOMAIN db.objs /\ db.objs[id].type = t

get(db, id) == Row(id, db.objs[id].val, NoBytes)

scan_type(db, t) ==
    LET ids == Ascending({o \in DOMAIN db.objs : db.objs[o].type = t})
    IN  [i \in DOMAIN ids |-> get(db, ids[i])]

\* In the order of the ids, each once, without those that are gone; the bytes
\* are the row's own and name no target.
get_many_lazy(db, t, ids) ==
    LET found == Ascending({o \in Range(ids) : Exists(db, t, o)})
    IN  [i \in DOMAIN found |-> Row(found[i], db.objs[found[i]].val, <<>>)]

object_version(db, id) == IF id \in DOMAIN db.objs THEN db.objs[id].gen ELSE 0

\* get_links_many, for one source: the other ends, with the bytes of the reverse
\* edge when the field is an inverse.
get_links(db, t, f, id) ==
    LET via == Relation[<<t, f>>].via
        ends == IF via = Forward
                THEN {e[3] : e \in {e \in db.edges : e[1] = id /\ e[2] = <<t, f>>}}
                ELSE {e[1] : e \in {e \in db.edges : e[3] = id /\ e[2] = via}}
        ids == Ascending(ends)
    IN  [i \in DOMAIN ids |->
            Row(ids[i], 0, IF via = Forward THEN NoBytes ELSE db.rev[<<ids[i], via, id>>])]

\* The 1:1 forward relations that an object has a target by, and the target.
Singles(db, id) ==
    {f \in {r[2] : r \in DOMAIN Relation} :
        LET r == <<db.objs[id].type, f>>
        IN  /\ r \in DOMAIN Relation /\ ~Relation[r].many /\ Relation[r].via = Forward
            /\ \E e \in db.edges : e[1] = id /\ e[2] = r}
\* The edges of a prefix are scanned in the order of their targets.
TargetBy(db, id, f) == Min({e[3] : e \in {e \in db.edges : e[1] = id /\ e[2] = <<db.objs[id].type, f>>}})

Cover(db, id, bytes) == [val |-> db.objs[id].val, v |-> object_version(db, id), bytes |-> bytes]

with_nested_forward_covers(db, id) ==
    Cover(db, id,
          [f \in {f \in Singles(db, id) : TargetBy(db, id, f) \in DOMAIN db.objs} |->
              LET next == TargetBy(db, id, f) IN [id |-> next, cover |-> Cover(db, next, <<>>)]])

\* The bytes of the reverse of the edge from a source by a field to a target.
build_covering_rev_value(db, id, field, target) ==
    LET others == Singles(db, id) \ {field}
        other(f) == TargetBy(db, id, f)
    IN  IF others = {} THEN <<>>
        ELSE [f \in others \cup {field} |->
                IF f = field THEN [id |-> target, cover |-> NoCover]
                ELSE [id |-> other(f),
                      cover |-> IF other(f) \in DOMAIN db.objs THEN with_nested_forward_covers(db, other(f))
                                ELSE NoCover]]

\* Database::update, delete, link and unlink, by their effect (module Objects): an
\* update starts a new generation and rebuilds the bytes of the object's own edges;
\* a link is stored under the field it is made by, an inverse one too, and takes
\* no earlier link away.
Updated(db, id, val) ==
    LET changed == [db EXCEPT !.objs[id].val = val, !.objs[id].gen = @ + 1]
    IN  [changed EXCEPT !.rev =
            [k \in DOMAIN @ |-> IF k[1] = id THEN build_covering_rev_value(changed, id, k[2][2], k[3]) ELSE @[k]]]

Deleted(db, id) ==
    LET edges == {e \in db.edges : id \notin {e[1], e[3]}}
    IN  [db EXCEPT !.objs = Restrict(@, DOMAIN @ \ {id}), !.edges = edges, !.rev = Restrict(@, edges)]

Linked(db, e) ==
    LET value == build_covering_rev_value(db, e[1], e[2][2], e[3])
    IN  [db EXCEPT !.edges = @ \cup {e}, !.rev = [k \in DOMAIN @ \cup {e} |-> IF k = e THEN value ELSE @[k]]]

Unlinked(db, e) == [db EXCEPT !.edges = @ \ {e}, !.rev = Restrict(@, DOMAIN @ \ {e})]

-----------------------------------------------------------------------------
(* The state of an execution: what the last step gave, the database, the   *)
(* rows charged, how often the clock was read, the first error, what was   *)
(* written, and, a history, whether a fused hop met rows that do not name  *)
(* its target.                                                             *)

Output(is, type, rows) == [is |-> is, type |-> type, rows |-> rows]
Done == Output("done", "", <<>>)
Start(db) == [out |-> Done, db |-> db, spent |-> 0, clock |-> 0, err |-> "", written |-> <<>>, mixed |-> FALSE]
Fails(s, why) == [s EXCEPT !.err = why]
Gives(s, is, type, rows) == IF s.err = "" THEN [s EXCEPT !.out = Output(is, type, rows)] ELSE s

-----------------------------------------------------------------------------
(* The governor.                                                           *)

Overtime(ctx, s) == ctx.gov.time /= 0 /\ s.clock >= ctx.gov.time
Overspent(ctx, s) == ctx.gov.rows /= 0 /\ s.spent > ctx.gov.rows

check_deadline(ctx, s) ==
    IF s.err /= "" THEN s
    ELSE LET read == [s EXCEPT !.clock = @ + 1]
         IN  IF Overtime(ctx, read) THEN Fails(read, "limit") ELSE read

check_exhausted(ctx, s) ==
    IF s.err = "" /\ Overspent(ctx, s) THEN Fails(s, "limit") ELSE check_deadline(ctx, s)

charge(ctx, s, n) == IF s.err /= "" THEN s ELSE check_exhausted(ctx, [s EXCEPT !.spent = @ + n])

clamp_limit(ctx, n) == IF ctx.gov.limit /= 0 THEN Min({n, ctx.gov.limit}) ELSE n

check_depth(ctx, s, depth) ==
    IF s.err = "" /\ ctx.gov.depth /= 0 /\ depth > ctx.gov.depth THEN Fails(s, "limit") ELSE s

check_result_rows(ctx, s, n) ==
    IF s.err = "" /\ ctx.gov.result /= 0 /\ n > ctx.gov.result THEN Fails(s, "limit") ELSE s

\* Full-text words are charged under a row budget only.
charge_words(ctx, s, n) == IF ctx.gov.rows /= 0 THEN charge(ctx, s, n) ELSE s

-----------------------------------------------------------------------------
(* Rules.                                                                  *)

Ruled(ctx) == ctx.rules /= NoRules

\* linked_ids: the edges that a rule reads are charged; past the budget there
\* are none, and the rule denies.
Judged(ctx, s) ==
    IF ctx.rules.cost = 0 THEN s
    ELSE [s EXCEPT !.spent = @ + ctx.rules.cost, !.clock = @ + 1]
Allows(ctx, s, ids, id) == id \in ids /\ (ctx.rules.cost = 0 \/ ~(Overspent(ctx, s) \/ Overtime(ctx, s)))

\* filter_read, and with it apply_read_filter on rows.
filter_read(ctx, s, rows) ==
    LET judge(acc, r) ==
            LET now == Judged(ctx, acc)
            IN  IF Allows(ctx, now, ctx.rules.read, r.id) THEN [now EXCEPT !.out.rows = Append(@, r)] ELSE now
    IN  FoldLeft(judge, [s EXCEPT !.out.rows = <<>>], rows)

\* Sets of ids are left alone.
apply_read_filter(ctx, s) ==
    LET kept == filter_read(ctx, s, s.out.rows)
    IN  IF s.err /= "" \/ s.out.is \in {"done", "ids", "bytes"} THEN s
        ELSE IF s.out.is = "single" /\ kept.out.rows = <<>> THEN [kept EXCEPT !.out = Done]
        ELSE kept

\* readable_ids: those gone are not readable.
readable_ids(ctx, s, t, ids) ==
    LET paid == charge(ctx, s, Len(ids))
    IN  IF paid.err /= "" THEN paid
        ELSE check_deadline(ctx, filter_read(ctx, paid, get_many_lazy(paid.db, t, ids)))

\* Mutant: a set of ids is let through, to be judged at the end.
read_filter_stageLate(ctx, s) ==
    IF s.err /= "" \/ s.out.is \in {"ids", "bytes"} THEN s
    ELSE check_exhausted(ctx, apply_read_filter(ctx, charge(ctx, s, Len(s.out.rows))))

read_filter_stage(ctx, s) ==
    IF s.err /= "" THEN s
    ELSE IF s.out.is \in {"ids", "bytes"}
    THEN LET read == readable_ids(ctx, s, s.out.type, Ids(s.out.rows))
             keep(r) == r \in Range(Ids(read.out.rows))
         IN  IF read.err /= "" THEN read
             ELSE check_exhausted(ctx, [read EXCEPT !.out.rows = SelectSeq(s.out.rows, LAMBDA r : keep(r.id))])
    ELSE check_exhausted(ctx,
            apply_read_filter(ctx, charge(ctx, s, IF s.out.is = "single" THEN 0 ELSE Len(s.out.rows))))

\* gate_write: objects that are gone are left to the write to refuse.
gate_write(ctx, s, t, ids) ==
    LET judge(acc, id) ==
            IF acc.err /= "" \/ ~Exists(acc.db, t, id) THEN acc
            ELSE LET now == Judged(ctx, acc)
                 IN  IF Allows(ctx, now, ctx.rules.write, id) THEN now ELSE Fails(now, "denied")
    IN  IF Ruled(ctx) THEN FoldLeft(judge, s, ids) ELSE s

-----------------------------------------------------------------------------
(* Sources.                                                                *)

\* Counted first, and refused as a whole.
scan_all_objects(ctx, s, t) ==
    LET rows == scan_type(s.db, t)
    IN  IF ctx.gov.rows /= 0 /\ Len(rows) > ctx.gov.rows THEN Fails(s, "limit")
        ELSE Gives(charge(ctx, s, Len(rows)), "objects", t, rows)

\* A filter is served by an index (module FilterPlan), with a limit that comes
\* first pushed down unless there are rules, or by a scan.
FilterScan(ctx, s, source, steps) ==
    LET pass == SelectSeq(scan_type(s.db, source.type), LAMBDA r : r.val \in source.vals)
        pushed == steps /= <<>> /\ Head(steps).is = "limit" /\ ~Ruled(ctx)
        rows == IF pushed THEN Take(pass, clamp_limit(ctx, Head(steps).n)) ELSE pass
    IN  IF source.indexed THEN Gives(charge(ctx, s, Len(rows)), "objects", source.type, rows)
        ELSE Gives(scan_all_objects(ctx, s, source.type), "objects", source.type, pass)

Create(ctx, s, source) ==
    LET id == Max(DOMAIN s.db.objs) + 1
        paid == charge_words(ctx, s, Words)
        now == IF paid.err = "" /\ Ruled(ctx) /\ ~ctx.rules.create THEN Fails(paid, "denied") ELSE paid
        object == [type |-> source.type, val |-> source.val, gen |-> 1]
    IN  IF now.err /= "" THEN now
        ELSE Gives([now EXCEPT !.db.objs = [o \in DOMAIN @ \cup {id} |-> IF o = id THEN object ELSE @[o]],
                               !.written = <<id>>],
                   "single", source.type, <<Row(id, source.val, NoBytes)>>)

CreateBatch(ctx, s, source) ==
    LET n == Len(source.vals)
        first == Max(DOMAIN s.db.objs)
        paid == charge_words(ctx, charge(ctx, s, n), Words * n)
        now == IF paid.err = "" /\ Ruled(ctx) /\ ~ctx.rules.create THEN Fails(paid, "denied") ELSE paid
        object(o) == [type |-> source.type, val |-> source.vals[o - first], gen |-> 1]
        ids == [i \in 1 .. n |-> first + i]
    IN  IF now.err /= "" THEN now
        ELSE Gives([now EXCEPT !.db.objs = [o \in DOMAIN @ \cup Range(ids) |-> IF o > first THEN object(o) ELSE @[o]],
                               !.written = ids],
                   "objects", source.type, [i \in 1 .. n |-> Row(ids[i], source.vals[i], NoBytes)])

execute_source(ctx, s, source, steps) ==
    CASE source.is = "get" ->
            IF Exists(s.db, source.type, source.id)
            THEN Gives(s, "objects", source.type, <<get(s.db, source.id)>>) ELSE Fails(s, "missing")
      [] source.is = "all" -> scan_all_objects(ctx, s, source.type)
      [] source.is = "filter" -> FilterScan(ctx, s, source, steps)
      [] source.is = "create" -> Create(ctx, s, source)
      [] source.is = "batch" -> CreateBatch(ctx, s, source)

\* Objects know their type; where there are none, the source's is taken.
output_type_name(out, source) ==
    IF out.is = "done" \/ (out.is \in {"objects", "scored"} /\ out.rows = <<>>) THEN source.type
    ELSE out.type

-----------------------------------------------------------------------------
(* Traversal.                                                              *)

Names(bytes, f) == bytes /= NoBytes /\ f \in DOMAIN bytes

\* Mutant: the cover's generation is not compared with the object's.
CurrentUnchecked(db, ref) == ref.cover /= NoCover /\ object_version(db, ref.id) /= 0

Current(db, ref) ==
    /\ ref.cover /= NoCover
    /\ ref.cover.v = object_version(db, ref.id)
    /\ object_version(db, ref.id) /= 0

\* The fused hop: the rows' bytes name the targets.  Targets with a current
\* cover come from it and the others are looked up; without one there are only
\* ids.
FusedHop(ctx, s, target, f) ==
    LET items == SelectSeq(s.out.rows, LAMBDA r : r.bytes /= NoBytes)
        named == SelectSeq(items, LAMBDA r : Names(r.bytes, f))
        refs == Firsts([i \in DOMAIN named |-> named[i].bytes[f]])
        covered == SelectSeq(refs, LAMBDA r : Current(s.db, r))
        ids == Ids(SelectSeq(refs, LAMBDA r : ~Current(s.db, r)))
        paid == [charge(ctx, s, Len(items)) EXCEPT !.mixed = @ \/ Len(named) < Len(s.out.rows)]
    IN  IF covered = <<>> THEN Gives(paid, "ids", target, [i \in DOMAIN ids |-> Row(ids[i], 0, NoBytes)])
        ELSE Gives(paid, "objects", target,
                   [i \in DOMAIN covered |->
                        Row(covered[i].id, covered[i].cover.val, covered[i].cover.bytes)]
                   \o get_many_lazy(s.db, target, ids))

\* The streaming hop: each other end once, with the bytes of its first edge.
StreamingHop(ctx, s, t, target, f) ==
    LET edges == FlattenSeq([i \in DOMAIN s.out.rows |-> get_links(s.db, t, f, s.out.rows[i].id)])
    IN  Gives(charge(ctx, s, Len(edges)), IF Relation[<<t, f>>].via = Forward THEN "ids" ELSE "bytes",
              target, Firsts(edges))

Traverse(ctx, s, f, source) ==
    LET t == output_type_name(s.out, source)
        relation == Relation[<<t, f>>]
    IN  IF <<t, f>> \notin DOMAIN Relation THEN Fails(s, "type")
        ELSE IF /\ ~relation.many /\ relation.via = Forward /\ s.out.is \in {"bytes", "objects"}
                /\ \E i \in DOMAIN s.out.rows : Names(s.out.rows[i].bytes, f)
        THEN FusedHop(ctx, s, relation.target, f)
        ELSE StreamingHop(ctx, s, t, relation.target, f)

-----------------------------------------------------------------------------
(* Ranked steps.  The database lists the matches of the text from the best *)
(* on, the objects with a vector from the nearest on, and the ids in the   *)
(* vector index in the order it would find them.                           *)

Within(ids, set) == SelectSeq(ids, LAMBDA o : o \in set)

RankedRows(db, t, hits) ==
    LET live == SelectSeq(hits, LAMBDA o : Exists(db, t, o)) IN [i \in DOMAIN live |-> get(db, live[i])]

\* With rules, the candidates are read before they are ranked (FulltextSearch).
run_matches(ctx, s, t, k, restrict, restricted) ==
    LET n == clamp_limit(ctx, k)
        found == charge(ctx, charge(ctx, check_deadline(ctx, s), Len(s.db.matches)), Len(s.db.matches))
        candidates == IF restricted THEN Within(s.db.matches, restrict) ELSE s.db.matches
        read == check_exhausted(ctx, readable_ids(ctx, found, t, candidates))
        visible == IF Ruled(ctx) THEN Within(candidates, Range(Ids(read.out.rows))) ELSE candidates
    IN  IF s.err /= "" THEN s
        ELSE IF restricted /\ restrict = {} THEN Gives(s, "scored", t, <<>>)
        ELSE Gives(IF Ruled(ctx) THEN read ELSE found, "scored", t, RankedRows(s.db, t, Take(visible, n)))

\* resolve_search: how many hits to ask the index for.
search_k(k, rerank, restricted) ==
    Min({MaxPool, Max({rerank, IF restricted THEN 4 * k ELSE k})})

\* search_vector: few enough ids are ranked exactly, those without a vector last;
\* otherwise the index gives its nearest.
search_vector(db, n, rerank, restrict, restricted) ==
    LET found == Take(db.index, search_k(n, rerank, restricted))
        exact(ids) == Within(db.nearest, ids) \o Ascending(ids \ Range(db.nearest))
    IN  IF restricted /\ Cardinality(restrict) <= ExactFilterMax THEN exact(restrict)
        ELSE IF rerank > 0 THEN exact(Range(found)) ELSE found

run_similar(ctx, s, t, k, rerank, restrict, restricted) ==
    LET n == clamp_limit(ctx, k)
        pool == search_vector(s.db, n, rerank, restrict, restricted)
        hits == Take(IF restricted THEN Within(pool, restrict) ELSE pool, n)
    IN  IF restricted /\ restrict = {} THEN Gives(s, "scored", t, <<>>)
        ELSE Gives(check_deadline(ctx, s), "scored", t, RankedRows(s.db, t, hits))

-----------------------------------------------------------------------------
(* Writing steps: object by object, each in a transaction of its own.      *)

Written(db, id, step) == IF step.is = "update" THEN Updated(db, id, step.val) ELSE Deleted(db, id)

Writing(ctx, s, t, ids, step) ==
    LET one(acc, id) ==
            LET now == check_deadline(ctx, acc)
            IN  IF now.err /= "" THEN now
                ELSE IF ~Exists(now.db, t, id) THEN Fails(now, "missing")
                ELSE [now EXCEPT !.db = Written(@, id, step), !.written = Append(@, id)]
    IN  IF s.err /= "" THEN s ELSE FoldLeft(one, s, ids)

Update(ctx, s, t, step) ==
    LET ids == Ids(s.out.rows)
        words == Words * Len(ids)
        paid == charge_words(ctx, charge_words(ctx, charge(ctx, s, Len(ids)), words), words)
        rows == [i \in DOMAIN ids |-> Row(ids[i], step.val, NoBytes)]
    IN  Gives(Writing(ctx, gate_write(ctx, paid, t, ids), t, ids, step),
              IF Len(ids) = 1 THEN "single" ELSE "objects", t, rows)

Delete(ctx, s, t, step) ==
    LET ids == Ids(s.out.rows)
        paid == charge_words(ctx, charge(ctx, s, Len(ids)), Words * Len(ids))
    IN  Gives(Writing(ctx, gate_write(ctx, paid, t, ids), t, ids, step), "done", "", <<>>)

resolve_relation_field(t, target) ==
    {r \in DOMAIN Relation : r[1] = t /\ Relation[r].target = target}

\* Link and Unlink name an object and leave the field to be found: the one from
\* the rows' type to the object's.  They do not look at the clock, and an unlink
\* of nothing succeeds.
LinkStep(ctx, s, t, step) ==
    LET ids == Ids(s.out.rows)
        gated == gate_write(ctx, charge(ctx, s, Len(ids)), t, ids)
        fields == resolve_relation_field(t, step.target)
        edge(id) == <<id, CHOOSE r \in fields : TRUE, step.id>>
        found(acc, id) == Exists(acc.db, t, id) /\ Exists(acc.db, step.target, step.id)
        one(acc, id) ==
            IF acc.err /= "" THEN acc
            ELSE IF step.is = "unlink" THEN [acc EXCEPT !.db = Unlinked(@, edge(id)), !.written = Append(@, id)]
            ELSE IF found(acc, id) THEN [acc EXCEPT !.db = Linked(@, edge(id)), !.written = Append(@, id)]
            ELSE Fails(acc, "missing")
    IN  IF gated.err /= "" THEN gated
        ELSE IF Cardinality(fields) /= 1 THEN Fails(gated, "argument")
        ELSE Gives(FoldLeft(one, gated, ids), "done", "", <<>>)

-----------------------------------------------------------------------------
(* Steps and queries.                                                      *)

Writes == {"update", "delete", "link", "unlink"}

\* Sets of ids are looked up for a filter, and at the end.
materialize_ids(db, out) ==
    IF out.is \in {"ids", "bytes"} THEN get_many_lazy(db, out.type, Ids(out.rows)) ELSE out.rows

KeptAs(out) == IF out.is \in {"ids", "bytes", "scored"} THEN out.is ELSE "objects"

execute_step(ctx, s, step, source) ==
    LET out == s.out
        t == output_type_name(out, source)
    IN  CASE s.err /= "" -> s
          [] step.is = "traverse" -> Traverse(ctx, s, step.f, source)
          [] step.is = "filter" ->
                Gives(s, IF out.is = "scored" THEN "scored" ELSE "objects", t,
                      SelectSeq(materialize_ids(s.db, out), LAMBDA r : r.val \in step.vals))
          [] step.is = "limit" -> Gives(s, KeptAs(out), t, Take(out.rows, clamp_limit(ctx, step.n)))
          [] step.is = "offset" -> Gives(s, KeptAs(out), t, Skip(out.rows, step.n))
          [] step.is = "matches" -> run_matches(ctx, s, t, step.k, Range(Ids(out.rows)), TRUE)
          [] step.is = "similar" -> run_similar(ctx, s, t, step.k, step.rerank, Range(Ids(out.rows)), TRUE)
          [] step.is = "update" -> Update(ctx, s, t, step)
          [] step.is = "delete" -> Delete(ctx, s, t, step)
          [] step.is \in {"link", "unlink"} -> LinkStep(ctx, s, t, step)

\* The steps from the n-th on.  Rows that have not met the read rule meet it
\* before a step, unless the step writes to what the source named.
RECURSIVE RunSteps(_, _, _, _, _, _)
RunSteps(ctx, q, s, n, depth, unfiltered) ==
    IF s.err /= "" \/ n > Len(q.steps) THEN s
    ELSE LET step == q.steps[n]
             hops == IF step.is = "traverse" THEN depth + 1 ELSE depth
             named == n = 1 /\ q.source.is \in {"get", "create", "batch"} /\ step.is \in Writes
             judge == Ruled(ctx) /\ unfiltered /\ ~named
             checked == check_depth(ctx, check_deadline(ctx, s), hops)
             ready == IF judge THEN read_filter_stage(ctx, checked) ELSE checked
             narrows == step.is \in {"filter", "limit", "offset", "matches", "similar"}
         IN  RunSteps(ctx, q, execute_step(ctx, ready, step, q.source), n + 1, hops,
                      ~narrows \/ (unfiltered /\ ~judge))

\* The ids are looked up, and the rows read under the rule; a rule that ran out
\* of budget has denied, so that is asked last.
Looked(ctx, s) ==
    LET n == Len(s.out.rows)
    IN  IF s.err /= "" \/ s.out.is \notin {"ids", "bytes"} THEN s
        ELSE Gives(charge(ctx, check_result_rows(ctx, s, n), n), "objects", s.out.type,
                   materialize_ids(s.db, s.out))

Lists(out) == out.is \in {"objects", "scored"}
Sized(ctx, s) == IF Lists(s.out) THEN check_result_rows(ctx, s, Len(s.out.rows)) ELSE s

\* Mutant: the budget is not asked after the rules.
FinishUnasked(ctx, s) ==
    LET found == Looked(ctx, s)
        paid == IF Ruled(ctx) /\ Lists(found.out) THEN charge(ctx, found, Len(found.out.rows)) ELSE found
    IN  Sized(ctx, IF Ruled(ctx) THEN apply_read_filter(ctx, paid) ELSE found)

Finish(ctx, s) ==
    LET found == Looked(ctx, s)
        paid == IF Ruled(ctx) /\ Lists(found.out) THEN charge(ctx, found, Len(found.out.rows)) ELSE found
    IN  Sized(ctx, IF Ruled(ctx) THEN check_exhausted(ctx, apply_read_filter(ctx, paid)) ELSE found)

\* A search that opens the query over a whole type does not scan it; under
\* rules, only a full-text search does not.
execute(ctx, db, q) ==
    LET t == q.source.type
        opens(is) == q.source.is = "all" /\ q.steps /= <<>> /\ Head(q.steps).is = is
        step == Head(q.steps)
    IN  Finish(ctx,
            IF opens("similar") /\ ~Ruled(ctx)
            THEN RunSteps(ctx, q, run_similar(ctx, Start(db), t, step.k, step.rerank, {}, FALSE), 2, 0, FALSE)
            ELSE IF opens("matches")
            THEN RunSteps(ctx, q, run_matches(ctx, Start(db), t, step.k, {}, FALSE), 2, 0, FALSE)
            ELSE RunSteps(ctx, q, execute_source(ctx, Start(db), q.source, q.steps), 1, 0, TRUE))

-----------------------------------------------------------------------------
(* What a query means: sets of objects, step by step.                      *)

Free == [limit |-> 0, rows |-> 0, depth |-> 0, result |-> 0, time |-> 0]
Unruled == [gov |-> Free, rules |-> NoRules]

SourceSet(db, source) ==
    {o \in DOMAIN db.objs : /\ db.objs[o].type = source.type
                            /\ source.is = "get" => o = source.id
                            /\ source.is = "filter" => db.objs[o].val \in source.vals}

OtherEnds(db, t, f, ids) ==
    UNION {Range(Ids(get_links(db, t, f, o))) : o \in ids} \cap DOMAIN db.objs

Ranks(db, step, ids) ==
    IF step.is = "matches" THEN Within(db.matches, ids)
    ELSE Within(db.nearest, ids) \o Ascending(ids \ Range(db.nearest))

RECURSIVE Meaning(_, _, _, _)
Meaning(db, t, ids, steps) ==
    IF steps = <<>> THEN ids
    ELSE LET step == Head(steps)
             f == step.f
         IN  CASE step.is = "traverse" ->
                    Meaning(db, Relation[<<t, f>>].target, OtherEnds(db, t, f, ids), Tail(steps))
               [] step.is = "filter" ->
                    Meaning(db, t, {o \in ids : db.objs[o].val \in step.vals}, Tail(steps))
               [] step.is \in {"matches", "similar"} ->
                    Meaning(db, t, Range(Take(Ranks(db, step, ids), step.k)), Tail(steps))
               [] OTHER -> Meaning(db, t, ids, Tail(steps))

MeaningOf(db, q) == Meaning(db, q.source.type, SourceSet(db, q.source), q.steps)

\* A search that leaves the answer to the index, which approximates.
OpensSimilar(q) == q.source.is = "all" /\ q.steps /= <<>> /\ Head(q.steps).is = "similar"

\* No page is cut, only the last step writes, and every search is exact.
Whole(q) ==
    /\ q.source.is \notin {"create", "batch"}
    /\ ~OpensSimilar(q)
    /\ \A i \in DOMAIN q.steps : /\ q.steps[i].is \notin {"limit", "offset"}
                                 /\ q.steps[i].is \in Writes => i = Len(q.steps)

\* The bytes of reverse edges name what the edges say: no link or unlink has
\* come since they were written.
NamesAgree(db) ==
    \A e \in DOMAIN db.rev : \A f \in DOMAIN db.rev[e] :
        f \in Singles(db, e[1]) /\ db.rev[e][f].id = TargetBy(db, e[1], f)

\* A query gives the objects that its hops, filters and searches reach, each
\* once and as it is now, and a write at its end writes exactly these, whether a
\* hop reads edges, ids in covers or the covers themselves (executor.rs
\* Step::Traverse), and a search of few rows is exact.  Hops that meet rows that
\* name their target beside rows that do not are left out: see TraversalComplete.
PipelineExact(db, q) ==
    LET s == execute(Unruled, db, q)
        ids == IF s.out.is = "done" THEN s.written ELSE Ids(s.out.rows)
        value(r) == IF r.id \in Range(s.written) THEN r.val ELSE db.objs[r.id].val
    IN  Whole(q) /\ s.err = "" /\ ~s.mixed /\ NamesAgree(db) =>
            /\ Range(ids) = MeaningOf(db, q) /\ Cardinality(Range(ids)) = Len(ids)
            /\ \A i \in DOMAIN s.out.rows : s.out.rows[i].val = value(s.out.rows[i])

\* A query misses no object that its hops reach: "Follow a relationship field to
\* the objects on the other side. Traversals chain" (docs/src/queries.md).
TraversalComplete(db, q) ==
    LET s == execute(Unruled, db, q)
    IN  Whole(q) /\ s.err = "" => MeaningOf(db, q) \subseteq Range(Ids(s.out.rows)) \cup Range(s.written)

\* A link is seen from both of its ends: "Linking one side makes the other side
\* reflect it automatically" (docs/src/schema.md, of @inverse).
LinkReflected(db, q) ==
    LET s == execute(Unruled, db, q)
        step == Last(q.steps)
        fields == resolve_relation_field(q.source.type, step.target)
        back(r) == {b \in DOMAIN Relation : Relation[b].via = r \/ Relation[r].via = b}
        ends(t, f, o) == Range(Ids(get_links(s.db, t, f, o)))
    IN  Len(q.steps) = 1 /\ step.is = "link" /\ s.err = "" =>
            \A o \in Range(s.written) : \A r \in fields :
                /\ step.id \in ends(r[1], r[2], o)
                /\ \A b \in back(r) : o \in ends(b[1], b[2], step.id)

-----------------------------------------------------------------------------
(* Rules and budgets.                                                      *)

RECURSIVE VisibleBytes(_, _)
VisibleBytes(bytes, seen) ==
    IF bytes = NoBytes THEN NoBytes
    ELSE [f \in {f \in DOMAIN bytes : bytes[f].id \in seen} |->
            IF bytes[f].cover = NoCover THEN bytes[f]
            ELSE [bytes[f] EXCEPT !.cover.bytes = VisibleBytes(@, seen)]]

\* The database without the objects that the caller may not read.
Visible(db, read) ==
    LET seen == DOMAIN db.objs \cap read
        edges == {e \in db.edges : {e[1], e[3]} \subseteq seen}
    IN  [db EXCEPT !.objs = Restrict(@, seen), !.edges = edges,
                   !.rev = [e \in edges |-> VisibleBytes(@[e], seen)],
                   !.matches = Within(@, seen), !.nearest = Within(@, seen), !.index = Within(@, seen)]

Answer(s) ==
    [rows |-> [i \in DOMAIN s.out.rows |-> <<s.out.rows[i].id, s.out.rows[i].val>>],
     written |-> s.written, err |-> s.err]

\* Under rules, a query over a type answers as if the objects that the caller
\* may not read were not there: they take no place in a page or a ranking, and
\* nothing is reached through them (execute's stages of read_filter_stage).  A
\* query that the write rule refuses, one answered by the vector index, one
\* that links a hidden object by name, one that ends in a type or an argument
\* error, and one with a hop over rows of which only some have the field in their
\* bytes (mixed: MCQueriesHop), are left out.
RulesInert(db, rules, q) ==
    LET ruled == execute([gov |-> Free, rules |-> rules], db, q)
        plain == execute(Unruled, Visible(db, rules.read), q)
        compares == ruled.err \notin {"denied", "type", "argument"} /\ plain.err \notin {"type", "argument"} /\ ~ruled.mixed /\ ~plain.mixed
        links == \E i \in DOMAIN q.steps : q.steps[i].is = "link" /\ q.steps[i].id \notin rules.read
    IN  q.source.is \in {"all", "filter"} /\ ~OpensSimilar(q) /\ ~links /\ compares => Answer(ruled) = Answer(plain)

\* A budget refuses a query or leaves its answer alone, and refuses it before it
\* has written anything of a step; a deadline may pass between two writes, and
\* then the first of them stand (Governor, execute).
BudgetAllOrNothing(db, gov, rules, q) ==
    LET governed == execute([gov |-> gov, rules |-> rules], db, q)
        free == execute([gov |-> [Free EXCEPT !.limit = gov.limit], rules |-> rules], db, q)
        writes == {i \in DOMAIN q.steps : q.steps[i].is \in Writes}
                    \cup (IF q.source.is \in {"create", "batch"} THEN {0} ELSE {})
    IN  /\ governed.err \notin {"limit", "denied"} => Answer(governed) = Answer(free)
        /\ IsPrefix(governed.written, free.written)
        /\ governed.err = "limit" /\ gov.time = 0 /\ Cardinality(writes) <= 1 =>
                governed.written \in {<<>>, free.written}
=============================================================================
