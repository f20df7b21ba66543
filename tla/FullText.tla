------------------------------ MODULE FullText -------------------------------
(***************************************************************************)
(* The full-text index of one @fulltext field: its maintenance by the      *)
(* write paths (crates/rhypedb-engine/src/database.rs), and the builder    *)
(* thread that fills, rebuilds and sweeps it                               *)
(* (crates/rhypedb-engine/src/database/fulltext_build.rs).                 *)
(*                                                                         *)
(* An object holds a text (a sequence of words), a null, or nothing.  Its  *)
(* l: row holds the number of its tokens, its f: rows (postings) one term  *)
(* each.  Rows carry a generation, and the marker names the current one;   *)
(* a change of the directive starts the next generation.                   *)
(*                                                                         *)
(* Transactions are those of Mvcc: a commit is refused if a key it writes  *)
(* was written since its begin.  Locks are told by the steps that hold     *)
(* them: a writer between WriteBegin and Applied holds the read sides of   *)
(* migration_lock and maintenance_lock, the builder at "commit" holds the  *)
(* write side of the latter, and ReloadRebuild the write side of the       *)
(* former for the length of one step.                                      *)
(***************************************************************************)
EXTENDS FulltextSearch

CONSTANTS
    Setups,     \* configurations, permitted calls and bounds
    Id,         \* object ids, numbers from 1
    Writer,     \* client threads
    New,        \* an id with no object row, nor a tombstone
    Gone,       \* a deleted object
    Null,       \* an object whose field is null or absent
    NoMarker,
    Off,        \* the schema has no directive on the field
    BuildChunk, \* FULLTEXT_BUILD_CHUNK
    DropChunk   \* FULLTEXT_DROP_CHUNK

VARIABLES
    setup,
    obj,        \* object rows
    docs,       \* l: rows, a function from <<generation, id>> to lengths
    posts,      \* f: rows, a function from <<generation, id, term>> to postings
    marker,     \* c:X: row
    h,          \* the handle: mode, configuration, generation, build state
    stats,      \* FulltextStats of the handle
    b,          \* the builder thread
    txn,        \* the transactions of the writers
    left,       \* what remains of the setup's bounds
    odd         \* history: what excuses a deviation

rows == <<obj, docs, posts, marker>>
vars == <<setup, rows, h, stats, b, txn, left, odd>>

IsText(v) == v \notin {New, Gone, Null}

\* The rows of an object's text in a generation.
DocPosts(cfg, gen, o, text) ==
    LET doc == tokenize_for_index(cfg, text)
    IN  [k \in {<<gen, o, t>> : t \in DOMAIN doc.terms} |->
            encode_posting(cfg, doc.len, doc.terms[k[3]])]

DocRow(cfg, gen, o, text) == <<gen, o>> :> tokenize_for_index(cfg, text).len

-----------------------------------------------------------------------------
(* Staging by the write paths: rows deleted, rows put, change of the       *)
(* corpus statistics.                                                      *)

NoRows == <<>>
NoDoc == [len |-> 0, terms |-> NoRows]

Nothing == [post_del |-> {}, post_put |-> NoRows, doc_del |-> {}, doc_put |-> NoRows,
            docs |-> 0, tokens |-> 0]

Keys(staged) ==
    staged.post_del \cup DOMAIN staged.post_put \cup staged.doc_del \cup DOMAIN staged.doc_put

Unchanged(old, new, t) == old.terms[t] = new.terms[t] /\ old.len = new.len

\* The old value counts only if its l: row exists: an object that the builder
\* has not reached has no rows to differ from.
stage_fulltext_update(o, old_value, new_value) ==
    LET key == <<h.gen, o>>
        indexed == IsText(old_value) /\ key \in DOMAIN docs
        old == IF indexed THEN tokenize_for_index(h.cfg, old_value) ELSE NoDoc
        new == IF IsText(new_value) THEN tokenize_for_index(h.cfg, new_value) ELSE NoDoc
        same == {t \in DOMAIN old.terms \cap DOMAIN new.terms : Unchanged(old, new, t)}
    IN  [post_del |-> {<<h.gen, o, t>> : t \in DOMAIN old.terms \ DOMAIN new.terms},
         post_put |-> [k \in {<<h.gen, o, t>> : t \in DOMAIN new.terms \ same} |->
                          encode_posting(h.cfg, new.len, new.terms[k[3]])],
         doc_del |-> IF IsText(old_value) /\ ~IsText(new_value) THEN {key} ELSE {},
         doc_put |-> IF IsText(new_value) /\ (~indexed \/ old.len /= new.len)
                     THEN key :> new.len ELSE NoRows,
         docs |-> (IF IsText(new_value) THEN 1 ELSE 0) - (IF indexed THEN 1 ELSE 0),
         tokens |-> new.len - old.len]

\* The l: row is deleted even if it does not exist.
StageDelete(o, old_value) ==
    LET key == <<h.gen, o>>
        doc == tokenize_for_index(h.cfg, old_value)
    IN  IF ~IsText(old_value) THEN Nothing
        ELSE IF key \notin DOMAIN docs THEN [Nothing EXCEPT !.doc_del = {key}]
        ELSE [Nothing EXCEPT !.post_del = {<<h.gen, o, t>> : t \in DOMAIN doc.terms},
                             !.doc_del = {key}, !.docs = -1, !.tokens = -doc.len]

Stage(o, new_value) ==
    IF h.cfg = Off THEN Nothing
    ELSE IF new_value = Gone THEN StageDelete(o, obj[o])
    ELSE stage_fulltext_update(o, obj[o], new_value)

PutPosts(staged) == staged.post_put @@ Restrict(posts, DOMAIN posts \ staged.post_del)
PutDocs(staged) == staged.doc_put @@ Restrict(docs, DOMAIN docs \ staged.doc_del)

Max0(n) == IF n < 0 THEN 0 ELSE n

\* FulltextStats::apply: each counter stops at zero.
apply(s, staged) == [docs |-> Max0(s.docs + staged.docs), tokens |-> Max0(s.tokens + staged.tokens)]

-----------------------------------------------------------------------------
(* Writers: create, update, delete.                                        *)

Idle == [pc |-> "idle", id |-> 0, value |-> Null, staged |-> Nothing, lost |-> {}]

Lasts(what) == left[what] > 0
Spend(what) == left' = [left EXCEPT ![what] = @ - 1]

\* What a commit may come to: it fails with nothing written, or it is
\* published and a flush after it fails.
Outcomes == {"ok"} \cup (IF Lasts("errors") THEN {"lost", "late"} ELSE {})
Pay(outcome) == IF outcome = "ok" THEN UNCHANGED left ELSE Spend("errors")
Published(outcome) == outcome \in {"ok", "late"}

\* Keys that a commit writes are lost to the transactions that began before.
Wrote(threads, keys) == [w \in Writer |-> [threads[w] EXCEPT !.lost = @ \cup keys]]

NoWriter == \A w \in Writer : txn[w].pc = "idle"

\* Ids are handed out in order.
Created(o) == obj[o] /= New \/ \E w \in Writer : txn[w].pc /= "idle" /\ txn[w].id = o
NextId(o) == ~Created(o) /\ \A q \in Id : q < o => Created(q)

\* Takes the locks, begins, reads and stages.
WriteBegin(w, o) ==
    /\ h.mode \in {"open", "reloading"} /\ b.pc /= "commit"
    /\ w \in setup.writers /\ txn[w].pc = "idle" /\ Lasts("writes")
    /\ obj[o] \notin {New, Gone} \/ NextId(o)
    /\ \E value \in setup.values \cup (IF obj[o] = New THEN {} ELSE {Gone}) :
          txn' = [txn EXCEPT ![w] = [pc |-> "commit", id |-> o, value |-> value,
                                     staged |-> Stage(o, value), lost |-> {}]]
    /\ Spend("writes")
    /\ UNCHANGED <<setup, rows, h, stats, b, odd>>

WriteConflict(w) ==
    /\ txn[w].pc = "commit"
    /\ txn[w].lost \cap (Keys(txn[w].staged) \cup {<<txn[w].id>>}) /= {}
    /\ txn' = [txn EXCEPT ![w] = Idle]
    /\ odd' = [odd EXCEPT !.beaten = @ \/ <<txn[w].id>> \notin txn[w].lost]
    /\ UNCHANGED <<setup, rows, h, stats, b, left>>

WriteCommit(w) ==
    LET staged == txn[w].staged
        keys == Keys(staged) \cup {<<txn[w].id>>}
    IN  /\ txn[w].pc = "commit" /\ txn[w].lost \cap keys = {}
        /\ \E outcome \in Outcomes :
              /\ IF Published(outcome)
                 THEN /\ obj' = [obj EXCEPT ![txn[w].id] = txn[w].value]
                      /\ posts' = PutPosts(staged)
                      /\ docs' = PutDocs(staged)
                      /\ b' = [b EXCEPT !.lost = @ \cup keys]
                 ELSE UNCHANGED <<obj, posts, docs, b>>
              /\ txn' = LET after == IF outcome = "ok" THEN [txn EXCEPT ![w].pc = "apply"]
                                    ELSE [txn EXCEPT ![w] = Idle]
                        IN  IF Published(outcome) THEN Wrote(after, keys) ELSE after
              /\ odd' = [odd EXCEPT !.drift = @ \/ (outcome = "late" /\ staged /= Nothing)]
              /\ Pay(outcome)
        /\ UNCHANGED <<setup, marker, h, stats>>

\* apply_fulltext_delta, then the locks are released.
WriteApply(w) ==
    /\ txn[w].pc = "apply"
    /\ stats' = apply(stats, txn[w].staged)
    /\ odd' = [odd EXCEPT !.drift = @ \/ stats.docs + txn[w].staged.docs < 0
                                     \/ stats.tokens + txn[w].staged.tokens < 0]
    /\ txn' = [txn EXCEPT ![w] = Idle]
    /\ UNCHANGED <<setup, rows, h, b, left>>

-----------------------------------------------------------------------------
(* plan_fulltext_open: from the marker and the directive to the marker,    *)
(* the statistics and the tasks of the new handle.                         *)

Marker(state, gen, cursor, cfg, stale) ==
    [state |-> state, gen |-> gen, cursor |-> cursor, cfg |-> cfg, stale |-> stale]

Build == "build"
DropStale == "drop stale"
DropAll == "drop all"

OrphanMarker == IF marker = NoMarker THEN NoMarker ELSE [marker EXCEPT !.state = "dropping"]

\* Mutant: an index that was never finished is taken to have no rows.
BumpedMarkerUnswept(cfg) ==
    Marker("building", marker.gen + 1, 0, cfg, marker.stale \/ marker.state /= "building")

\* The analyzer or positions changed, or the field was mid-drop and came back.
BumpedMarker(cfg) == Marker("building", marker.gen + 1, 0, cfg, TRUE)

\* empty: no key of the type exists, live or deleted.
FieldMarker(cfg, empty) ==
    LET m == IF marker = NoMarker THEN Marker("building", 0, 0, cfg, FALSE)
             ELSE IF marker.cfg = cfg /\ marker.state /= "dropping" THEN marker
             ELSE BumpedMarker(cfg)
    IN  IF m.state = "building" /\ m.cursor = 0 /\ empty THEN [m EXCEPT !.state = "built"] ELSE m

CountDocs(gen) ==
    LET keys == {k \in DOMAIN docs : k[1] = gen}
    IN  [docs |-> Cardinality(keys), tokens |-> MapThenSumSet(LAMBDA k : docs[k], keys)]

OpenStats(gen) == CountDocs(gen)

BuilderOff == [pc |-> "off", tasks |-> <<>>, stop |-> FALSE, cursor |-> 0, stale |-> FALSE,
               size |-> BuildChunk, staged |-> Nothing, next |-> 0, done |-> FALSE,
               prefix |-> "f", seen |-> {}, lost |-> {}, failed |-> FALSE]

Spawned(tasks) ==
    [BuilderOff EXCEPT !.tasks = tasks, !.pc = IF tasks = <<>> THEN "off" ELSE "next"]

plan_fulltext_open(cfg, empty) ==
    IF cfg = Off
    THEN [marker |-> OrphanMarker, gen |-> 0, state |-> Off, stats |-> [docs |-> 0, tokens |-> 0],
          tasks |-> IF marker = NoMarker THEN <<>> ELSE <<DropAll>>]
    ELSE LET m == FieldMarker(cfg, empty)
         IN  [marker |-> m, gen |-> m.gen, state |-> m.state, stats |-> OpenStats(m.gen),
              tasks |-> (IF m.state = "building" THEN <<Build>> ELSE <<>>)
                        \o (IF m.stale THEN <<DropStale>> ELSE <<>>)]

\* The handle that an open or a reload with this directive makes.  Tombstones
\* may have been compacted away.
Opens(cfg) ==
    /\ \E empty \in {\A o \in Id : obj[o] = New, \A o \in Id : obj[o] \in {New, Gone}} :
          LET plan == plan_fulltext_open(cfg, empty)
          IN  /\ marker' = plan.marker
              /\ stats' = plan.stats
              /\ b' = Spawned(plan.tasks)
              /\ h' = [mode |-> "open", cfg |-> cfg, gen |-> plan.gen, state |-> plan.state,
                       want |-> Off]
    /\ odd' = [odd EXCEPT !.drift = FALSE, !.stranded = FALSE]

-----------------------------------------------------------------------------
(* The builder thread: fulltext_builder_main, run_build, run_drop.         *)

TaskDone == [b EXCEPT !.pc = "next", !.tasks = Tail(@), !.staged = Nothing, !.seen = {},
                      !.prefix = "f", !.size = BuildChunk, !.lost = {}]
TaskFailed == [TaskDone EXCEPT !.failed = TRUE]

BuilderStops ==
    /\ b.pc \in {"next", "chunk", "sweep"} /\ b.stop
    /\ b' = [b EXCEPT !.pc = "off"]
    /\ UNCHANGED <<setup, rows, h, stats, txn, left, odd>>

BuilderNext ==
    /\ b.pc = "next" /\ ~b.stop
    /\ IF b.tasks = <<>> THEN b' = [b EXCEPT !.pc = "off"] /\ UNCHANGED h
       ELSE IF Head(b.tasks) /= Build THEN b' = [b EXCEPT !.pc = "sweep"] /\ UNCHANGED h
       ELSE IF marker.state = "built" THEN b' = TaskDone /\ h' = [h EXCEPT !.state = "built"]
       ELSE b' = [b EXCEPT !.pc = "chunk", !.cursor = marker.cursor, !.stale = marker.stale]
            /\ UNCHANGED h
    /\ UNCHANGED <<setup, rows, stats, txn, left, odd>>

\* scan_chunk: the first rows after the cursor, live or deleted.
Ahead == {o \in Id : o > b.cursor /\ obj[o] /= New}
Visited == {o \in Ahead : Cardinality({q \in Ahead : q < o}) < b.size}

\* The write side of maintenance_lock is free.
MaintenanceFree == NoWriter

\* Takes the locks, begins, scans at the snapshot and stages what has no l: row.
ChunkBegin ==
    /\ b.pc = "chunk" /\ ~b.stop /\ MaintenanceFree
    /\ LET fresh == {o \in Visited : IsText(obj[o]) /\ <<h.gen, o>> \notin DOMAIN docs}
           row(o, f) == DocRow(h.cfg, h.gen, o, obj[o]) @@ f
           post(o, f) == DocPosts(h.cfg, h.gen, o, obj[o]) @@ f
           doc_put == FoldSet(row, NoRows, fresh)
       IN  b' = [b EXCEPT
            !.pc = "commit", !.lost = {},
            !.staged = [Nothing EXCEPT
                !.post_put = FoldSet(post, NoRows, fresh),
                !.doc_put = doc_put,
                !.docs = Cardinality(fresh),
                !.tokens = MapThenSumSet(LAMBDA k : doc_put[k], DOMAIN doc_put)],
            !.next = IF Visited = {} THEN Max(Id) + 1 ELSE Max(Visited),
            !.done = Visited = Ahead]
    /\ UNCHANGED <<setup, rows, h, stats, txn, left, odd>>

ChunkConflicts == b.lost \cap Keys(b.staged) /= {}

MarkerAfterChunk ==
    Marker(IF b.done THEN "built" ELSE "building", h.gen, b.next, h.cfg, b.stale)

CursorAfterChunk == b.next

\* Rows and marker in one commit; a refused chunk is scanned again, halved.
ChunkCommit ==
    /\ b.pc = "commit"
    /\ IF ChunkConflicts
       THEN /\ b' = [b EXCEPT !.pc = "chunk", !.size = Max({1, @ \div 2})]
            /\ UNCHANGED <<docs, posts, marker, h, stats, txn, left, odd>>
       ELSE \E outcome \in Outcomes :
            /\ IF Published(outcome)
               THEN /\ posts' = PutPosts(b.staged)
                    /\ docs' = PutDocs(b.staged)
                    /\ marker' = MarkerAfterChunk
                    /\ txn' = Wrote(txn, Keys(b.staged))
               ELSE UNCHANGED <<docs, posts, marker, txn>>
            /\ stats' = IF outcome = "ok" THEN apply(stats, b.staged) ELSE stats
            /\ h' = IF outcome = "ok" THEN [h EXCEPT !.state = MarkerAfterChunk.state] ELSE h
            /\ b' = IF outcome /= "ok" THEN TaskFailed
                    ELSE IF b.done THEN TaskDone
                    ELSE [b EXCEPT !.pc = "chunk", !.cursor = CursorAfterChunk, !.size = BuildChunk,
                                   !.staged = Nothing]
            /\ odd' = [odd EXCEPT !.drift = @ \/ (outcome = "late" /\ b.staged /= Nothing)]
            /\ Pay(outcome)
    /\ UNCHANGED <<setup, obj>>

SweepRows == IF b.prefix = "f" THEN DOMAIN posts ELSE DOMAIN docs

Stale(k) == Head(b.tasks) = DropAll \/ k[1] /= h.gen

\* The first rows in key order, whatever that order is.
ScanRaw(keys, size) == CHOOSE chunk \in kSubset(Min({size, Cardinality(keys)}), keys) : TRUE

\* One chunk of run_drop, under both locks.
SweepChunk ==
    /\ b.pc = "sweep" /\ ~b.stop /\ MaintenanceFree
    /\ LET chunk == ScanRaw(SweepRows \ b.seen, DropChunk)
           deletes == {k \in chunk : Stale(k)}
       IN  \E outcome \in IF deletes = {} THEN {"ok"} ELSE Outcomes :
            /\ IF Published(outcome)
               THEN /\ posts' = Restrict(posts, DOMAIN posts \ deletes)
                    /\ docs' = Restrict(docs, DOMAIN docs \ deletes)
               ELSE UNCHANGED <<posts, docs>>
            /\ b' = IF outcome /= "ok" THEN TaskFailed
                    ELSE IF chunk /= SweepRows \ b.seen THEN [b EXCEPT !.seen = @ \cup chunk]
                    ELSE IF b.prefix = "f" THEN [b EXCEPT !.prefix = "l", !.seen = {}]
                    ELSE [b EXCEPT !.pc = "finish"]
            /\ Pay(outcome)
    /\ UNCHANGED <<setup, obj, marker, h, stats, txn, odd>>

\* The flag is cleared, or the marker deleted, without a lock.
SweepFinish ==
    /\ b.pc = "finish"
    /\ \E outcome \in Outcomes :
          /\ marker' = IF ~Published(outcome) THEN marker
                       ELSE IF Head(b.tasks) = DropAll THEN NoMarker
                       ELSE [marker EXCEPT !.stale = FALSE]
          /\ b' = IF outcome = "ok" THEN TaskDone ELSE TaskFailed
          /\ Pay(outcome)
    /\ UNCHANGED <<setup, obj, docs, posts, h, stats, txn, odd>>

-----------------------------------------------------------------------------
(* Open, reload, close and crash.                                          *)

Open(cfg) ==
    /\ h.mode = "closed" /\ Lasts("opens")
    /\ Opens(cfg)
    /\ Spend("opens")
    /\ UNCHANGED <<setup, obj, docs, posts, txn>>

\* reload_handle stops the builder before it takes the lock.
ReloadStop(cfg) ==
    /\ h.mode = "open" /\ Lasts("reloads")
    /\ h' = [h EXCEPT !.mode = "reloading", !.want = cfg]
    /\ b' = [b EXCEPT !.stop = TRUE]
    /\ Spend("reloads")
    /\ UNCHANGED <<setup, rows, stats, txn, odd>>

ReloadRebuild ==
    /\ h.mode = "reloading" /\ b.pc = "off" /\ NoWriter
    /\ Opens(h.want)
    /\ UNCHANGED <<setup, obj, docs, posts, txn, left>>

\* A migration in flight, or a schema that the catalog refuses: the old handle
\* lives on, its builder does not.
ReloadFails ==
    /\ h.mode = "reloading" /\ b.pc = "off" /\ NoWriter /\ setup.refusals
    /\ h' = [h EXCEPT !.mode = "open"]
    /\ odd' = [odd EXCEPT !.stranded = b.tasks /= <<>>]
    /\ UNCHANGED <<setup, rows, stats, b, txn, left>>

CloseStop ==
    /\ h.mode = "open" /\ NoWriter /\ Lasts("closes")
    /\ h' = [h EXCEPT !.mode = "closing"]
    /\ b' = [b EXCEPT !.stop = TRUE]
    /\ Spend("closes")
    /\ UNCHANGED <<setup, rows, stats, txn, odd>>

Closed == [mode |-> "closed", cfg |-> Off, gen |-> 0, state |-> Off, want |-> Off]

CloseJoin ==
    /\ h.mode = "closing" /\ b.pc = "off"
    /\ h' = Closed
    /\ b' = BuilderOff
    /\ UNCHANGED <<setup, rows, stats, txn, left, odd>>

Crash ==
    /\ h.mode /= "closed" /\ Lasts("crashes")
    /\ h' = Closed
    /\ b' = BuilderOff
    /\ txn' = [w \in Writer |-> Idle]
    /\ Spend("crashes")
    /\ UNCHANGED <<setup, rows, stats, odd>>

-----------------------------------------------------------------------------
Init ==
    /\ setup \in Setups
    /\ obj = [o \in Id |-> New]
    /\ docs = NoRows /\ posts = NoRows /\ marker = NoMarker
    /\ h = Closed /\ b = BuilderOff
    /\ stats = [docs |-> 0, tokens |-> 0]
    /\ txn = [w \in Writer |-> Idle]
    /\ left = setup.left
    /\ odd = [drift |-> FALSE, beaten |-> FALSE, stranded |-> FALSE]

Write(w) == (\E o \in Id : WriteBegin(w, o)) \/ WriteConflict(w) \/ WriteCommit(w) \/ WriteApply(w)

Builder == BuilderStops \/ BuilderNext \/ ChunkBegin \/ ChunkCommit \/ SweepChunk \/ SweepFinish

Next ==
    \/ \E w \in Writer : Write(w)
    \/ Builder
    \/ \E cfg \in setup.cfgs : Open(cfg) \/ ReloadStop(cfg)
    \/ ReloadRebuild \/ ReloadFails
    \/ CloseStop \/ CloseJoin \/ Crash

Spec == Init /\ [][Next]_vars

\* Threads that may take a step take one: the builder, a writer that has begun,
\* a reload and a close that wait.
FairSpec ==
    /\ Spec
    /\ WF_vars(Builder) /\ WF_vars(ReloadRebuild \/ ReloadFails) /\ WF_vars(CloseJoin)
    /\ \A w \in Writer : WF_vars(WriteConflict(w) \/ WriteCommit(w) \/ WriteApply(w))

-----------------------------------------------------------------------------
(* Properties.                                                             *)

TypeOK ==
    /\ obj \in [Id -> {New, Gone} \cup setup.values]
    /\ marker = NoMarker \/ marker.state \in {"building", "built", "dropping"}
    /\ h.mode \in {"closed", "open", "reloading", "closing"}
    /\ h.state \in {Off, "building", "built"}
    /\ b.pc \in {"off", "next", "chunk", "commit", "sweep", "finish"}
    /\ \A w \in Writer : txn[w].pc \in {"idle", "commit", "apply"}

RowsOf(gen, o) ==
    [doc |-> Restrict(docs, DOMAIN docs \cap {<<gen, o>>}),
     posts |-> Restrict(posts, {k \in DOMAIN posts : k[1] = gen /\ k[2] = o})]

NoRowsOf == [doc |-> NoRows, posts |-> NoRows]

RightRows(cfg, gen, o) ==
    IF IsText(obj[o])
    THEN [doc |-> DocRow(cfg, gen, o, obj[o]), posts |-> DocPosts(cfg, gen, o, obj[o])]
    ELSE NoRowsOf

\* An index that may be searched holds the rows of every object's present text
\* and no others, whatever writes, rebuilds and crashes came before
\* (fulltext_build.rs: "Nothing can be indexed twice with different content,
\* nothing is left un-indexed, nothing deleted lingers").
SearchableExact ==
    /\ marker /= NoMarker /\ marker.state = "built" =>
          \A o \in Id : RowsOf(marker.gen, o) = RightRows(marker.cfg, marker.gen, o)
    /\ h.state = "built" => marker.state = "built" /\ marker.gen = h.gen /\ marker.cfg = h.cfg

\* While an index is filled, an object has all of its rows or none: the l: row
\* by which run_build and stage_fulltext_update judge an object vouches for its
\* postings.
DocRowVouches ==
    marker /= NoMarker /\ marker.state /= "dropping" =>
        \A o \in Id : RowsOf(marker.gen, o) \in {NoRowsOf, RightRows(marker.cfg, marker.gen, o)}

\* Rows of another generation survive only under a marker that tells of them: a
\* field that gets its directive back never meets rows of an earlier index.
SweptClean ==
    /\ marker = NoMarker => docs = NoRows /\ posts = NoRows
    /\ marker /= NoMarker /\ ~marker.stale /\ marker.state /= "dropping" =>
          \A k \in DOMAIN docs \cup DOMAIN posts : k[1] = marker.gen

Pending == {w \in Writer : txn[w].pc = "apply"}

\* The statistics, which no row stores, count the l: rows of the generation in
\* use, save the commits whose change is still to be applied.
StatsExact ==
    h.mode /= "closed" /\ h.cfg /= Off /\ ~odd.drift =>
        CountDocs(h.gen) =
            [docs |-> stats.docs + MapThenSumSet(LAMBDA w : txn[w].staged.docs, Pending),
             tokens |-> stats.tokens + MapThenSumSet(LAMBDA w : txn[w].staged.tokens, Pending)]

\* No write of a client is refused for a commit of the builder
\* (fulltext_build.rs: "a user write can never lose to the builder").
ClientNeverBeaten == ~odd.beaten

Unsettled == h.mode = "open" /\ h.cfg /= Off /\ (marker.state = "building" \/ marker.stale)

\* A build or sweep that an open planned comes to its end, unless the thread
\* met a storage error or was stopped.
BuildSettles == Unsettled ~> ~Unsettled \/ b.failed \/ odd.stranded \/ b.stop

\* A handle that goes on serving after a reload was refused goes on building.
BuildSurvivesRefusal == Unsettled ~> ~Unsettled \/ b.failed
=============================================================================
