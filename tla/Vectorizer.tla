----------------------------- MODULE Vectorizer ------------------------------
(***************************************************************************)
(* The embedding queue and the vector index                                *)
(* (crates/rhypedb-engine/src/vectorizer.rs).                              *)
(*                                                                         *)
(* A write of an object is followed, in a transaction of its own, by a     *)
(* durable job and a Pending state row.  Workers claim jobs by deleting    *)
(* them, read the source texts, embed them and store vector and state.     *)
(* The index in memory is filled before the vector is durable; a snapshot  *)
(* file and the stored vectors rebuild it at open, where Pending rows that *)
(* have no job get one again.                                              *)
(*                                                                         *)
(* One vector field per object.  A text is a number, the vector of a text  *)
(* the same number; 0 is no text, no vector; Erased is a deleted object.   *)
(* Transactions are those of Mvcc: a commit fails if a state row that it   *)
(* writes was written since its begin.                                     *)
(***************************************************************************)
EXTENDS Integers, Sequences, FiniteSetsExt, SequencesExt, Functions, TLC

CONSTANTS
    Setups,     \* models, permitted calls and bounds
    Obj,
    Client,     \* connections that write objects
    Worker,     \* threads of start_worker
    None,
    Window,     \* CLAIM_WINDOW
    BatchSize,  \* config.batch_size
    Retries,    \* MAX_CONFLICT_RETRIES
    MaxJob,     \* bound on job ids
    MaxText     \* bound on texts

VARIABLES
    setup,
    text,           \* the source field of the object rows
    queue,          \* q: rows, a function from job ids to objects
    state,          \* s: rows
    vec,            \* v: rows
    snap,           \* the hnsw_*.bin file
    hnsw,           \* the index in memory
    next_job_id, inflight_enqueues, claim_cursor, claim_mutex,
    snapshots_dirty,
    embedders,      \* models loaded
    retry_wait,     \* next_retry_at lies ahead
    mode,           \* closed, running, stopping
    thr,            \* the threads
    left,           \* what remains of the setup's bounds
    odd             \* history: objects whose job took an error path

store == <<text, queue, state, vec, snap>>
claims == <<next_job_id, inflight_enqueues, claim_cursor, claim_mutex>>
models == <<embedders, retry_wait>>
vars == <<setup, store, hnsw, claims, snapshots_dirty, models, mode, thr, left, odd>>

Erased == -1
Thread == Client \cup Worker

Idle == [pc |-> "idle", jobs |-> <<>>, first |-> 0, attempt |-> 0, dirty |-> {},
         bound |-> 0, cursor |-> 0, seen |-> <<>>, batch |-> <<>>, groups |-> {},
         todo |-> <<>>, orphans |-> {}, stored |-> FALSE, load_failed |-> FALSE]

NothingOdd == [skipped |-> {}, dropped |-> {}, missed |-> {}, forgotten |-> {},
               overtaken |-> {}, ahead |-> {}, stale |-> {}]

\* A new job makes good whatever befell the earlier ones of the object.
Requeued(objs) ==
    [odd EXCEPT !.dropped = @ \ objs, !.missed = @ \ objs, !.forgotten = @ \ objs,
                !.overtaken = @ \ objs]

Empty == [o \in Obj |-> 0]
NonEmpty(index) == index /= Empty

Go(t, pc) == thr' = [thr EXCEPT ![t].pc = pc]

\* State rows that a commit writes are dirty for the open transactions.
Wrote(threads, objs) ==
    [t \in Thread |-> [threads[t] EXCEPT !.dirty = @ \cup objs]]

Spend(what) == left' = [left EXCEPT ![what] = @ - 1]

\* What a commit that writes these state rows may come to: it is refused, it
\* fails with nothing written, it is published but a flush after it fails.
Outcomes(t, objs) ==
    IF thr[t].dirty \cap objs /= {} THEN {"conflict"}
    ELSE {"ok"} \cup (IF left.errors > 0 THEN {"lost", "late"} ELSE {})

Pay(outcome) ==
    IF outcome \in {"lost", "late"} THEN Spend("errors") ELSE UNCHANGED left

Applied(outcome) == outcome \in {"ok", "late"}

-----------------------------------------------------------------------------
(* Writes of objects by the server, each followed by enqueue_vectorize.    *)

\* create, update: the enqueue comes after the commit.
WriteObject(c, o) ==
    /\ mode = "running" /\ thr[c].pc = "idle" /\ left.writes > 0
    /\ o \notin setup.supplied /\ text[o] /= Erased
    /\ \E n \in setup.texts \ {text[o]} : text' = [text EXCEPT ![o] = n]
    /\ thr' = [thr EXCEPT ![c] = [Idle EXCEPT !.pc = "enqueue", !.jobs = <<o>>]]
    /\ Spend("writes")
    /\ UNCHANGED <<setup, queue, state, vec, snap, hnsw, claims, snapshots_dirty, models,
                   mode, odd>>

\* A delete leaves queue, state, vector and index alone.
DeleteObject(c, o) ==
    /\ mode = "running" /\ thr[c].pc = "idle" /\ left.writes > 0
    /\ setup.deletes /\ text[o] /= Erased
    /\ text' = [text EXCEPT ![o] = Erased]
    /\ Spend("writes")
    /\ UNCHANGED <<setup, queue, state, vec, snap, hnsw, claims, snapshots_dirty, models,
                   mode, thr, odd>>

-----------------------------------------------------------------------------
(* enqueue_many, for a client and for a worker whose model did not load.   *)

\* Ids are allocated and registered under one lock; then begin_txn.
EnqueueAlloc(t) ==
    /\ thr[t].pc = "enqueue"
    /\ next_job_id + Len(thr[t].jobs) <= MaxJob + 1
    /\ next_job_id' = next_job_id + Len(thr[t].jobs)
    /\ inflight_enqueues' = inflight_enqueues \cup {next_job_id}
    /\ thr' = [thr EXCEPT ![t].pc = "enqueue_commit", ![t].first = next_job_id,
                          ![t].attempt = 0, ![t].dirty = {}]
    /\ UNCHANGED <<setup, store, hnsw, claim_cursor, claim_mutex, snapshots_dirty, models,
                   mode, left, odd>>

EnqueueCommit(t) ==
    /\ thr[t].pc = "enqueue_commit"
    /\ LET objs == Range(thr[t].jobs)
           first == thr[t].first
       IN  \E outcome \in Outcomes(t, objs) :
            /\ IF Applied(outcome)
               THEN /\ queue' = [i \in first .. first + Len(thr[t].jobs) - 1 |->
                                    thr[t].jobs[i - first + 1]] @@ queue
                    /\ state' = [o \in objs |-> "Pending"] @@ state
               ELSE UNCHANGED <<queue, state>>
            /\ thr' = IF outcome = "conflict" /\ thr[t].attempt < Retries
                      THEN [thr EXCEPT ![t].attempt = @ + 1, ![t].dirty = {}]
                      ELSE Wrote([thr EXCEPT ![t].pc = "enqueue_end"],
                                 IF Applied(outcome) THEN objs ELSE {})
            /\ odd' = IF Applied(outcome) THEN Requeued(objs)
                      ELSE IF thr'[t].pc = "enqueue_commit" THEN odd
                      ELSE IF t \in Client THEN [odd EXCEPT !.missed = @ \cup objs]
                      ELSE [odd EXCEPT !.dropped = @ \cup objs]
            /\ Pay(outcome)
    /\ UNCHANGED <<setup, text, vec, snap, hnsw, claims, snapshots_dirty, models, mode>>

\* Mutant: the registration of the ids is not dropped.
EnqueueEndRegistered(t) ==
    /\ thr[t].pc = "enqueue_end"
    /\ thr' = [thr EXCEPT ![t] = IF t \in Client THEN Idle
                                 ELSE [@ EXCEPT !.pc = "batch", !.jobs = <<>>, !.first = 0,
                                                !.attempt = 0, !.dirty = {}]]
    /\ UNCHANGED <<setup, store, hnsw, claims, snapshots_dirty, models, mode, left, odd>>

\* Unregister::drop; the server ignores the result, the worker logs it.
EnqueueEnd(t) ==
    /\ thr[t].pc = "enqueue_end"
    /\ inflight_enqueues' = inflight_enqueues \ {thr[t].first}
    /\ thr' = [thr EXCEPT ![t] = IF t \in Client THEN Idle
                                 ELSE [@ EXCEPT !.pc = "batch", !.jobs = <<>>, !.first = 0,
                                                !.attempt = 0, !.dirty = {}]]
    /\ UNCHANGED <<setup, store, hnsw, next_job_id, claim_cursor, claim_mutex,
                   snapshots_dirty, models, mode, left, odd>>

-----------------------------------------------------------------------------
(* claim_batch.                                                            *)

\* Mutant: enqueues in flight do not hold the bound back.
claim_bound_next == next_job_id

\* The lowest id that may still be uncommitted.
claim_bound == Min(inflight_enqueues \cup {next_job_id})

\* The bound is read under the lock before the snapshot is taken.
ClaimBound(w) ==
    /\ mode = "running" /\ thr[w].pc = "idle" /\ claim_mutex = None
    /\ claim_mutex' = w
    /\ thr' = [thr EXCEPT ![w].pc = "claim_begin", ![w].bound = claim_bound]
    /\ UNCHANGED <<setup, store, hnsw, next_job_id, inflight_enqueues, claim_cursor,
                   snapshots_dirty, models, mode, left, odd>>

ClaimBegin(w) ==
    /\ thr[w].pc = "claim_begin"
    /\ thr' = [thr EXCEPT ![w].pc = "claim_scan", ![w].seen = queue,
                          ![w].cursor = claim_cursor]
    /\ UNCHANGED <<setup, store, hnsw, claims, snapshots_dirty, models, mode, left, odd>>

MoreToClaim(r) == r.cursor < r.bound /\ Len(r.jobs) < BatchSize

\* The scan of one window: the jobs taken, and where the cursor goes.
ScanWindow(r) ==
    LET window == r.cursor \div Window
        ids == {i \in DOMAIN r.seen : i \div Window = window /\ r.cursor <= i /\ i < r.bound}
        taken == SubSeq(SetToSortSeq(ids, <), 1, Min({Cardinality(ids), BatchSize - Len(r.jobs)}))
        jobs == r.jobs \o taken
    IN  [r EXCEPT !.jobs = jobs,
                  !.cursor = IF taken /= <<>> /\ Len(jobs) >= BatchSize
                             THEN Last(taken) + 1
                             ELSE (window + 1) * Window]

ClaimWindow(w) ==
    /\ thr[w].pc = "claim_scan" /\ MoreToClaim(thr[w])
    /\ thr' = [thr EXCEPT ![w] = ScanWindow(@)]
    /\ UNCHANGED <<setup, store, hnsw, claims, snapshots_dirty, models, mode, left, odd>>

\* save_snapshots, and save_snapshots_if_due.
SaveSnapshots ==
    /\ snap' = IF NonEmpty(hnsw) THEN hnsw ELSE snap
    /\ snapshots_dirty' = FALSE

SaveSnapshotsIfDue(due) ==
    IF snapshots_dirty /\ due THEN SaveSnapshots ELSE UNCHANGED <<snap, snapshots_dirty>>

\* Nothing live below the bound: the cursor moves all the same.
ClaimNothing(w) ==
    /\ thr[w].pc = "claim_scan" /\ ~ MoreToClaim(thr[w]) /\ thr[w].jobs = <<>>
    /\ claim_cursor' = Min({thr[w].cursor, thr[w].bound})
    /\ claim_mutex' = None
    /\ SaveSnapshotsIfDue(TRUE)
    /\ thr' = [thr EXCEPT ![w] = Idle]
    /\ UNCHANGED <<setup, text, queue, state, vec, hnsw, next_job_id, inflight_enqueues,
                   models, mode, left, odd>>

\* The cursor is stored, then the rows are deleted and committed.
ClaimCommit(w) ==
    /\ thr[w].pc = "claim_scan" /\ ~ MoreToClaim(thr[w]) /\ thr[w].jobs /= <<>>
    /\ claim_cursor' = Min({thr[w].cursor, thr[w].bound})
    /\ claim_mutex' = None
    /\ LET ids == thr[w].jobs
           batch == [n \in DOMAIN ids |-> thr[w].seen[ids[n]]]
       IN  \E outcome \in Outcomes(w, {}) :
            /\ queue' = IF Applied(outcome)
                        THEN Restrict(queue, DOMAIN queue \ Range(ids)) ELSE queue
            /\ thr' = [thr EXCEPT ![w] =
                         IF outcome = "ok"
                         THEN [Idle EXCEPT !.pc = "batch", !.batch = batch,
                                           !.groups = {setup.model[o] : o \in Range(batch)}]
                         ELSE Idle]
            /\ odd' = CASE outcome = "ok" -> odd
                        [] outcome = "lost" -> [odd EXCEPT !.skipped = @ \cup Range(ids)]
                        [] outcome = "late" -> [odd EXCEPT !.dropped = @ \cup Range(batch)]
            /\ Pay(outcome)
    /\ UNCHANGED <<setup, text, state, vec, snap, hnsw, next_job_id, inflight_enqueues,
                   snapshots_dirty, models, mode>>

-----------------------------------------------------------------------------
(* process_batch.                                                          *)

Jobs(r, m) == SelectSeq(r.batch, LAMBDA o : setup.model[o] = m)

\* Mutant: the texts are paired with the jobs by position.
ReadTextsShifted(w, m) ==
    /\ thr[w].pc = "batch" /\ m \in thr[w].groups
    /\ LET jobs == Jobs(thr[w], m)
           with_text == SelectSeq(jobs, LAMBDA o : text[o] > 0)
       IN  thr' = [thr EXCEPT ![w].groups = @ \ {m},
                     ![w].todo = [n \in DOMAIN with_text |-> <<jobs[n], text[with_text[n]]>>],
                     ![w].orphans = Range(jobs) \ Range(with_text),
                     ![w].pc = IF with_text /= jobs THEN "clear" ELSE "embed"]
    /\ UNCHANGED <<setup, store, hnsw, claims, snapshots_dirty, models, mode, left, odd>>

\* The texts of one model's jobs, at one snapshot; jobs without text are orphans.
ReadTexts(w, m) ==
    /\ thr[w].pc = "batch" /\ m \in thr[w].groups
    /\ LET jobs == Jobs(thr[w], m)
           with_text == SelectSeq(jobs, LAMBDA o : text[o] > 0)
       IN  thr' = [thr EXCEPT ![w].groups = @ \ {m},
                     ![w].todo = [n \in DOMAIN with_text |-> <<with_text[n], text[with_text[n]]>>],
                     ![w].orphans = Range(jobs) \ Range(with_text),
                     ![w].pc = IF with_text /= jobs THEN "clear" ELSE "embed"]
    /\ UNCHANGED <<setup, store, hnsw, claims, snapshots_dirty, models, mode, left, odd>>

\* clear_orphaned_states: a refused delete is repeated key by key in new
\* transactions, so the rows go as they are now; an error is only logged.
ClearOrphanedStates(w) ==
    /\ thr[w].pc = "clear"
    /\ \E outcome \in Outcomes(w, {}) :
         LET objs == IF Applied(outcome) THEN thr[w].orphans ELSE {}
         IN  /\ state' = [o \in objs |-> "none"] @@ state
             /\ thr' = Wrote([thr EXCEPT ![w].orphans = {},
                                         ![w].pc = IF thr[w].todo = <<>> THEN "batch" ELSE "embed"],
                             objs)
             /\ odd' = IF Applied(outcome) THEN odd
                       ELSE [odd EXCEPT !.dropped = @ \cup thr[w].orphans]
             /\ Pay(outcome)
    /\ UNCHANGED <<setup, text, queue, vec, snap, hnsw, claims, snapshots_dirty, models, mode>>

\* get_or_load_embedder: a model that failed to load is not tried again
\* before its time.
Loads(m) ==
    /\ m \in embedders \/ ~ retry_wait
    /\ embedders' = embedders \cup {m}
    /\ retry_wait' = IF m \in embedders THEN retry_wait ELSE FALSE

LoadFails(m) ==
    /\ m \notin embedders
    /\ UNCHANGED embedders
    /\ \/ retry_wait /\ UNCHANGED <<retry_wait, left>>
       \/ ~ retry_wait /\ left.loads > 0 /\ retry_wait' = TRUE /\ Spend("loads")

Group(r) == [n \in DOMAIN r.todo |-> r.todo[n][1]]

\* One vector per text.
Embed(w) ==
    /\ thr[w].pc = "embed"
    /\ Loads(setup.model[Head(thr[w].todo)[1]])
    /\ Go(w, "store")
    /\ UNCHANGED <<setup, store, hnsw, claims, snapshots_dirty, mode, left, odd>>

\* An error of embed, or an answer of the wrong length.
EmbedFails(w) ==
    /\ thr[w].pc = "embed" /\ left.embeds > 0
    /\ Loads(setup.model[Head(thr[w].todo)[1]])
    /\ Go(w, "fail")
    /\ Spend("embeds")
    /\ UNCHANGED <<setup, store, hnsw, claims, snapshots_dirty, mode, odd>>

\* The model is at fault, not the jobs: enqueue_many takes them back.
EmbedUnavailable(w) ==
    /\ thr[w].pc = "embed"
    /\ LoadFails(setup.model[Head(thr[w].todo)[1]])
    /\ thr' = [thr EXCEPT ![w].pc = "enqueue", ![w].jobs = Group(thr[w]),
                          ![w].todo = <<>>, ![w].load_failed = TRUE]
    /\ UNCHANGED <<setup, store, hnsw, claims, snapshots_dirty, mode, odd>>

\* What a thread has taken off the queue, or not yet put on it.
Held(r) ==
    {o \in Range(r.batch) : setup.model[o] \in r.groups} \cup Range(Group(r))
      \cup r.orphans \cup (IF r.pc = "enqueue_end" \/ r.pc = "claim_scan" THEN {} ELSE Range(r.jobs))

\* store_and_index, ingest_vectors: the index first.
StoreInsert(t) ==
    /\ thr[t].pc = "store"
    /\ hnsw' = [hnsw EXCEPT ![Head(thr[t].todo)[1]] = Head(thr[t].todo)[2]]
    /\ Go(t, "store_begin")
    /\ UNCHANGED <<setup, store, claims, snapshots_dirty, models, mode, left, odd>>

StoreBegin(t) ==
    /\ thr[t].pc \in {"store_begin", "fail"}
    /\ thr' = [thr EXCEPT ![t].dirty = {},
                          ![t].pc = IF @ = "fail" THEN "fail_commit" ELSE "store_commit"]
    /\ UNCHANGED <<setup, store, hnsw, claims, snapshots_dirty, models, mode, left, odd>>

\* The rest of the batch after a job whose commit succeeded; after an error
\* process_batch returns and the rest of the batch is dropped.
NextJob(t, again, stored) ==
    IF t \in Client THEN Idle
    ELSE [thr[t] EXCEPT !.todo = Tail(@), !.stored = @ \/ stored, !.dirty = {},
                        !.pc = IF Len(thr[t].todo) = 1 THEN "batch" ELSE again]

BatchDropped(t, outcome) ==
    IF t \in Client \/ outcome = "ok" THEN {}
    ELSE Held([thr[t] EXCEPT !.todo = IF outcome = "late" THEN Tail(@) ELSE @])
           \ Range(queue)

StoreCommit(t) ==
    /\ thr[t].pc = "store_commit"
    /\ LET o == Head(thr[t].todo)[1]
           n == Head(thr[t].todo)[2]
       IN  \E outcome \in Outcomes(t, {o}) :
            /\ IF Applied(outcome)
               THEN /\ vec' = [vec EXCEPT ![o] = n]
                    /\ state' = [state EXCEPT ![o] = "Indexed"]
               ELSE UNCHANGED <<vec, state>>
            /\ thr' = Wrote([thr EXCEPT ![t] = IF outcome = "ok" THEN NextJob(t, "store", TRUE)
                                               ELSE Idle],
                            IF Applied(outcome) THEN {o} ELSE {})
            /\ LET was == IF Applied(outcome) /\ n = text[o] THEN Requeued({o}) ELSE odd
                   differs == IF Applied(outcome) THEN hnsw[o] /= n ELSE hnsw[o] /= vec[o]
               IN  odd' = [was EXCEPT
                     !.dropped = @ \cup BatchDropped(t, outcome),
                     !.overtaken = IF Applied(outcome) /\ vec[o] = text[o] /\ n /= text[o]
                                   THEN @ \cup {o} ELSE @,
                     !.ahead = IF differs THEN @ \cup {o} ELSE @ \ {o},
                     !.stale = IF differs THEN @ ELSE @ \ {o}]
            /\ Pay(outcome)
    /\ UNCHANGED <<setup, text, queue, snap, hnsw, claims, snapshots_dirty, models, mode>>

\* mark_batch_failed.
FailCommit(w) ==
    /\ thr[w].pc = "fail_commit"
    /\ LET o == Head(thr[w].todo)[1]
       IN  \E outcome \in Outcomes(w, {o}) :
            /\ state' = IF Applied(outcome) THEN [state EXCEPT ![o] = "Failed"] ELSE state
            /\ thr' = Wrote([thr EXCEPT ![w] = IF outcome = "ok" THEN NextJob(w, "fail", FALSE)
                                               ELSE Idle],
                            IF Applied(outcome) THEN {o} ELSE {})
            /\ odd' = [odd EXCEPT !.dropped = @ \cup BatchDropped(w, outcome)]
            /\ Pay(outcome)
    /\ UNCHANGED <<setup, text, queue, vec, snap, hnsw, claims, snapshots_dirty, models, mode>>

\* The end of the batch; the interval since the last save may have passed.
BatchEnd(w) ==
    /\ thr[w].pc = "batch" /\ thr[w].groups = {}
    /\ \E due \in BOOLEAN :
         LET dirty == snapshots_dirty \/ thr[w].stored
         IN  /\ snap' = IF dirty /\ due /\ NonEmpty(hnsw) THEN hnsw ELSE snap
             /\ snapshots_dirty' = (dirty /\ ~ due)
    /\ thr' = [thr EXCEPT ![w] = [Idle EXCEPT !.pc = IF thr[w].load_failed THEN "sleep" ELSE "idle"]]
    /\ UNCHANGED <<setup, text, queue, state, vec, hnsw, claims, models, mode, left, odd>>

\* interruptible_sleep until the next load attempt is permitted.
Wake(w) ==
    /\ thr[w].pc = "sleep" /\ (~ retry_wait \/ mode = "stopping")
    /\ Go(w, "idle")
    /\ UNCHANGED <<setup, store, hnsw, claims, snapshots_dirty, models, mode, left, odd>>

RetryTime ==
    /\ retry_wait
    /\ retry_wait' = FALSE
    /\ UNCHANGED <<setup, store, hnsw, claims, snapshots_dirty, embedders, mode, thr, left, odd>>

\* A text search loads the model too.
SearchLoads(m) ==
    /\ mode = "running" /\ m \notin embedders /\ left.searches > 0
    /\ \/ Loads(m) /\ Spend("searches")
       \/ ~ retry_wait /\ retry_wait' = TRUE /\ UNCHANGED embedders /\ Spend("searches")
    /\ UNCHANGED <<setup, store, hnsw, claims, snapshots_dirty, mode, thr, odd>>

-----------------------------------------------------------------------------
(* Vectors that the caller supplies.                                       *)

IngestVectors(c, o) ==
    /\ mode = "running" /\ thr[c].pc = "idle" /\ left.writes > 0
    /\ o \in setup.supplied /\ text[o] /= Erased
    /\ \E n \in 1 .. MaxText :
         thr' = [thr EXCEPT ![c] = [Idle EXCEPT !.pc = "store", !.todo = <<<<o, n>>>>]]
    /\ Spend("writes")
    /\ UNCHANGED <<setup, store, hnsw, claims, snapshots_dirty, models, mode, odd>>

-----------------------------------------------------------------------------
(* Stop, crash, open.                                                      *)

StopRequest ==
    /\ mode = "running" /\ left.stops > 0 /\ \A c \in Client : thr[c].pc = "idle"
    /\ mode' = "stopping"
    /\ Spend("stops")
    /\ UNCHANGED <<setup, store, hnsw, claims, snapshots_dirty, models, thr, odd>>

\* What memory holds is lost.
Forget ==
    /\ mode' = "closed"
    /\ hnsw' = Empty
    /\ inflight_enqueues' = {} /\ claim_cursor' = 0 /\ claim_mutex' = None
    /\ embedders' = {} /\ retry_wait' = FALSE
    /\ thr' = [t \in Thread |-> Idle]
    /\ UNCHANGED <<setup, text, queue, state, vec, next_job_id>>

\* stop_worker joins the workers, then saves the snapshots.
StopWorker ==
    /\ mode = "stopping" /\ \A w \in Worker : thr[w].pc = "idle"
    /\ SaveSnapshots
    /\ Forget
    /\ odd' = [odd EXCEPT !.skipped = {}]
    /\ UNCHANGED left

Crash ==
    /\ mode /= "closed" /\ left.crashes > 0
    /\ Spend("crashes")
    /\ Forget
    /\ snapshots_dirty' = FALSE /\ UNCHANGED snap
    /\ odd' = [odd EXCEPT
         !.skipped = {},
         !.missed = @ \cup UNION {Range(thr[c].jobs) : c \in {d \in Client :
                                        thr[d].pc \in {"enqueue", "enqueue_commit"}}},
         !.forgotten = @ \cup {o \in UNION {Held(thr[w]) : w \in Worker} :
                                  /\ state[o] /= "Pending" /\ text[o] > 0
                                  /\ vec[o] /= text[o] /\ o \notin Range(queue)}]

\* rebuild_indexes: a snapshot that loads and has the schema's configuration
\* gets the vectors it lacks; otherwise the index is rebuilt and saved.
RebuildIndexes(loads) ==
    IF loads /\ NonEmpty(snap)
    THEN /\ hnsw' = [o \in Obj |-> IF snap[o] /= 0 THEN snap[o] ELSE vec[o]]
         /\ UNCHANGED snap
    ELSE /\ hnsw' = vec
         /\ snap' = IF NonEmpty(vec) THEN vec ELSE snap

\* reconcile_pending_jobs: Pending rows without a job get one if the object
\* has a text, and go if it has none.
Orphans == {o \in Obj \ setup.supplied : state[o] = "Pending" /\ o \notin Range(queue)}

ReconcilePendingJobs ==
    LET jobs == SetToSeq({o \in Orphans : text[o] > 0})
        next == Max({0} \cup DOMAIN queue) + 1
    IN  /\ next + Len(jobs) <= MaxJob + 1
        /\ queue' = [i \in next .. next + Len(jobs) - 1 |-> jobs[i - next + 1]] @@ queue
        /\ state' = [o \in {x \in Orphans : text[x] <= 0} |-> "none"] @@ state
        /\ next_job_id' = next + Len(jobs)
        /\ odd' = [Requeued(Range(jobs)) EXCEPT
                     !.dropped = @ \ Orphans,
                     !.ahead = {}, !.stale = {o \in Obj : snap'[o] \notin {0, vec[o]}}]

\* with_config, then start_worker.
Open ==
    /\ mode = "closed"
    /\ \E loads \in setup.snapshot_loads : RebuildIndexes(loads)
    /\ ReconcilePendingJobs
    /\ mode' = "running"
    /\ UNCHANGED <<setup, text, vec, inflight_enqueues, claim_cursor, claim_mutex,
                   snapshots_dirty, models, thr, left>>

-----------------------------------------------------------------------------
Init ==
    /\ setup \in Setups
    /\ text = Empty /\ queue = <<>> /\ state = [o \in Obj |-> "none"]
    /\ vec = Empty /\ snap = Empty /\ hnsw = Empty
    /\ next_job_id = 1 /\ inflight_enqueues = {} /\ claim_cursor = 0 /\ claim_mutex = None
    /\ snapshots_dirty = FALSE /\ embedders = {} /\ retry_wait = FALSE
    /\ mode = "running"
    /\ thr = [t \in Thread |-> Idle]
    /\ left = setup.left
    /\ odd = NothingOdd

Enqueue(t) == EnqueueAlloc(t) \/ EnqueueCommit(t) \/ EnqueueEnd(t)
Claim(w) == ClaimBound(w) \/ ClaimBegin(w) \/ ClaimWindow(w) \/ ClaimNothing(w) \/ ClaimCommit(w)
Store(t) == StoreInsert(t) \/ StoreBegin(t) \/ StoreCommit(t)
Process(w) ==
    \/ \E m \in thr[w].groups : ReadTexts(w, m)
    \/ ClearOrphanedStates(w)
    \/ Embed(w) \/ EmbedFails(w) \/ EmbedUnavailable(w)
    \/ FailCommit(w)
    \/ BatchEnd(w) \/ Wake(w)

Next ==
    \/ \E c \in setup.clients, o \in Obj : WriteObject(c, o) \/ DeleteObject(c, o) \/ IngestVectors(c, o)
    \/ \E t \in Thread : Enqueue(t) \/ Store(t)
    \/ \E w \in setup.workers : Claim(w) \/ Process(w)
    \/ RetryTime
    \/ \E o \in Obj : SearchLoads(setup.model[o])
    \/ StopRequest \/ StopWorker \/ Crash \/ Open

\* The threads run, the clock advances, the process is started again.
Fairness ==
    /\ \A c \in Client : WF_vars(Enqueue(c) \/ Store(c))
    /\ \A w \in Worker :
         WF_vars(Enqueue(w) \/ Store(w) \/ (w \in setup.workers /\ (Claim(w) \/ Process(w))))
    /\ WF_vars(RetryTime \/ StopWorker \/ Open)

Spec == Init /\ [][Next]_vars
FairSpec == Spec /\ Fairness

-----------------------------------------------------------------------------
(* Properties.                                                             *)

\* Types; ids in flight lie below next_job_id; the claim lock is held exactly
\* by the worker that claims.
TypeOK ==
    /\ text \in [Obj -> Erased .. MaxText]
    /\ DOMAIN queue \subseteq 1 .. MaxJob /\ Range(queue) \subseteq Obj
    /\ state \in [Obj -> {"none", "Pending", "Indexed", "Failed"}]
    /\ vec \in [Obj -> 0 .. MaxText] /\ snap \in [Obj -> 0 .. MaxText]
    /\ hnsw \in [Obj -> 0 .. MaxText]
    /\ next_job_id \in 1 .. MaxJob + 1
    /\ \A i \in inflight_enqueues : i < next_job_id
    /\ claim_cursor \in 0 .. next_job_id
    /\ {w \in Worker : thr[w].pc \in {"claim_begin", "claim_scan"}} = {claim_mutex} \ {None}

\* claim_batch never moves its cursor past a job that is still queued,
\* whatever order enqueues allocate, begin and commit in; the one exception is
\* a claim whose own commit failed after the cursor was stored.
CursorPassesNoJob ==
    mode /= "closed" =>
        \A i \in DOMAIN queue : claim_cursor <= i \/ i \in odd.skipped

Queued(o) == o \in Range(queue)
InHand(o) == \E t \in Thread : o \in Held(thr[t])

\* A Pending row has a job that a worker can claim, or a thread that is about
\* to settle it, or its job was dropped on one of the error paths of the
\* worker, which only the next open repairs.
PendingAccounted ==
    mode /= "closed" =>
        \A o \in Obj : state[o] = "Pending" =>
            \/ \E i \in DOMAIN queue : queue[i] = o /\ i >= claim_cursor
            \/ InHand(o)
            \/ o \in odd.dropped \/ \E i \in odd.skipped \cap DOMAIN queue : queue[i] = o

\* When nothing is queued or in hand for an object, its stored vector is that
\* of its current text, or its job failed, or the object met one of the named
\* gaps: the enqueue did not happen, the batch was dropped, a crash forgot a
\* claimed job, an older vector of a second worker came last.
VectorsConverge ==
    mode = "running" =>
        \A o \in Obj \ setup.supplied :
            text[o] > 0 /\ ~ Queued(o) /\ ~ InHand(o) =>
                \/ vec[o] = text[o] \/ state[o] = "Failed"
                \/ o \in odd.missed \cup odd.dropped \cup odd.forgotten \cup odd.overtaken

Storing(o) ==
    \E t \in Thread : thr[t].pc \in {"store_begin", "store_commit"} /\ Head(thr[t].todo)[1] = o

\* Between stores the index in memory holds the stored vectors, except where
\* an insert ran ahead of a commit that failed or was overtaken, and where the
\* snapshot that was loaded holds an older vector of the object.
IndexMatchesVectors ==
    mode = "running" =>
        \A o \in Obj : Storing(o) \/ hnsw[o] = vec[o] \/ o \in odd.ahead \cup odd.stale

\* An object whose enqueue committed has the vector of its text once nothing
\* is queued or in hand, crashes included.
ClaimedJobsSurvive ==
    mode = "running" =>
        \A o \in Obj :
            text[o] > 0 /\ ~ Queued(o) /\ ~ InHand(o) /\ o \notin odd.missed =>
                vec[o] = text[o]

\* The index that open builds holds the stored vectors.
ReopenedIndexCurrent ==
    mode = "running" => \A o \in Obj : Storing(o) \/ hnsw[o] = vec[o] \/ o \in odd.ahead

\* With the worker running and the model loading in the end, every Pending row
\* is settled, unless its job was dropped or skipped on an error path.
PendingSettles ==
    \A o \in Obj :
        [](state[o] = "Pending" => <>(\/ state[o] /= "Pending" \/ o \in odd.dropped
                                      \/ odd.skipped /= {}))
=============================================================================
