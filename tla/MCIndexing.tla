----------------------------- MODULE MCIndexing -----------------------------
(* Model checking the indexes that are built beside the writes: each behaviour *)
(* is one of the embedding queue (Vectorizer) or of a @fulltext field          *)
(* (FullText).  The parts use the variables v1 to v18 in turn, each for its    *)
(* own state.                                                                  *)
EXTENDS Integers, Sequences, TLC

CONSTANTS
    None,
    QueueSetups, o1, o2, c1, c2, w1, w2, Window, BatchSize, Retries, MaxJob, MaxText,     \* Vectorizer
    TextSetups, New, Gone, Null, NoMarker, Off, StopWord, Stem, MaxWords, MaxTerm, BuildChunk, DropChunk  \* FullText

VARIABLES part, v1, v2, v3, v4, v5, v6, v7, v8, v9, v10, v11, v12, v13, v14, v15, v16, v17, v18

Beyond11 == <<v12, v13, v14, v15, v16, v17, v18>>
all == <<part, v1, v2, v3, v4, v5, v6, v7, v8, v9, v10, v11, Beyond11>>

Obj == {o1, o2}
Id == {1, 2}
Client == {c1, c2}
Worker == {w1, w2}

Queue == INSTANCE Vectorizer WITH
    Setups <- QueueSetups, setup <- v1, text <- v2, queue <- v3, state <- v4, vec <- v5, snap <- v6, hnsw <- v7,
    next_job_id <- v8, inflight_enqueues <- v9, claim_cursor <- v10, claim_mutex <- v11, snapshots_dirty <- v12,
    embedders <- v13, retry_wait <- v14, mode <- v15, thr <- v16, left <- v17, odd <- v18

Text == INSTANCE FullText WITH
    Setups <- TextSetups, Writer <- Worker, setup <- v1, obj <- v2, docs <- v3, posts <- v4, marker <- v5, h <- v6,
    stats <- v7, b <- v8, txn <- v9, left <- v10, odd <- v11,
    \* the limits of a search, which no step of the index meets
    MinPrefix <- 0, MaxQueryTerms <- 0, MaxPhrase <- 0, MaxExpansion <- 0, MaxExpansionScan <- 0, ScanChunk <- 0

Init ==
    \/ part = "queue" /\ Queue!Init
    \/ /\ part = "text" /\ Text!Init /\ v12 = None /\ v13 = None /\ v14 = None /\ v15 = None
       /\ v16 = None /\ v17 = None /\ v18 = None

InQueue(A) == part = "queue" /\ A /\ UNCHANGED part
InText(A) == part = "text" /\ A /\ UNCHANGED <<part, Beyond11>>

Next == InQueue(Queue!Next) \/ InText(Text!Next)

\* The fairness of each part, in its own behaviours.
Fairness ==
    /\ \A c \in Client : WF_all(InQueue(Queue!Enqueue(c) \/ Queue!Store(c)))
    /\ \A w \in Worker :
        WF_all(InQueue(Queue!Enqueue(w) \/ Queue!Store(w)
                         \/ (w \in v1.workers /\ (Queue!Claim(w) \/ Queue!Process(w)))))
    /\ WF_all(InQueue(Queue!RetryTime \/ Queue!StopWorker \/ Queue!Open))
    /\ WF_all(InText(Text!Builder)) /\ WF_all(InText(Text!ReloadRebuild \/ Text!ReloadFails))
    /\ WF_all(InText(Text!CloseJoin))
    /\ \A w \in Worker : WF_all(InText(Text!WriteConflict(w) \/ Text!WriteCommit(w) \/ Text!WriteApply(w)))

Spec == Init /\ [][Next]_all /\ Fairness

-----------------------------------------------------------------------------
(* The embedding queue: two objects, up to two clients and two workers.    *)

QueueBounds(writes, crashes, stops, errors, loads, embeds, searches) ==
    [writes |-> writes, crashes |-> crashes, stops |-> stops, errors |-> errors,
     loads |-> loads, embeds |-> embeds, searches |-> searches]

OneModel == [o \in {o1, o2} |-> "a"]
TwoModels == [OneModel EXCEPT ![o2] = "b"]

OneWorker == [model |-> OneModel, supplied |-> {}, clients |-> {c1}, workers |-> {w1},
         texts |-> {1, 2}, deletes |-> FALSE, snapshot_loads |-> {TRUE},
         left |-> QueueBounds(2, 0, 0, 0, 0, 0, 0)]

AllQueues == {
    \* two clients and a worker
    [OneWorker EXCEPT !.clients = {c1, c2}],
    \* three jobs: more than a window, more than a batch
    [OneWorker EXCEPT !.texts = {1}, !.left = QueueBounds(3, 0, 0, 0, 0, 0, 0)],
    \* texts that go away, objects deleted
    [OneWorker EXCEPT !.texts = {0, 1}, !.deletes = TRUE, !.left = QueueBounds(3, 1, 0, 0, 0, 0, 0)],
    \* stop, snapshot, an unreadable snapshot
    [OneWorker EXCEPT !.snapshot_loads = BOOLEAN, !.left = QueueBounds(2, 1, 1, 0, 0, 0, 0)],
    \* storage errors
    [OneWorker EXCEPT !.texts = {1}, !.left = QueueBounds(2, 0, 1, 1, 0, 1, 0)],
    \* models that do not load
    [OneWorker EXCEPT !.model = TwoModels, !.texts = {1}, !.left = QueueBounds(2, 0, 0, 0, 1, 1, 1)],
    \* two workers
    [OneWorker EXCEPT !.workers = {w1, w2}],
    \* supplied vectors
    [OneWorker EXCEPT !.supplied = {o1}, !.clients = {c1, c2}, !.texts = {1},
                 !.left = QueueBounds(2, 1, 0, 1, 0, 0, 0)]
}

-----------------------------------------------------------------------------
(* A @fulltext field: texts over three words, one of them a stop word and  *)
(* two with the same stem.                                                 *)

TextBounds(writes, opens, reloads, closes, crashes, errors) ==
    [writes |-> writes, opens |-> opens, reloads |-> reloads, closes |-> closes,
     crashes |-> crashes, errors |-> errors]

the == <<"t", "h", "e">>
cat == <<"c", "a", "t">>
cats == <<"c", "a", "t", "s">>

StopWords == {the}
Stems == [w \in {the, cat, cats} |-> IF w = cats THEN cat ELSE w]

Simple == [analyzer |-> "simple", positions |-> TRUE]
English == [analyzer |-> "english", positions |-> TRUE]
Bare == [analyzer |-> "simple", positions |-> FALSE]

T1 == <<the, cat>>
T2 == <<cat, cats, cat>>
T3 == <<the, cat, cats>>

OneWriter == [writers |-> {w1}, cfgs |-> {Simple}, values |-> {T1, T2, Null}, refusals |-> FALSE,
         left |-> TextBounds(3, 1, 0, 0, 0, 0)]

AllTexts == {
    \* two writers on the same objects
    [OneWriter EXCEPT !.writers = {w1, w2}, !.values = {T1, T3, Null}],
    \* a directive that is added while objects exist, and reloads
    [OneWriter EXCEPT !.writers = {w1, w2}, !.cfgs = {Off, Simple}, !.values = {T1, T2},
                     !.left = TextBounds(3, 1, 1, 0, 0, 0)],
    \* a directive that changes, goes and comes back across closes and crashes
    [OneWriter EXCEPT !.cfgs = {Off, Simple, English}, !.values = {T1, T2},
                 !.left = TextBounds(2, 3, 0, 1, 1, 0)],
    [OneWriter EXCEPT !.cfgs = {Simple, Bare}, !.values = {T1, T2},
                 !.left = TextBounds(2, 2, 1, 0, 1, 0)],
    \* storage errors
    [OneWriter EXCEPT !.cfgs = {Off, Simple}, !.values = {T1, Null},
                 !.left = TextBounds(2, 3, 1, 1, 0, 1)],
    \* reloads that are refused
    [OneWriter EXCEPT !.cfgs = {Off, English}, !.values = {T1}, !.refusals = TRUE,
                 !.left = TextBounds(2, 1, 2, 0, 0, 0)]
}

-----------------------------------------------------------------------------
(* The properties, each in the behaviours of its part.                     *)

\* claim_batch never moves its cursor past a job that is still queued, whatever
\* order enqueues allocate, begin and commit in, and a Pending row has a job that
\* can be claimed or a thread about to settle it; except for a claim whose own
\* commit failed and the batches that the worker's error paths drop.
JobsKept == part = "queue" => Queue!CursorPassesNoJob /\ Queue!PendingAccounted

\* When nothing is queued or in hand for an object, its stored vector is that of
\* its current text, or its job failed, or the object met one of the named gaps;
\* and between stores the index in memory holds the stored vectors.
VectorsConverge == part = "queue" => Queue!VectorsConverge /\ Queue!IndexMatchesVectors

\* A full-text index that may be searched holds the rows of every object's present
\* text and no others; while it is filled an object has all of its rows or none;
\* rows of an older generation survive only under a marker that tells of them; the
\* statistics, which no row stores, count the rows; and all the while no write of a
\* client is refused for a commit of the builder.
SearchableExact ==
    part = "text" =>
        /\ Text!SearchableExact /\ Text!DocRowVouches /\ Text!SweptClean /\ Text!StatsExact
        /\ Text!ClientNeverBeaten

\* What was promised comes: with the worker running and the model loading in the
\* end, a Pending row is settled, unless its job was dropped or skipped on an error
\* path; and a build or sweep that an open planned comes to its end, unless the
\* thread met a storage error or was stopped.  (The two objects of the queue play
\* the same part, so one stands for both.)
IndexingSettles ==
    (\/ part = "queue" /\ v4[o2] = "Pending"
     \/ part = "text" /\ Text!Unsettled)
    ~> (\/ part = "queue" /\ (v4[o2] /= "Pending" \/ o2 \in v18.dropped \/ v18.skipped /= {})
        \/ part = "text" /\ (~Text!Unsettled \/ v8.failed \/ v11.stranded \/ v8.stop))
=============================================================================
