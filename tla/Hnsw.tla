--------------------------------- MODULE Hnsw --------------------------------
(***************************************************************************)
(* The vector index (rhypedb-vector/src/hnsw.rs, index.rs) as the engine    *)
(* uses it: threads insert, delete and search one graph without a global    *)
(* lock, a worker writes a snapshot of it meanwhile, and a restart loads    *)
(* the snapshot and inserts the stored vectors that it lacks.               *)
(*                                                                          *)
(* A step is what happens under one lock or is one atomic load or store:    *)
(* the append of a node, the claim of its id, a read or write of the entry  *)
(* point, a read or write of one node's neighbor lists, the publication of  *)
(* a node.  A vector is a point of a line, and quantization keeps it.  The  *)
(* append to the node store is atomic: the node that is being appended is   *)
(* seen by nobody.  Node indices start at 1; 0 is no node.                  *)
(***************************************************************************)
EXTENDS Integers, Sequences, TLC
LOCAL INSTANCE FiniteSets
LOCAL INSTANCE FiniteSetsExt
S == INSTANCE SequencesExt

CONSTANTS
    Setups,             \* [ops, m, m_max0, ef_construction, levels, restarts, after] of a behaviour
    EXACT_FILTER_MAX,   \* ids that are ranked without the index
    Infinity,           \* the distance of an id without a usable vector
    Off                 \* no cross-encoder, no setting

VARIABLES
    setup,
    nodes,      \* the node store
    id_to_idx,  \* id -> node
    entry,      \* [node, max_layer]
    threads,    \* thread -> where it is in its operation
    raw,        \* the stored vectors: id -> vector
    file,       \* the last snapshot
    answers,    \* what the searches returned
    left,       \* restarts left
    odd         \* what happened that the properties except
vars == <<setup, nodes, id_to_idx, entry, threads, raw, file, answers, left, odd>>

Abs(n) == IF n < 0 THEN -n ELSE n
NoEntry == [node |-> 0, max_layer |-> 0]
NoFile == [entry |-> NoEntry, count |-> 0, nodes |-> <<>>, linked |-> TRUE]
Nowhere == [node |-> 0, level |-> 0, top |-> 0, layer |-> 0, ep |-> 0, open |-> {}, seen |-> {}, found |-> {},
            nbrs |-> <<>>, known |-> {}, written |-> NoFile]
Threads == DOMAIN threads
Idle(ops) == Nowhere @@ [pc |-> "idle", ops |-> ops]

Init ==
    /\ setup \in Setups
    /\ nodes = <<>> /\ id_to_idx = <<>> /\ entry = NoEntry
    /\ threads = [t \in DOMAIN setup.ops |-> Idle(setup.ops[t])]
    /\ raw = <<>> /\ file = NoFile /\ answers = {} /\ left = setup.restarts
    /\ odd = [pruned |-> FALSE, swapped |-> FALSE, torn |-> FALSE, deleted |-> {}]

------------------------------------------------------------------------------
(***************************************************************************)
(* Neighbor lists and distances.                                           *)
(***************************************************************************)
num_layers(n) == Len(n.links)
\* Layer l of a node; nothing for a layer it does not reach.
copy_neighbors(i, l) == IF l < num_layers(nodes[i]) THEN nodes[i].links[l + 1] ELSE <<>>
distance(q, i) == Abs(q - nodes[i].at)
\* Mutant: layer 0 has the limit of the other layers.
max_neighborsUpper(l) == setup.m
max_neighbors(l) == IF l = 0 THEN setup.m_max0 ELSE setup.m
\* The heaps order by distance and then by node.
Nearer(q, i, j) == distance(q, i) < distance(q, j) \/ (distance(q, i) = distance(q, j) /\ i < j)
Nearest(q, A) == CHOOSE i \in A : \A j \in A \ {i} : Nearer(q, i, j)
Farthest(q, A) == CHOOSE i \in A : \A j \in A \ {i} : Nearer(q, j, i)
Sorted(q, A) == S!SetToSortSeq(A, LAMBDA i, j : Nearer(q, i, j))

\* The nodes that are ready among those listed.
Ready(list) == SelectSeq(list, LAMBDA i : nodes[i].ready)

RECURSIVE Closest(_, _, _)
Closest(q, current, list) ==
    IF list = <<>> THEN current
    ELSE Closest(q, IF distance(q, Head(list)) < distance(q, current) THEN Head(list) ELSE current, Tail(list))

\* One more candidate: [open, seen, found] after the neighbors in the list.
RECURSIVE Scored(_, _, _, _)
Scored(q, ef, s, list) ==
    LET i == Head(list)
        worst == distance(q, Farthest(q, s.found))
        kept == distance(q, i) < worst \/ Cardinality(s.found) < ef
        found == s.found \cup {i}
        next == [s EXCEPT !.seen = @ \cup {i},
                          !.open = IF kept THEN @ \cup {i} ELSE @,
                          !.found = IF ~kept THEN @
                                    ELSE IF Cardinality(found) > ef THEN found \ {Farthest(q, found)} ELSE found]
    IN  CASE list = <<>> -> s
          [] list /= <<>> /\ i \in s.seen -> Scored(q, ef, s, Tail(list))
          [] list /= <<>> /\ i \notin s.seen /\ ~nodes[i].ready -> Scored(q, ef, [s EXCEPT !.seen = @ \cup {i}], Tail(list))
          [] OTHER -> Scored(q, ef, next, Tail(list))

------------------------------------------------------------------------------
(***************************************************************************)
(* The threads.  An operation is [op |-> "insert", id, at], "search" with   *)
(* at, k and ef, "delete" with id, or "save".                               *)
(***************************************************************************)
op(t) == Head(threads[t].ops)
Inserting(t) == op(t).op = "insert"
Done(t) == [threads EXCEPT ![t] = Idle(Tail(@.ops))]
Begins(t, which) == threads[t].pc = "idle" /\ threads[t].ops /= <<>> /\ op(t).op = which
Begun(t) == threads[t].pc /= "idle"

\* A search of one layer starts at a node.
Entering(th, layer, ep) ==
    [th EXCEPT !.pc = "search", !.layer = layer, !.ep = ep, !.open = {ep}, !.seen = {ep}, !.found = {ep}]
\* Down to the layer where the search begins, or the search itself.
Descending(th, from, to, ep) ==
    IF from > to THEN [th EXCEPT !.pc = "descend", !.layer = from, !.ep = ep] ELSE Entering(th, to, ep)
TargetLayer(t) == IF Inserting(t) THEN threads[t].level ELSE 0

random_level == setup.levels
Push(t) ==
    /\ Begins(t, "insert")
    /\ \E level \in random_level :
           /\ nodes' = Append(nodes, [id |-> op(t).id, at |-> op(t).at, links |-> [l \in 1 .. level + 1 |-> <<>>],
                                      deleted |-> FALSE, ready |-> FALSE])
           /\ threads' = [threads EXCEPT ![t].pc = "claim", ![t].node = Len(nodes) + 1, ![t].level = level]
    /\ UNCHANGED <<setup, id_to_idx, entry, raw, file, answers, left, odd>>

Tombstoned(prev) == [i \in DOMAIN nodes |-> IF i = prev THEN [nodes[i] EXCEPT !.deleted = TRUE] ELSE nodes[i]]
Claim(t) ==
    LET prev == IF op(t).id \in DOMAIN id_to_idx THEN id_to_idx[op(t).id] ELSE 0
    IN  /\ threads[t].pc = "claim"
        /\ id_to_idx' = (op(t).id :> threads[t].node) @@ id_to_idx
        /\ nodes' = Tombstoned(prev)
        /\ threads' = [threads EXCEPT ![t].pc = "entry"]
        /\ UNCHANGED <<setup, entry, raw, file, answers, left, odd>>

\* The first node becomes the entry point; it has no edges.
EmptyInit(t) ==
    /\ threads[t].pc = "entry" /\ entry = NoEntry
    /\ entry' = [node |-> threads[t].node, max_layer |-> threads[t].level]
    /\ nodes' = [nodes EXCEPT ![threads[t].node].ready = TRUE]
    /\ threads' = [threads EXCEPT ![t].pc = "commit"]
    /\ UNCHANGED <<setup, id_to_idx, raw, file, answers, left, odd>>
ReadEntry(t) ==
    /\ threads[t].pc = "entry" /\ entry /= NoEntry
    /\ threads' = [threads EXCEPT ![t] =
           Descending([@ EXCEPT !.top = entry.max_layer], entry.max_layer, @.level, entry.node)]
    /\ UNCHANGED <<setup, nodes, id_to_idx, entry, raw, file, answers, left, odd>>

\* One round of the greedy descent.
greedy_closest(t) ==
    LET th == threads[t]
        closest == Closest(op(t).at, th.ep, Ready(copy_neighbors(th.ep, th.layer)))
    IN  /\ th.pc = "descend"
        /\ threads' = [threads EXCEPT ![t] = IF closest /= th.ep THEN [th EXCEPT !.ep = closest]
                                             ELSE Descending(th, th.layer - 1, TargetLayer(t), closest)]
        /\ UNCHANGED <<setup, nodes, id_to_idx, entry, raw, file, answers, left, odd>>

Width(t) == IF Inserting(t) THEN setup.ef_construction ELSE Max({op(t).ef, op(t).k})
Exhausted(t) ==
    LET th == threads[t]
        c == Nearest(op(t).at, th.open)
    IN  th.open /= {} =>
            distance(op(t).at, c) > distance(op(t).at, Farthest(op(t).at, th.found)) /\ Cardinality(th.found) >= Width(t)
\* One candidate of a layer.
search_layer(t) ==
    LET th == threads[t]
        c == Nearest(op(t).at, th.open)
    IN  /\ th.pc = "search" /\ ~Exhausted(t)
        /\ threads' = [threads EXCEPT ![t] = Scored(op(t).at, Width(t), [th EXCEPT !.open = @ \ {c}], copy_neighbors(c, th.layer))]
        /\ UNCHANGED <<setup, nodes, id_to_idx, entry, raw, file, answers, left, odd>>

\* A layer is searched: the closest candidates become the node's own edges.
\* The node itself is not among them, since it is not ready.
LinkOwn(t) ==
    LET th == threads[t]
        candidates == Sorted(op(t).at, th.found)
        nbrs == SubSeq(candidates, 1, Min({max_neighbors(th.layer), Len(candidates)}))
    IN  /\ th.pc = "search" /\ Inserting(t) /\ Exhausted(t)
        /\ nodes' = [nodes EXCEPT ![th.node].links[th.layer + 1] = nbrs]
        /\ threads' = [threads EXCEPT ![t].pc = "back", ![t].nbrs = nbrs, ![t].ep = Head(candidates)]
        /\ UNCHANGED <<setup, id_to_idx, entry, raw, file, answers, left, odd>>

\* The closest max_neighbors of a full list and the new node.
Pruned(nbr, list, l) ==
    LET scored == Sorted(nodes[nbr].at, S!ToSet(list)) IN SubSeq(scored, 1, Min({max_neighbors(l), Len(scored)}))
\* The edge back from one neighbor, under that neighbor's lock.
BackEdge(t) ==
    LET th == threads[t]
        nbr == Head(th.nbrs)
        list == Append(copy_neighbors(nbr, th.layer), th.node)
        takes == th.layer < num_layers(nodes[nbr]) /\ th.node \notin S!ToSet(copy_neighbors(nbr, th.layer))
        full == Len(list) > max_neighbors(th.layer)
    IN  /\ th.pc = "back" /\ th.nbrs /= <<>>
        /\ nodes' = IF takes
                    THEN [nodes EXCEPT ![nbr].links[th.layer + 1] = IF full THEN Pruned(nbr, list, th.layer) ELSE list]
                    ELSE nodes
        /\ odd' = [odd EXCEPT !.pruned = @ \/ (takes /\ th.layer = 0 /\ Len(list) > setup.m_max0)]
        /\ threads' = [threads EXCEPT ![t].nbrs = Tail(@)]
        /\ UNCHANGED <<setup, id_to_idx, entry, raw, file, answers, left>>
LayerDown(t) ==
    /\ threads[t].pc = "back" /\ threads[t].nbrs = <<>> /\ threads[t].layer > 0
    /\ threads' = [threads EXCEPT ![t] = Entering(@, @.layer - 1, @.ep)]
    /\ UNCHANGED <<setup, nodes, id_to_idx, entry, raw, file, answers, left, odd>>

\* Linked at all its layers, the node may be routed through.
Publish(t) ==
    LET th == threads[t]
    IN  /\ th.pc = "back" /\ th.nbrs = <<>> /\ th.layer = 0
        /\ nodes' = [nodes EXCEPT ![th.node].ready = TRUE]
        /\ threads' = [threads EXCEPT ![t].pc = IF th.level > th.top THEN "raise" ELSE "commit"]
        /\ UNCHANGED <<setup, id_to_idx, entry, raw, file, answers, left, odd>>
RaiseEntry(t) ==
    /\ threads[t].pc = "raise"
    /\ entry' = IF threads[t].level <= entry.max_layer THEN entry
                ELSE [node |-> threads[t].node, max_layer |-> threads[t].level]
    /\ threads' = [threads EXCEPT ![t].pc = "commit"]
    /\ UNCHANGED <<setup, nodes, id_to_idx, raw, file, answers, left, odd>>
\* The batch is indexed, and then its vectors are stored.
ingest_vectors(t) ==
    /\ threads[t].pc = "commit"
    /\ raw' = (op(t).id :> op(t).at) @@ raw
    /\ threads' = Done(t)
    /\ UNCHANGED <<setup, nodes, id_to_idx, entry, file, answers, left, odd>>

------------------------------------------------------------------------------
Live(i) == nodes[i].ready /\ ~nodes[i].deleted
\* Nobody else is in an operation.
Quiet(t) == \A u \in Threads \ {t} : ~Begun(u)
Answer(t, known, result) ==
    [at |-> op(t).at, k |-> op(t).k, wide |-> op(t).ef >= Len(nodes), known |-> known, result |-> result,
     stored |-> IF Quiet(t) /\ threads[t].node = Len(nodes) THEN DOMAIN raw \ odd.deleted ELSE {}, odd |-> odd]

SearchEmpty(t) ==
    /\ Begins(t, "search") /\ entry = NoEntry
    /\ answers' = answers \cup {Answer(t, {}, <<>>)}
    /\ threads' = Done(t)
    /\ UNCHANGED <<setup, nodes, id_to_idx, entry, raw, file, left, odd>>
Search(t) ==
    /\ Begins(t, "search") /\ entry /= NoEntry
    /\ threads' = [threads EXCEPT ![t] =
           Descending([@ EXCEPT !.known = {i \in DOMAIN nodes : Live(i)}, !.node = IF Quiet(t) THEN Len(nodes) ELSE 0], entry.max_layer, 0, entry.node)]
    /\ UNCHANGED <<setup, nodes, id_to_idx, entry, raw, file, answers, left, odd>>
Collect(t) ==
    LET th == threads[t]
        live == SelectSeq(Sorted(op(t).at, th.found), LAMBDA i : ~nodes[i].deleted)
        taken == SubSeq(live, 1, Min({op(t).k, Len(live)}))
    IN  /\ th.pc = "search" /\ ~Inserting(t) /\ Exhausted(t)
        /\ answers' = answers \cup {Answer(t, {[id |-> nodes[i].id, at |-> nodes[i].at] : i \in {j \in th.known : Live(j)}},
                                           [i \in DOMAIN taken |-> [id |-> nodes[taken[i]].id, at |-> nodes[taken[i]].at]])}
        /\ threads' = Done(t)
        /\ UNCHANGED <<setup, nodes, id_to_idx, entry, raw, file, left, odd>>

\* The node of an id is looked up, and then marked.
Lookup(t) ==
    /\ Begins(t, "delete")
    /\ threads' = IF op(t).id \in DOMAIN id_to_idx
                  THEN [threads EXCEPT ![t].pc = "mark", ![t].node = id_to_idx[op(t).id]]
                  ELSE Done(t)
    /\ UNCHANGED <<setup, nodes, id_to_idx, entry, raw, file, answers, left, odd>>
delete(t) ==
    /\ threads[t].pc = "mark"
    /\ nodes' = Tombstoned(threads[t].node)
    /\ odd' = [odd EXCEPT !.deleted = @ \cup {op(t).id}]
    /\ threads' = Done(t)
    /\ UNCHANGED <<setup, id_to_idx, entry, raw, file, answers, left>>

------------------------------------------------------------------------------
(***************************************************************************)
(* Snapshots.  The worker writes one while others insert: the entry point,  *)
(* the number of nodes, and then node after node under its lock.            *)
(***************************************************************************)
save_single_snapshot(t) ==
    /\ Begins(t, "save")
    /\ threads' = IF nodes = <<>> THEN Done(t) ELSE [threads EXCEPT ![t].pc = "count", ![t].written = [NoFile EXCEPT !.entry = entry]]
    /\ UNCHANGED <<setup, nodes, id_to_idx, entry, raw, file, answers, left, odd>>
SaveCount(t) ==
    /\ threads[t].pc = "count"
    /\ threads' = [threads EXCEPT ![t].pc = "save", ![t].written.count = Len(nodes),
                                     ![t].written.linked = \A i \in DOMAIN nodes : nodes[i].ready]
    /\ UNCHANGED <<setup, nodes, id_to_idx, entry, raw, file, answers, left, odd>>
SaveNode(t) ==
    LET i == Len(threads[t].written.nodes) + 1
    IN  /\ threads[t].pc = "save" /\ i <= Len(nodes)
        /\ threads' = [threads EXCEPT ![t].written.nodes = Append(@, nodes[i])]
        /\ UNCHANGED <<setup, nodes, id_to_idx, entry, raw, file, answers, left, odd>>
save(t) ==
    /\ threads[t].pc = "save" /\ Len(threads[t].written.nodes) >= Len(nodes)
    /\ file' = [threads[t].written EXCEPT !.nodes = SubSeq(@, 1, threads[t].written.count)]
    /\ threads' = Done(t)
    /\ UNCHANGED <<setup, nodes, id_to_idx, entry, raw, answers, left, odd>>

\* A snapshot whose entry point or edges lead out of it is refused.
Loads(f) ==
    /\ f.nodes /= <<>> /\ f.entry.node <= f.count
    /\ \A i \in DOMAIN f.nodes : \A l \in DOMAIN f.nodes[i].links : \A j \in S!ToSet(f.nodes[i].links[l]) : j <= f.count
Loaded == IF Loads(file) THEN file ELSE NoFile
\* Every node of a snapshot counts as linked, and the last one of an id has it.
LoadedNodes == [i \in DOMAIN Loaded.nodes |-> [Loaded.nodes[i] EXCEPT !.ready = TRUE]]
LastOf(id) == Max({i \in DOMAIN Loaded.nodes : Loaded.nodes[i].id = id})
LoadedIds == [id \in {n.id : n \in S!ToSet(Loaded.nodes)} |-> LastOf(id)]
\* The stored vectors of the ids that the snapshot lacks.
insert_delta_vectors ==
    LET missing == S!SetToSeq(DOMAIN raw \ DOMAIN LoadedIds)
    IN  [i \in DOMAIN missing |-> [op |-> "insert", id |-> missing[i], at |-> raw[missing[i]]]]

\* A snapshot is torn if a node that it holds was not linked yet when they were
\* counted, or if one gave its id to a node after those it holds.
Torn ==
    \/ ~Loaded.linked
    \/ \E i \in DOMAIN Loaded.nodes :
           /\ Loaded.nodes[i].deleted
           /\ \A j \in DOMAIN Loaded.nodes : Loaded.nodes[j].id = Loaded.nodes[i].id => Loaded.nodes[j].deleted
\* The claims of an id came in another order than the nodes.
Swapped == \E id \in DOMAIN LoadedIds : Loaded.nodes[LastOf(id)].deleted

\* The process stops at any time, and the next one loads the snapshot.
Restart ==
    /\ left > 0 /\ left' = left - 1
    /\ nodes' = LoadedNodes /\ id_to_idx' = LoadedIds /\ entry' = Loaded.entry
    /\ threads' = [t \in {1} |-> Idle(insert_delta_vectors \o setup.after)]
    /\ odd' = [odd EXCEPT !.torn = Torn, !.swapped = Swapped]
    /\ UNCHANGED <<setup, raw, file, answers>>

Step(t) ==
    \/ Push(t) \/ Claim(t) \/ EmptyInit(t) \/ ReadEntry(t) \/ greedy_closest(t) \/ search_layer(t) \/ LinkOwn(t)
    \/ BackEdge(t) \/ LayerDown(t) \/ Publish(t) \/ RaiseEntry(t) \/ ingest_vectors(t)
    \/ SearchEmpty(t) \/ Search(t) \/ Collect(t) \/ Lookup(t) \/ delete(t)
    \/ save_single_snapshot(t) \/ SaveCount(t) \/ SaveNode(t) \/ save(t)
Next == (\E t \in Threads : Step(t)) \/ Restart
Spec == Init /\ [][Next]_vars

------------------------------------------------------------------------------
(***************************************************************************)
(* Properties.                                                             *)
(***************************************************************************)
Ids(seq) == {e.id : e \in S!ToSet(seq)}

\* A search returns at most k ids, nearest first, each once, and (where no list
\* of layer 0 was pruned and the search is as wide as the index) every id that
\* was in the index from its start to its end, unless k others are nearer,
\* whatever the other threads insert, update and delete meanwhile (insert,
\* search, delete).
SearchExact ==
    \A a \in answers :
        /\ Len(a.result) <= a.k
        /\ \A i, j \in DOMAIN a.result : i < j => Abs(a.result[i].at - a.at) <= Abs(a.result[j].at - a.at)
        /\ (~a.odd.swapped /\ ~a.odd.torn) => Cardinality(Ids(a.result)) = Len(a.result)
        /\ (a.wide /\ ~a.odd.pruned /\ ~a.odd.torn) =>
               \A e \in a.known :
                   \/ e \in S!ToSet(a.result)
                   \/ Len(a.result) = a.k /\ \A i \in DOMAIN a.result : Abs(a.result[i].at - a.at) <= Abs(e.at - a.at)

\* With nobody inserting, every object whose vector is stored is found, before
\* and after a restart (load, insert_delta_vectors), unless the snapshot was
\* written in the middle of an insert.
StoredFound ==
    \A a \in answers :
        (a.wide /\ ~a.odd.pruned /\ ~a.odd.torn /\ Len(a.result) < a.k) => a.stored \subseteq Ids(a.result)

\* No search returns an id twice (the comment on insert).
NeverTwice == \A a \in answers : Cardinality(Ids(a.result)) = Len(a.result)

\* With nobody inserting, every object whose vector is stored is found.
ReopenedWhole == \A a \in answers : (a.wide /\ ~a.odd.pruned /\ Len(a.result) < a.k) => a.stored \subseteq Ids(a.result)

------------------------------------------------------------------------------
(***************************************************************************)
(* Search by text (vectorizer.rs, search_text): candidates from the index   *)
(* or, for few enough ids, from the stored vectors; a rescore against the   *)
(* stored vectors; and a cross-encoder that orders what has a text.         *)
(*                                                                          *)
(* A field's data is a record db: what the index estimates (index, ids      *)
(* nearest first), the stored vectors (exact, id -> distance from the       *)
(* query), the ids whose text can be read (texts), how relevant a text is   *)
(* to the query (relevance), and what fails: reads (storage), model (the    *)
(* embedder), loads and ranks (the cross-encoder).                          *)
(***************************************************************************)
HitIds(hits) == [i \in DOMAIN hits |-> hits[i].id]
Take(seq, n) == SubSeq(seq, 1, Min({n, Len(seq)}))
by_distance(c) == [id |-> c.id, distance |-> c.distance, score |-> Off]

\* What the index returns, with its estimates.
index_search(db, n) == Take([i \in DOMAIN db.index |-> [id |-> db.index[i], distance |-> i]], n)

\* Exact distances, by distance and then id; nothing is dropped.
exact_rescore(db, ids) ==
    LET away(id) == IF id \in DOMAIN db.exact THEN db.exact[id] ELSE Infinity
        before(a, b) == a.distance < b.distance \/ (a.distance = b.distance /\ a.id < b.id)
    IN  S!SetToSortSeq({[id |-> id, distance |-> away(id)] : id \in ids}, before)

brute_force_restricted(db, restrict) ==
    LET ids == S!SetToSortSeq(restrict, <)
    IN  IF db.reads THEN exact_rescore(db, restrict) ELSE [i \in DOMAIN ids |-> [id |-> ids[i], distance |-> Infinity]]

rerank_candidates(db, candidates) ==
    IF db.reads THEN exact_rescore(db, S!ToSet(HitIds(candidates))) ELSE candidates

\* How many candidates to get: a capped pool for the cross-encoder.
retrieval_k(cfg, k) ==
    IF cfg.cross_encoder = Off THEN k
    ELSE Max({k, IF cfg.rerank_candidates = Off THEN Min({3 * k, 48}) ELSE cfg.rerank_candidates})

\* get_or_load_reranker and rerank: the k most relevant of the texts.
reranked(db, texts, k) ==
    Take(S!SetToSortSeq(S!ToSet(texts), LAMBDA a, b : db.relevance[a] > db.relevance[b]), k)

\* The candidates that the cross-encoder did not see follow, up to k.
filled(candidates, ranked, k) ==
    LET others == SelectSeq(candidates, LAMBDA c : c.id \notin S!ToSet(HitIds(ranked)))
    IN  ranked \o Take([i \in DOMAIN others |-> by_distance(others[i])], k - Len(ranked))

search_text(db, cfg, k, rescore, restrict) ==
    LET brute == restrict /= Off /\ Cardinality(restrict) <= EXACT_FILTER_MAX
        pool == retrieval_k(cfg, k)
        found == IF brute THEN Take(brute_force_restricted(db, restrict), pool) ELSE index_search(db, pool)
        candidates == IF rescore /\ ~brute THEN rerank_candidates(db, found) ELSE found
        texts == IF db.reads THEN SelectSeq(HitIds(candidates), LAMBDA id : id \in db.texts) ELSE <<>>
        ranking == cfg.cross_encoder /= Off /\ texts /= <<>> /\ db.loads /\ db.ranks
        top == reranked(db, texts, k)
        distance_by_id(id) == candidates[CHOOSE i \in DOMAIN candidates : candidates[i].id = id].distance
        ranked == [i \in DOMAIN top |-> [id |-> top[i], distance |-> distance_by_id(top[i]), score |-> db.relevance[top[i]]]]
        nearest == Take(candidates, k)
    IN  IF ~db.model THEN Off
        ELSE IF ranking THEN filled(candidates, ranked, k)
        ELSE [i \in DOMAIN nearest |-> by_distance(nearest[i])]

-----------------------------------------------------------------------------
\* The ids among which a search by text chooses, and the candidates it gets.
Pool(db, cfg, k, restrict) ==
    LET n == retrieval_k(cfg, k)
        exact(id) == IF id \in DOMAIN db.exact THEN db.exact[id] ELSE Infinity
        rank(id) == Cardinality({o \in restrict : exact(o) < exact(id) \/ (exact(o) = exact(id) /\ o < id)})
        first(id) == Cardinality({o \in restrict : o < id})
    IN  IF restrict = Off \/ Cardinality(restrict) > EXACT_FILTER_MAX THEN S!ToSet(Take(db.index, n))
        ELSE {id \in restrict : IF db.reads THEN rank(id) < n ELSE first(id) < n}

\* A search by text returns as many hits as it can and each id once.  Its
\* distances are those of the stored vectors where it ranks them or rescores;
\* without a cross-encoder that ranks they ascend there.  With one, the most
\* relevant texts of the pool come first, by relevance, and only the others lack
\* a score.
SimilarExact(db, cfg, k, rescore, restrict) ==
    LET hits == search_text(db, cfg, k, rescore, restrict)
        pool == Pool(db, cfg, k, restrict)
        ids == S!ToSet(HitIds(hits))
        small == restrict /= Off /\ Cardinality(restrict) <= EXACT_FILTER_MAX
        readable == IF cfg.cross_encoder /= Off /\ db.reads /\ db.loads /\ db.ranks THEN pool \cap db.texts ELSE {}
        scored == {h.id : h \in {g \in S!ToSet(hits) : g.score /= Off}}
    IN  db.model =>
        /\ ids \subseteq pool /\ Cardinality(ids) = Len(hits) /\ Len(hits) = Min({k, Cardinality(pool)})
        /\ (small \/ rescore) /\ db.reads =>
               \A i \in DOMAIN hits : hits[i].distance = IF hits[i].id \in DOMAIN db.exact THEN db.exact[hits[i].id] ELSE Infinity
        /\ \A i, j \in DOMAIN hits : i < j /\ hits[i].score = Off =>
               hits[j].score = Off /\ ((small \/ rescore) => hits[i].distance <= hits[j].distance)
        /\ scored \subseteq readable /\ Cardinality(scored) = Min({k, Cardinality(readable)})
        /\ \A i \in DOMAIN hits : hits[i].score /= Off =>
               \A o \in readable : db.relevance[o] > db.relevance[hits[i].id] => \E j \in 1 .. i - 1 : hits[j].id = o
==============================================================================
