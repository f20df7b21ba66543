------------------------------ MODULE MCQueries ------------------------------
(* Model checking query evaluation, its pure parts over bounded inputs:    *)
(* filter plans (FilterPlan), pipelines with their rules                   *)
(* and budgets (QueryExec), full-text search (FulltextSearch), vector      *)
(* search by text (Hnsw) and logical export and import (Logical).          *)
(* A behaviour picks one input step by step; the invariants compare the    *)
(* code's answer with its reference.  In the other behaviours threads      *)
(* insert into, search, save and reload the vector index (Hnsw).           *)
EXTENDS FilterPlan

CONSTANTS
    Relation, Forward, NoCover, NoBytes, NoRules, Words, ExactFilterMax, MaxPool,
    StopWord, Stem, MaxWords, MaxTerm, MinPrefix, MaxQueryTerms, MaxPhrase, MaxExpansion,
        MaxExpansionScan, ScanChunk,
    Types, Target, Vectorized, IMPORT_CHUNK, Null,
    EXACT_FILTER_MAX, Infinity, Off

VARIABLES
    case,                                   \* the input
    v1, v2, v3, v4, v5, v6, v7, v8, v9, v10 \* the vector index, in its behaviours

indexState == <<v1, v2, v3, v4, v5, v6, v7, v8, v9, v10>>

Exec == INSTANCE QueryExec
Search == INSTANCE FulltextSearch
Dump == INSTANCE Logical

-----------------------------------------------------------------------------
(* Filter plans: two layers of up to three rows of two fields.             *)

MCRfc3339 == 5 :> 1
MCContained == {<<1, 7>>}

Field(ty, indexed, unique) == [ty |-> ty, indexed |-> indexed, unique |-> unique]

Absent == Value("Null", 0)

Values(ty) == {Absent} \cup
    CASE ty = "F64" -> {Value("F64", 0), NegZero("F64"), Value("F64", 1)}
      [] ty = "String" -> {Value("String", 1), Value("String", 5)}
      [] ty = "DateTime" -> {Value("DateTime", 1), Value("DateTime", 2)}
      [] ty = "Bool" -> {Value("Bool", 0), Value("Bool", 1)}
      [] OTHER -> {Value("U32", 0), Value("U32", 2)}

RowSchemas ==
    {<<Field("U32", TRUE, FALSE), Field("String", TRUE, FALSE)>>,
     <<Field("U32", FALSE, TRUE), Field("Bool", TRUE, FALSE)>>,
     <<Field("F64", TRUE, FALSE), Field("U32", TRUE, TRUE)>>,
     <<Field("DateTime", TRUE, FALSE), Field("String", FALSE, TRUE)>>,
     <<Field("F64", FALSE, FALSE), Field("Bool", TRUE, FALSE)>>}

\* A row may lack the second field: it is older than it.
Row(s) == {<<a, b>> : a \in Values(s[1].ty), b \in Values(s[2].ty)}
            \cup {<<a>> : a \in Values(s[1].ty)}

Newer(row) ==
    {<<>>, 1 :> Dead, 2 :> [row EXCEPT ![1] = Absent], (3 :> row) @@ (1 :> Dead)}

Stores(s) ==
    UNION {{[schema |-> s, legacy |-> x[1] = Absent, layers |-> <<(1 :> x) @@ (2 :> y), new>>] :
                new \in Newer(x), y \in Row(s)} :
           x \in {<<v, CHOOSE u \in Values(s[2].ty) : u /= Absent>> : v \in Values(s[1].ty)}}

KeepsUnique(d) ==
    \A i \in DOMAIN d.layers : \A o, q \in Ids(d) :
        o /= q /\ Dead \notin {AsOf(d, i, o), AsOf(d, i, q)} =>
            \A f \in DOMAIN AsOf(d, i, o) \cap DOMAIN AsOf(d, i, q) :
                d.schema[f].unique /\ AsOf(d, i, o)[f] /= Absent => AsOf(d, i, o)[f] /= AsOf(d, i, q)[f]

Literals ==
    {Value("Int", -1), Value("Int", 0), Value("Int", 2), Value("Float", 0), NegZero("Float"),
     Value("Float", 1), Value("String", 1), Value("String", 5), Value("Bool", 1), Absent}

Comparisons == {Compare(f, op, l) : f \in 1 .. 2, op \in {"==", "!=", "<", "<=", ">", ">="}, l \in Literals}

\* Conjunctions and disjunctions of the leaves that suit the fields.
Pairs(db) ==
    LET suits(p) == /\ (p.lit.k = "Float") = (db.schema[p.f].ty = "F64")
                    /\ (p.lit.k = "Bool") = (db.schema[p.f].ty = "Bool")
        some == {Compare(f, op, l) : f \in 1 .. 2, op \in {"==", ">="},
                                     l \in {Value("Int", 2), Value("Float", 0), Value("String", 5), Value("Bool", 1)}}
        S == {p \in some : suits(p)} \cup {HasText(2, 7)}
    IN  UNION {{And(p, q), Or(p, q), And(p, Or(q, p))} : p \in S, q \in S}

-----------------------------------------------------------------------------
(* Pipelines: a user, two ratings, two movies and two directors.           *)

One(t) == [target |-> t, many |-> FALSE, via |-> Forward]
Many(t, via) == [target |-> t, many |-> TRUE, via |-> via]

MCRelation ==
    (<<"R", "user">> :> One("U")) @@ (<<"U", "ratings">> :> Many("R", <<"R", "user">>))
    @@ (<<"R", "movie">> :> One("M")) @@ (<<"M", "ratings">> :> Many("R", <<"R", "movie">>))
    @@ (<<"M", "director">> :> One("D")) @@ (<<"D", "movies">> :> Many("M", <<"M", "director">>))

TypeOf == <<"U", "R", "R", "M", "M", "D", "D">>

EdgesOf(movie, director) ==
    {<<2, <<"R", "user">>, 1>>, <<3, <<"R", "user">>, 1>>, <<2, <<"R", "movie">>, 4>>,
     <<3, <<"R", "movie">>, movie>>, <<4, <<"M", "director">>, 6>>, <<5, <<"M", "director">>, director>>}

GraphOf(ones, edges) ==
    LET bare == [objs |-> [o \in 1 .. 7 |-> [type |-> TypeOf[o], val |-> IF o \in ones THEN 1 ELSE 0, gen |-> 1]],
                 edges |-> edges, rev |-> <<>>, matches |-> <<5, 4>>, nearest |-> <<4, 5>>, index |-> <<5, 4>>]
    IN  [bare EXCEPT !.rev = [e \in edges |-> Exec!build_covering_rev_value(bare, e[1], e[2][2], e[3])]]

Valued(ones) == {GraphOf(ones, EdgesOf(pair[1], pair[2])) : pair \in {<<5, 7>>, <<4, 6>>}}
Mixed == Valued({2, 4})
Fresh == Valued({}) \cup Mixed

\* After an update the covers of an object's reverse edges are older than it.
Graphs == Fresh \cup {Exec!Updated(d, o, 0) : d \in Mixed, o \in {2, 4}}

Steps ==
    {[is |-> "traverse", f |-> f] : f \in {"ratings", "movie", "director", "user", "movies"}} \cup
    {[is |-> "filter", vals |-> {0}], [is |-> "limit", n |-> 1], [is |-> "offset", n |-> 1],
     [is |-> "matches", k |-> 1], [is |-> "similar", k |-> 1, rerank |-> 0],
     [is |-> "update", val |-> 1], [is |-> "delete"],
     [is |-> "link", target |-> "R", id |-> 2], [is |-> "link", target |-> "M", id |-> 4],
     [is |-> "unlink", target |-> "D", id |-> 6]}

Fits(t, step) ==
    /\ step.is = "traverse" => <<t, step.f>> \in DOMAIN Relation
    /\ step.is \in {"matches", "similar"} => t = "M"

After(t, step) == IF step.is = "traverse" THEN Relation[<<t, step.f>>].target ELSE t

RECURSIVE StepSeqs(_, _)
StepSeqs(t, n) ==
    {<<>>} \cup IF n = 0 THEN {} ELSE
        UNION {{<<step>> \o rest : rest \in StepSeqs(After(t, step), n - 1)} : step \in {s \in Steps : Fits(t, s)}}

Sources ==
    {[is |-> "all", type |-> t] : t \in {"U", "M", "D"}}
    \cup {[is |-> "filter", type |-> "R", vals |-> {0}, indexed |-> b] : b \in BOOLEAN}
    \cup {[is |-> "get", type |-> "U", id |-> 1], [is |-> "create", type |-> "M", val |-> 1],
          [is |-> "batch", type |-> "M", vals |-> <<0, 1>>]}

\* A delete or a link leaves no rows for a further step.
WritesLast(steps) == \A i \in DOMAIN steps : steps[i].is \in {"delete", "link", "unlink"} => i = Len(steps)

Queries ==
    UNION {{[source |-> from, steps |-> steps] : steps \in {s \in StepSeqs(from.type, 3) : WritesLast(s)}} :
           from \in Sources}

Rule(hidden, write, create, cost) ==
    [read |-> (1 .. 8) \ hidden, write |-> write, create |-> create, cost |-> cost]

ReadRules == {Rule(hidden, 1 .. 8, TRUE, 1) : hidden \in {{2}, {4}, {6}}}
WriteRule == Rule({}, {1, 2, 4}, FALSE, 0)

Budgets ==
    {[Exec!Free EXCEPT !.rows = n] : n \in {2, 4, 7}}
    \cup {[Exec!Free EXCEPT !.time = n] : n \in {3, 6, 9}}
    \cup {[Exec!Free EXCEPT !.result = 1], [Exec!Free EXCEPT !.depth = 1],
          [Exec!Free EXCEPT !.limit = 1, !.rows = 5]}

-----------------------------------------------------------------------------
(* Full-text search: two documents, one text longer than MaxWords, queries *)
(* of one or two items.                                                    *)

Cat == <<"c", "a", "t">>
Cats == <<"c", "a", "t", "s">>
Car == <<"c", "a", "r">>
Ca == <<"c", "a">>
C == <<"c">>
To == <<"t", "o">>
Long == <<"l", "o", "o", "n", "g">>

MCStopWord == {To}
MCStem == [w \in {Cat, Cats, Car, Ca, C, To, Long} |-> IF w = Cats THEN Cat ELSE w]

Texts == {<<>>, <<Cats, To, Car>>, <<Car, Cats>>, <<To, Cat, C, Cat, Car>>, <<Car, Long, Cat>>}

Item(words, plus, quote, star) == [words |-> words, plus |-> plus, quote |-> quote, star |-> star]

Items ==
    {Item(w, plus, "none", star) : w \in {<<Cat>>, <<To>>, <<Ca>>, <<C>>, <<Car, Cats>>, <<Long>>},
                                   plus \in BOOLEAN, star \in BOOLEAN}
    \cup {Item(w, plus, "closed", FALSE) : w \in {<<Cat, Car>>, <<Cat, To, Car>>, <<To, Cat, To>>, <<Cat, Cat>>},
                                           plus \in BOOLEAN}
    \cup {Item(<<Cat>>, FALSE, "open", FALSE), Item(<<Cat, C>>, FALSE, "closed", TRUE),
          Item(<<Cat, Car, Cat, Car>>, FALSE, "closed", FALSE)}

\* The second item of a query.
Others == {Item(<<Cat>>, plus, "none", FALSE) : plus \in BOOLEAN}
            \cup {Item(<<Ca>>, FALSE, "none", TRUE), Item(<<To>>, TRUE, "none", FALSE), Item(<<Car, Cats>>, TRUE, "closed", FALSE)}

NoLimits == [max_postings |-> Search!Unlimited, defer |-> FALSE]

-----------------------------------------------------------------------------
(* Logical export: two objects of one type and one of another.             *)

MCTarget == <<1, 2>>
MCVectorized == {<<1, 1>>}
KindOf == <<1, 1, 2>>

Objs == {[type |-> KindOf[i], id |-> i, v |-> v] : i \in 1 .. 3, v \in {Null, 7, 8}}

ObjSets == {S \in SUBSET Objs :
    \A a, b \in S : a /= b => a.id /= b.id /\ (a.type = b.type /\ a.v /= Null => a.v /= b.v)}

Links == {e \in [type : {1}, src : {1, 2}, field : {1, 2}, dst : {2, 3}] : KindOf[e.dst] = MCTarget[e.field]}
Vecs == [type : {1}, id : {1, 2}, field : {1, 2}, v : {9}]
Dumped == [objects : ObjSets, edges : SUBSET Links, vectors : {{}, Vecs}]

\* Databases that an online import meets.
Lives ==
    {[objects |-> {[type |-> 1, id |-> 1, v |-> 8]}, edges |-> {},
      vectors |-> {[type |-> 1, id |-> 1, field |-> 1, v |-> 3]}],
     [objects |-> {[type |-> 2, id |-> 3, v |-> Null]}, edges |-> {}, vectors |-> {}]}

-----------------------------------------------------------------------------
(* Vector search: four ids, of which the index may know the last one too.   *)

VectorFields ==
    {[index |-> index, exact |-> exact, texts |-> texts, relevance |-> relevance,
      reads |-> works[1], model |-> works[2], loads |-> works[3], ranks |-> works[4]] :
        index \in {<<>>, <<2, 1, 3>>, <<4, 3, 2, 1>>}, exact \in {<<5, 2, 8>>, <<5, 5, 1, 2>>, <<3>>},
        texts \in {{1, 2, 3}, {3}, {}}, relevance \in {<<1, 2, 3, 4>>, <<4, 2, 3, 1>>},
        works \in {<<TRUE, TRUE, TRUE, TRUE>>, <<FALSE, TRUE, TRUE, TRUE>>, <<TRUE, FALSE, TRUE, TRUE>>,
                   <<TRUE, TRUE, FALSE, TRUE>>, <<TRUE, TRUE, TRUE, FALSE>>}}

Encoders == {[cross_encoder |-> "on", rerank_candidates |-> n] : n \in {Off, 1, 2}}
              \cup {[cross_encoder |-> Off, rerank_candidates |-> Off]}

-----------------------------------------------------------------------------
(* The vector index, with up to five nodes.  The points are marks of a     *)
(* Golomb ruler, so no two distances from a point are the same.            *)

I(id, at) == [op |-> "insert", id |-> id, at |-> at]
Find(at, k, ef) == [op |-> "search", at |-> at, k |-> k, ef |-> ef]
Delete(id) == [op |-> "delete", id |-> id]
Save == [op |-> "save"]
Of(ops, m, m_max0, levels) ==
    [ops |-> ops, m |-> m, m_max0 |-> m_max0, ef_construction |-> 2, levels |-> levels, restarts |-> 0, after |-> <<>>]
AllIndexes ==
    {Of(<<<<I(1, 0), I(2, 4)>>, <<I(3, 1)>>, <<Find(0, 5, 5)>>>>, 1, 4, {0, 1}),
     Of(<<<<I(1, 0), I(2, 9)>>, <<I(1, 4), Find(4, 2, 1)>>>>, 1, 4, {0, 1}),
     Of(<<<<I(1, 0), I(2, 9), Delete(2)>>, <<I(2, 4)>>, <<Find(11, 1, 5)>>>>, 1, 4, {0}),
     Of(<<<<I(1, 0), I(2, 1), I(3, 4), I(4, 9)>>, <<Find(9, 5, 5)>>>>, 1, 1, {0})}
    \cup
    {[Of(ops, 1, 4, {0, 1}) EXCEPT !.restarts = 1, !.after = <<I(1, 11), Find(0, 5, 5)>>] :
         ops \in {<<<<I(1, 0), Save>>, <<I(1, 4)>>>>, <<<<I(1, 0), Save, I(3, 9)>>, <<I(2, 4)>>>>}}


Vectors == INSTANCE Hnsw WITH
    Setups <- AllIndexes, setup <- v1, nodes <- v2, id_to_idx <- v3, entry <- v4, threads <- v5, raw <- v6,
    file <- v7, answers <- v8, left <- v9, odd <- v10

-----------------------------------------------------------------------------
(* The choice of an input.                                                 *)

Init ==
    \/ /\ case = [at |-> "start"] /\ v1 = Null /\ v2 = Null /\ v3 = Null /\ v4 = Null /\ v5 = Null
       /\ v6 = Null /\ v7 = Null /\ v8 = Null /\ v9 = Null /\ v10 = Null
    \/ case = [at |-> "index"] /\ Vectors!Init

PickStore == \E s \in RowSchemas : \E d \in Stores(s) :
    KeepsUnique(d) /\ case' = [at |-> "store", db |-> d]

PickFilter == \E n \in {1, NoLimit}, shape \in {"leaf", "pair"} :
    case' = [at |-> "filter", db |-> case.db, limit |-> n, shape |-> shape]

PickGraph == \E d \in Graphs : case' = [at |-> "graph", db |-> d]

PickQuery == \E q \in Queries : case' = [at |-> "query", db |-> case.db, q |-> q]

PickCorpus == \E analyzer \in {"simple", "english"}, corpus \in [1 .. 2 -> Texts] :
    case' = [at |-> "corpus", cfg |-> [analyzer |-> analyzer, positions |-> TRUE], corpus |-> corpus]

PickSearch == \E a \in Items, b \in Others \cup {<<>>} :
    case' = [at |-> "search", cfg |-> case.cfg, corpus |-> case.corpus,
             query |-> IF b = <<>> THEN <<a>> ELSE <<a, b>>]

PickDump == \E db \in Dumped : case' = [at |-> "dumped", db |-> db]

PickExport == \E mode \in {"raw", "none", "reembed"}, types \in {{1}, {2}, {1, 2}} :
    case' = [at |-> "export", db |-> case.db, mode |-> mode, types |-> types]

PickVectors == \E db \in VectorFields : case' = [at |-> "vectors", db |-> db]

PickSimilar == \E cfg \in Encoders, k \in 1 .. 3, rescore \in BOOLEAN, restrict \in {{}, {1}, {4}, {2, 3}, {1, 2, 4}} :
    case' = [at |-> "similar", db |-> case.db, cfg |-> cfg, k |-> k, rescore |-> rescore,
             restrict |-> IF restrict = {} THEN Off ELSE restrict]

Pick ==
    \/ case.at = "start" /\ (PickVectors \/ PickStore \/ PickGraph \/ PickCorpus \/ PickDump)
    \/ case.at = "store" /\ PickFilter
    \/ case.at = "graph" /\ PickQuery
    \/ case.at = "corpus" /\ PickSearch
    \/ case.at = "dumped" /\ PickExport
    \/ case.at = "vectors" /\ PickSimilar

Next ==
    \/ Pick /\ UNCHANGED indexState
    \/ case.at = "index" /\ Vectors!Next /\ UNCHANGED case

Spec == Init /\ [][Next]_<<case, indexState>>

-----------------------------------------------------------------------------
(* The properties, each of every input that is picked, and of every answer *)
(* of the index.                                                           *)

FilterExact(c) ==
    c.at = "filter" =>
        \A p \in IF c.shape = "leaf" THEN Comparisons ELSE Pairs(c.db) :
            validate_predicate_for_type(c.db, p) => PlanExact(c.db, p, c.limit)

\* Whatever index, unique key, intersection or union a filter is answered from,
\* its rows are those of a scan of the type with evaluate_predicate, and a pushed
\* LIMIT takes as many of them as there are; the plan's known deviations are named
\* in FilterPlan.
FiltersExact == [][FilterExact(case')]_case

PipelineExact(c) == c.at = "query" => Exec!PipelineExact(c.db, c.q)

\* A pipeline without a limit or a ranking answers, and writes, exactly the
\* objects that its steps mean, each once and with its current value, whatever
\* covers the traversals read.
PipelinesExact == [][PipelineExact(case')]_case

\* A query misses no object that its hops reach: "Follow a relationship field to
\* the objects on the other side. Traversals chain" (docs/src/queries.md).
TraversalComplete == case.at = "query" => Exec!TraversalComplete(case.db, case.q)

\* A link is seen from both of its ends: "Linking one side makes the other side
\* reflect it automatically" (docs/src/schema.md, of @inverse).
LinkReflected == case.at = "query" => Exec!LinkReflected(case.db, case.q)

SearchHidesHidden(c) ==
    \A visible \in SUBSET DOMAIN c.corpus :
        LET found(corpus) == Search!fulltext_candidates(c.cfg, "built", Search!Index(c.cfg, corpus), {},
                                                        c.query, [NoLimits EXCEPT !.defer = TRUE])
            ranked(corpus) == IF Search!IsErr(found(corpus)) THEN found(corpus)
                              ELSE Search!score_visible(found(corpus), visible, 2)
        IN  ranked(c.corpus) = ranked(Restrict(c.corpus, visible))

RuleInert(c) ==
    /\ c.at = "query" => \A r \in ReadRules : Exec!RulesInert(c.db, r, c.q)
    /\ c.at = "search" => SearchHidesHidden(c)

\* Under rules a query answers as if the objects that the caller may not read
\* were not there, and a full-text search gives them no part in its scores.  Not
\* compared are queries that are refused, that end in a type or an argument error,
\* or that hop over rows of which only some have the field in their bytes.
RulesInert == [][RuleInert(case')]_case

BudgetAllOrNothing(c) ==
    c.at = "query" /\ c.db \in Mixed =>
        \A g \in Budgets, r \in {NoRules, WriteRule, Rule({4}, 1 .. 8, TRUE, 1)} :
            Exec!BudgetAllOrNothing(c.db, g, r, c.q)

\* A budget refuses a query or leaves its answer alone; what it refuses has
\* written a prefix of what it would have written, and without a deadline nothing
\* of the step it stops.
BudgetsAllOrNothing == [][BudgetAllOrNothing(case')]_case

SearchExact(c) ==
    /\ c.at = "search" =>
        LET docs == DOMAIN c.corpus
            stats == [docs |-> Cardinality(docs),
                      tokens |-> MapThenSumSet(LAMBDA o : Search!tokenize_for_index(c.cfg, c.corpus[o]).len, docs)]
            found == Search!fulltext_candidates(c.cfg, "built", Search!Index(c.cfg, c.corpus), {}, c.query, NoLimits)
            all == Search!score(found, stats, docs, 3)
        IN  Search!IsErr(found) \/ Search!IsErr(all) \/
            {h.id : h \in Range(all.hits)} = {o \in docs : Search!Found(c.cfg.analyzer, c.query, c.corpus[o])}
    /\ c.at = "similar" => Vectors!SimilarExact(c.db, c.cfg, c.k, c.rescore, c.restrict)

\* A search by words finds exactly the documents that its text means, read word by
\* word; one by meaning returns as many hits as there are, each once, with exact
\* distances where it has them, the texts that the cross-encoder ranked first; and
\* the vector index gives the nearest ids, each once, among all that were in it
\* from the search's start to its end, whatever other threads insert, update and
\* delete meanwhile, and every stored vector, before and after a restart.
SearchesExact ==
    [][/\ SearchExact(case')
       /\ case.at = "index" => Vectors!SearchExact' /\ Vectors!StoredFound']_<<case, indexState>>

DumpFaithful(c) ==
    c.at = "export" =>
        /\ Dump!RoundTrip(c.db, c.types, c.mode)
        /\ Dump!NeverSilentlyDifferent(c.db, c.types, c.mode)
        /\ \A live \in Lives : Dump!AdditiveOnly(c.db, live, c.types, c.mode)

\* An export that is imported into an empty directory gives back the exported
\* types; no import into it reports success and leaves another database; an
\* online import changes nothing that was there, or is refused.
DumpsFaithful == [][DumpFaithful(case')]_case
=============================================================================
