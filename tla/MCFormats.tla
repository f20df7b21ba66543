------------------------------ MODULE MCFormats -----------------------------
(* Model checking what is written to disk, sent over a wire and read as      *)
(* text, over bounded inputs: keys and sorted tables (SstFile), catalog rows *)
(* (CatalogCodec), messages (Wire), queries (QueryText), access rules        *)
(* (Rules) and schemas (SchemaText).  A behaviour picks a part and then one  *)
(* input of it; the invariants compare the code's answer with its reference. *)
EXTENDS SstFile, TLC

VARIABLE case

-----------------------------------------------------------------------------
(* Queries.                                                                  *)

Numerals == ("0" :> 0) @@ ("3" :> 3) @@ ("9" :> 9)
Jsons == {<<"{", "}">>, <<"[", "{", "\"", "}", "\\", "\"", "\"", ":", "3", "}", "]">>}
Q == INSTANCE QueryText WITH Numeral <- Numerals, I64_MAX <- 7, JsonTexts <- Jsons

Brief == {<<>>, <<"x">>, <<"\"", "\\">>, <<"\\", "n">>}
Literals ==
    {Q!Literal("string", 0, t) : t \in Brief}
    \cup {Q!Literal("int", n, <<>>) : n \in {-3, 0, 3}}
    \cup {Q!Literal("float", 0, t) : t \in {<<"3", ".", "0">>, <<"-", "3", "e", "-", "3">>, <<"3", ".">>}}
    \cup {Q!Literal("bool", 0, <<"true">>), Q!Literal("null", 0, <<>>)}
    \cup {Q!Literal("json", 0, t) : t \in Jsons}
One == Q!Literal("int", 3, <<>>)

Compare(path, op, value) == [p |-> "compare", path |-> path, op |-> op, value |-> value]
Atoms ==
    {Compare(<<<<"f">>>>, <<"<">>, One),
     Compare(<<<<"f">>, <<"contains">>>>, <<">", "=">>, Q!Literal("bool", 0, <<"true">>)),
     [p |-> "contains", path |-> <<<<"f">>, <<"g">>>>, needle |-> <<"\"">>]}
Paired(A, B) == {[p |-> p, a |-> a, b |-> b] : p \in {"and", "or"}, a \in A, b \in B}
Predicates ==
    Atoms \cup Paired(Atoms, Atoms) \cup Paired(Paired(Atoms, Atoms), Atoms) \cup Paired(Atoms, Paired(Atoms, Atoms))
    \cup {Compare(<<<<"f">>>>, op, v) : op \in Q!Operators, v \in Literals}
    \cup Paired(Atoms, {Compare(<<<<"f">>, <<"g">>, <<"f">>>>, <<"<">>, One)})

Objects ==
    {<<>>} \cup {(<<"f">> :> v) : v \in Literals} \cup {(<<"f">> :> One) @@ (<<"g">> :> v) : v \in Literals}
Two == {<<>>, (<<"f">> :> One) @@ (<<"g">> :> Q!Literal("null", 0, <<>>))}

T == <<"T">>
PlainSources == {[src |-> "all", type |-> T]} \cup {[src |-> "get", type |-> T, id |-> n] : n \in {0, 3, 9}}
Sources ==
    PlainSources
    \cup {[src |-> "filter", type |-> T, predicate |-> p] : p \in Predicates}
    \cup {[src |-> "create", type |-> T, fields |-> o] : o \in Objects}
    \cup {[src |-> "create_batch", type |-> T, rows |-> r] : r \in UNION {[1 .. n -> Two] : n \in 0 .. 2}}

Phrase(t) == [text |-> t, vector |-> <<>>]
Numbers == <<One, Q!Literal("float", 0, <<"3", ".", "0">>)>>
Rank(query) == [field |-> <<"f">>, query |-> query, k |-> 3]
Steps ==
    {[st |-> "traverse", field |-> f] : f \in {<<"f">>, <<"limit">>, <<"get">>}}
    \cup {[st |-> "filter", predicate |-> p] : p \in Atoms}
    \cup {[st |-> "similar", ranked |-> Rank(q), params |-> [ef |-> e, rerank |-> r]] :
              q \in {Phrase(<<"x">>), [text |-> <<>>, vector |-> Numbers]}, e \in {Q!None, 0, 3}, r \in {Q!None, 0}}
    \cup {[st |-> "matches", ranked |-> Rank(Phrase(t))] : t \in Brief}
    \cup {[st |-> "update", fields |-> o] : o \in Two} \cup {[st |-> "delete"]}
    \cup {[st |-> "link", target |-> [type |-> T, id |-> 3], fields |-> o] : o \in Two}
    \cup {[st |-> "unlink", target |-> [type |-> T, id |-> 0]]}
    \cup {[st |-> s, count |-> 3] : s \in {"limit", "offset"}}

Styles == {[gap |-> g, words |-> w] : g \in {<<>>, <<" ">>}, w \in BOOLEAN}
Letters == {"x", "n", "\"", "\\", "LF"}

\* A query that is written out parses to itself, however it is spaced but for the
\* blank that follows the words and and or, or is refused, and so does
\* one that a client's builder wrote around any string (parse_query, the builders).
QueryReparsed(it) ==
    /\ it.part = "query" => \A style \in Styles : Q!QueryReparsed(it.of, style)
    /\ it.part = "text" => \A n \in {0, 3} : Q!BuiltReparsed(it.of, n)

-----------------------------------------------------------------------------
(* Rules: a type T with a scalar, a vector, and relations to one and to many *)
(* objects of U.                                                             *)

FieldDef(kind, many) == [kind |-> kind, target |-> <<"U">>, many |-> many]
Types ==
    (<<"T">> :> ((<<"s">> :> FieldDef("scalar", FALSE)) @@ (<<"v">> :> FieldDef("vector", FALSE))
                 @@ (<<"o">> :> FieldDef("relation", FALSE)) @@ (<<"m">> :> FieldDef("relation", TRUE))))
    @@ (<<"U">> :> (<<"x">> :> FieldDef("scalar", FALSE)))
RuleNumbers == (<<"3">> :> 3) @@ (<<"-", "3">> :> -3)
Codes == ("u" :> 1) @@ ("w" :> 2)
R == INSTANCE Rules WITH Digits <- {"3"}, Number <- RuleNumbers, Code <- Codes, Schema <- Types

Json(j, v) == [j |-> j, v |-> v]
Str(c) == Json("string", <<c>>)
Having(fields) == (<<"x">> :> fields)

\* Who asks, and of what: every operand is missing in some world.
Principals ==
    {[authenticated |-> FALSE, uid |-> <<>>, claims |-> Json("null", <<>>)]}
    \cup {[authenticated |-> TRUE, uid |-> <<<<"u">>>>, claims |-> c] :
              c \in {Json("null", <<>>), Json("object", <<>>), Json("object", <<"c">> :> Json("array", <<Str("u"), Str("w")>>))}}
    \cup {[authenticated |-> TRUE, uid |-> <<<<"w">>>>, claims |-> Json("null", <<>>)]}
Linked(over, targets) == [over |-> over, targets |-> targets]
Resources ==
    {[is |-> "stored", object |-> o, request |-> (<<"s">> :> Str("u")), links |-> (<<"m">> :> m) @@ (<<"o">> :> l)] :
         o \in {<<>>, (<<"s">> :> Json("bool", <<"false">>)), (<<"s">> :> Str("w"))},
         m \in {Linked(TRUE, <<>>), Linked(FALSE, <<>>)}
               \cup {Linked(FALSE, <<Having(Str("u")), t>>) : t \in {<<>>, Having(Str("w"))}},
         l \in {Linked(FALSE, <<<<>>>>), Linked(FALSE, <<Having(Str("u"))>>)}}
    \cup {[is |-> "stored", object |-> <<>>, request |-> (<<"s">> :> Str("u")),
           links |-> (<<"m">> :> Linked(FALSE, <<>>)) @@ (<<"o">> :> Linked(FALSE, <<>>))]}
    \cup {[is |-> i, object |-> (<<"s">> :> Json("null", <<>>)), request |-> (<<"s">> :> Json("null", <<>>)), links |-> <<>>] :
              i \in {"snapshot", "create", "none"}}

Leaf(segs) == [e |-> "path", segs |-> segs]
Lit(tok) == [e |-> "lit", lit |-> tok]
Paths ==
    {Leaf(<<<<"request">>, <<"auth">>>>), Leaf(<<<<"request">>, <<"auth">>, <<"uid">>>>),
     Leaf(<<<<"request">>, <<"auth">>, <<"claims">>, <<"c">>>>), Leaf(<<<<"request">>, <<"s">>>>),
     Leaf(<<<<"resource">>, <<"s">>>>), Leaf(<<<<"resource">>, <<"o">>, <<"x">>>>), Leaf(<<<<"resource">>, <<"m">>, <<"x">>>>)}
Leaves ==
    Paths \cup {Leaf(<<<<"resource">>, <<"v">>>>), Leaf(<<<<"resource">>, <<"m">>>>), Leaf(<<<<"request">>>>)}
    \cup {Lit(tok) : tok \in {R!Keyword("null"), R!Tok("str", <<"u">>), R!Tok("num", <<"-", "3">>)}}
Comparison(a, op, b) == [e |-> "cmp", op |-> op, a |-> a, b |-> b]
Comparisons ==
    {Comparison(a, op, b) : a \in Leaves, b \in Leaves,
                            op \in {R!Op(<<"=", "=">>), R!Op(<<"!", "=">>), R!Op(<<"<", "=">>), R!Keyword("in")}}
Others ==
    {Leaf(<<<<"resource">>, <<"s">>>>), Lit(R!Keyword("true")),
     Comparison(Leaf(<<<<"request">>, <<"auth">>, <<"uid">>>>), R!Keyword("in"), Leaf(<<<<"resource">>, <<"m">>, <<"x">>>>))}

\* The worlds, each with those that tell more, of the identity and of the
\* targets of a to-many relation or not.
Worlds == [p : Principals, res : Resources]
More ==
    [w \in Worlds |-> [auth \in BOOLEAN |-> [many \in BOOLEAN |->
        {w2 \in Worlds : R!TellsMore(w, w2, <<"T">>, auth, many)}]]]

\* What is absent never grants: a clause that holds for a caller and an object
\* still holds when more is known of either, so that a missing uid, claim, field
\* or link, or a relation too long to read, never makes it true; but request.auth
\* says that the caller is anonymous, and a target without the field is no member
\* (resolve and evaluate, under every nesting of not, and, or and comparisons).
AbsenceNeverGrants(it) ==
    it.part = "clause" =>
        LET x == R!compile_expr(it.of, <<"T">>)
        IN  x /= R!Bad => R!AbsenceNeverGrants(x, More)

\* A rule that is written out parses to itself, whatever comments and line breaks
\* stand between its tokens.
RulesReparsed(it) ==
    it.part = "clause" =>
        LET one(verbs) == [type |-> <<"T">>, allows |-> <<[verbs |-> verbs, expr |-> it.of]>>]
        IN  \A gap \in {<<>>, <<"LF">>, <<" ", "#", "\"", "LF">>} :
                R!RulesReparsed(<<one(<<"read", "write">>)>>, gap)

-----------------------------------------------------------------------------
(* Schemas: a type T of one or two fields, and a type U.                     *)

SchemaNumerals == ("0" :> 0) @@ ("3" :> 3) @@ ("9" :> 9)
M == INSTANCE SchemaText WITH Numeral <- SchemaNumerals, U32_MAX <- 7

Sc(s) == [k |-> "scalar", s |-> s]
FieldTypes ==
    {Sc("String"), Sc("i64"), Sc("Json"), [k |-> "vector", dims |-> 3], [k |-> "vector", dims |-> 9], M!Relation(<<"U">>, FALSE)}
    \cup {[M!Relation(<<"U">>, TRUE) EXCEPT !.edges = e] :
              e \in {<<>>, <<[name |-> <<"w">>, s |-> "f32"]>>, <<[name |-> <<"w">>, s |-> "f32"], [name |-> <<"w", "3">>, s |-> "Bool"]>>}}
Hnsw(m, q) == [d |-> "index", metric |-> <<"l2">>, quantization |-> q, m |-> m, ef_construction |-> <<>>]
Directives ==
    {[d |-> "unique"], [d |-> "indexed"], [d |-> "on_delete", policy |-> "cascade"]}
    \cup {[d |-> "inverse", type |-> <<"U">>, field |-> g] : g \in {<<"b">>, <<"w">>}}
    \cup {[d |-> "vectorize", source |-> <<g>>, model |-> <<<<"x">>>>] : g \in {<<"a">>, <<"b">>}}
    \cup {[d |-> "fulltext", analyzer |-> a, positions |-> b] : a \in M!KNOWN_ANALYZERS, b \in BOOLEAN}
    \cup {Hnsw(<<3>>, <<>>), Hnsw(<<0>>, <<>>), Hnsw(<<>>, <<"none">>), Hnsw(<<>>, <<"turboquant_2bit">>)}
Field(name, type, directives) == [name |-> name, type |-> type, directives |-> directives]
DeclaredFields ==
    {Field(<<"a">>, t, d) : t \in FieldTypes, d \in {<<>>} \cup {<<x>> : x \in Directives} \cup {<<x, y>> : x, y \in Directives}}
SecondFields == {Field(n, t, d) : n \in {<<"b">>, <<"b", "__", "c">>}, t \in {Sc("String"), Sc("i64")}, d \in {<<>>, <<[d |-> "unique"]>>}}
Us == {<<>>, <<Field(<<"b">>, M!Relation(<<"T">>, TRUE), <<>>)>>}
Declared(a, b, u) == (<<"T">> :> (<<a>> \o b)) @@ (<<"U">> :> u)
Gaps == {<<>>, <<" ">>, <<"/", "/", "type", " ", "@", "LF">>}

\* A schema that the parser accepts is the schema that was written, however it
\* was spaced, commented and abbreviated, and the text the emitter makes of it
\* for an export parses to the same schema (parse_schema, emit_schema).
SchemaReparsed(it) == it.part = "schema" => \A gap \in Gaps : M!SchemaReparsed(it.of, gap)

-----------------------------------------------------------------------------
PickSource ==
    /\ case.part = "none"
    /\ \E source \in Sources : case' = [part |-> "query", of |-> [source |-> source, steps |-> <<>>]]
PickStep ==
    /\ case.part = "query" /\ Len(case.of.steps) < 2
    /\ case.of.source \in PlainSources
    \* A filter right after the type is a source.
    /\ \E step \in {s \in Steps : case.of.source.src = "all" /\ case.of.steps = <<>> => s.st /= "filter"} :
           case' = [case EXCEPT !.of.steps = Append(@, step)]
PickText ==
    /\ case.part = "none"
    /\ \E n \in 0 .. 4 : \E t \in [1 .. n -> Letters] : case' = [part |-> "text", of |-> t]
PickClause ==
    /\ case.part = "none"
    /\ \E x \in Leaves \cup Comparisons : case' = [part |-> "clause", of |-> x]
PickSchema ==
    /\ case.part = "none"
    /\ \E a \in DeclaredFields, b \in {<<>>} \cup {<<f>> : f \in SecondFields}, u \in Us :
           /\ a.directives = <<>> \/ b = <<>> \/ u = <<>>
           /\ Len(a.directives) = 2 => b = <<>>
           /\ case' = [part |-> "schema", of |-> Declared(a, b, u)]
PickNot ==
    /\ case.part = "clause" /\ case.of.e /= "not"
    /\ case' = [case EXCEPT !.of = [e |-> "not", a |-> @]]
PickAnother ==
    /\ case.part = "clause" /\ case.of.e = "cmp" /\ case.of.a \in Paths /\ case.of.b \in Paths
    /\ \E y \in Others :
           \/ y.e /= "lit" /\ \E e \in {"and", "or"} : case' = [case EXCEPT !.of = [e |-> e, a |-> y, b |-> [e |-> "or", a |-> @, b |-> y]]]
           \/ case' = [case EXCEPT !.of = Comparison([e |-> "not", a |-> @], R!Op(<<"=", "=">>), y)]

PickLanguage == PickSource \/ PickStep \/ PickText \/ PickSchema \/ PickClause \/ PickNot \/ PickAnother

-----------------------------------------------------------------------------
(* Keys: identifiers at the edges of two bytes and made of separators.       *)

Ids == {0, 58, 255, 14906, 65535}
Few == {0, 14906}
Gens == {0, 58}
Signed == {-32768, -1, 0, 58, 32767}
Texts == {<<>>, <<0>>, <<58>>, <<0, 0>>, <<0, 1>>, <<58, 0>>, <<255>>}
Names == {<<84>>, <<84, 69>>, <<97>>}

\* A field's values have one width or end themselves, by its kind: the even
\* identifiers are integers.
Fixed(f) == f % 2 = 0

Row(fam, args, key) == [fam |-> fam, args |-> args, key |-> key]

\* Every key of every family; args are what the key must be ordered and found by.
KeyRows ==
    {Row("object", <<t, i>>, object(t, i)) : t \in Ids, i \in Ids}
    \cup {Row("version", <<t, i>>, object_version(t, i)) : t \in Few, i \in Ids}
    \cup {Row("edge", <<s, r, t>>, edge(s, r, t)) : s \in Ids, r \in Few, t \in Few}
    \cup {Row("reverse", <<t, r, s>>, reverse_edge(t, r, s)) : t \in Few, r \in Few, s \in Ids}
    \cup {Row("vector", <<t, i, f>>, vector(t, i, f)) : t \in Few, i \in Few, f \in Few}
    \cup {Row("state", <<t, i, f>>, vector_state(t, i, f)) : t \in Few, i \in Few, f \in Few}
    \cup {Row("queue", <<j>>, queue_entry(j)) : j \in Ids}
    \cup {Row("unique", <<t, f, b>>, unique_index(t, f, b)) : t \in Few, f \in Few, b \in Texts}
    \cup {Row("index", <<t, f, v, i>>, field_index(t, f, encode_int_for_zone(v), i)) :
              t \in Few, f \in {58}, v \in Signed, i \in Ids}
    \cup {Row("indexvar", <<t, f, b, i>>, field_index_var(t, f, encode_bytes_for_index(b), i)) :
              t \in Few, f \in {255}, b \in Texts, i \in Ids}
    \cup {Row("posting", <<t, f, g, b, i>>, fulltext_posting(t, f, g, encode_bytes_for_index(b), i)) :
              t \in {0}, f \in Few, g \in Gens, b \in Texts, i \in Few}
    \cup {Row("doc", <<t, f, g, i>>, fulltext_doc(t, f, g, i)) : t \in Few, f \in Few, g \in Gens, i \in Few}
    \cup {Row("type", <<n>>, catalog_type(n)) : n \in Names}
    \cup {Row("field", <<n, m>>, catalog_field(n, m)) : n \in Names, m \in Names}
    \cup {Row("rel", <<n, m>>, catalog_rel(n, m)) : n \in Names, m \in Names}
    \cup {Row("log", <<n>>, catalog_migration_log(n)) : n \in Ids}
    \cup {Row("plan", <<n>>, catalog_migration_plan(n)) : n \in Ids}
    \cup {Row("cursor", <<n, p>>, catalog_partition_cursor(n, p)) : n \in Ids, p \in {0, 58}}
    \cup {Row("quarantine", <<n, i>>, catalog_quarantine(n, i)) : n \in Ids, i \in Ids}
    \cup {Row("marker", <<t, f>>, catalog_fulltext_marker(t, f)) : t \in Ids, f \in Ids}
    \cup {Row("next", <<n>>, [T |-> catalog_next_type, E |-> catalog_next_field, R |-> catalog_next_rel,
                              M |-> catalog_next_migration][n]) : n \in {"T", "E", "R", "M"}}
    \cup {Row("single", <<n>>, [F |-> catalog_format, I |-> catalog_initialized, M |-> catalog_metadata,
                                D |-> catalog_digest, V |-> catalog_migration_version][n]) :
              n \in {"F", "I", "M", "D", "V"}}

\* Every prefix a scan uses, with the keys it is meant to list.
Scans ==
    {Row({"object"}, <<t>>, object_prefix(t)) : t \in Ids}
    \cup {Row({"object"}, <<>>, all_objects_prefix), Row({"edge"}, <<>>, all_edges_prefix),
          Row({"version"}, <<>>, object_version_prefix), Row({"queue"}, <<>>, queue_prefix),
          Row({"type"}, <<>>, catalog_prefix_type), Row({"field"}, <<>>, catalog_prefix_field),
          Row({"rel"}, <<>>, catalog_prefix_rel), Row({"log"}, <<>>, catalog_migration_log_prefix),
          Row({"plan"}, <<>>, catalog_migration_plan_prefix),
          Row({"cursor"}, <<>>, catalog_partition_cursor_prefix),
          Row({"quarantine"}, <<>>, catalog_quarantine_prefix),
          Row({"marker"}, <<>>, catalog_fulltext_marker_prefix),
          Row({"type", "field", "rel", "log", "plan", "cursor", "quarantine", "marker", "next", "single"}, <<>>,
              catalog_prefix_all)}
    \cup {Row({"edge"}, <<s, r>>, edge_prefix(s, r)) : s \in Ids, r \in Few}
    \cup {Row({"reverse"}, <<t, r>>, reverse_edge_prefix(t, r)) : t \in Few, r \in Few}
    \cup {Row({"vector"}, <<t>>, vector_prefix(t)) : t \in Few}
    \cup {Row({"state"}, <<t>>, vector_state_type_prefix(t)) : t \in Few}
    \cup {Row({"index", "indexvar"}, <<t, f>>, field_index_prefix(t, f)) : t \in Few, f \in {58, 255}}
    \cup {Row({"index"}, <<t, 58, v>>, field_index_value_prefix(t, 58, encode_int_for_zone(v))) :
              t \in Few, v \in Signed}
    \cup {Row({"indexvar"}, <<t, 255, b>>, field_index_var_value_prefix(t, 255, encode_bytes_for_index(b))) :
              t \in Few, b \in Texts}
    \cup {Row({"posting"}, <<0, f, g>>, fulltext_field_prefix(0, f, g)) : f \in Few, g \in Gens}
    \cup {Row({"posting"}, <<0, f>>, fulltext_field_all_generations_prefix(0, f)) : f \in Few}
    \cup {Row({"posting"}, <<0, f, g, b>>, fulltext_term_prefix(0, f, g, encode_bytes_for_index(b))) :
              f \in Few, g \in Gens, b \in Texts}
    \cup {Row({"doc"}, <<t, f, g>>, fulltext_doc_prefix(t, f, g)) : t \in Few, f \in Few, g \in Gens}
    \cup {Row({"doc"}, <<t, f>>, fulltext_doc_all_generations_prefix(t, f)) : t \in Few, f \in Few}
    \cup {Row({"cursor"}, <<n>>, catalog_partition_cursor_plan_prefix(n)) : n \in Ids}
    \cup {Row({"quarantine"}, <<n>>, catalog_quarantine_plan_prefix(n)) : n \in Ids}

\* Families whose keys are not all of one length, nor end themselves.
Open == {"unique", "type", "field", "rel"}

\* A prefix scan lists the keys of its family and arguments and no other: no
\* identifier that contains a separator, no value that contains a terminator
\* and no tag of another family gets into it.  A range of the vectorizer's
\* queue holds the jobs of its window, a term prefix the terms that start with
\* it.  Outside the families whose keys end in raw text, no key is a prefix of
\* another.  (KeyBuilder)
PrefixScansExact(it) ==
    it.part = "key" =>
        LET k == it.of IN
        /\ \A s \in Scans : StartsWith(k.key, s.key) <=> k.fam \in s.fam /\ IsPrefix(s.args, k.args)
        /\ k.fam = "queue" =>
               \A w \in {0, 1, 58, 255} : StartsWith(k.key, queue_window_prefix(w)) <=> k.args[1] \div 256 = w
        /\ k.fam = "posting" =>
               \A b \in Texts :
                   StartsWith(k.key, fulltext_field_prefix(0, k.args[2], k.args[3]) \o encode_term_prefix(b))
                       <=> StartsWith(k.args[4], b)
        /\ k.fam \notin Open => \A r \in KeyRows : StartsWith(r.key, k.key) => r = k

\* The order of what keys are made of: numbers but for one text.
TextAt(fam) == CASE fam \in {"unique", "indexvar"} -> 3 [] fam = "posting" -> 4 [] fam = "type" -> 1 [] OTHER -> 0

ArgLess(fam, a, b) ==
    \E n \in DOMAIN a :
        /\ SubSeq(a, 1, n - 1) = SubSeq(b, 1, n - 1)
        /\ IF n = TextAt(fam) THEN Less(a[n], b[n]) ELSE a[n] < b[n]

\* Within a family keys sort by their arguments, so that a range of an index is
\* a range of its values: signed integers and raw text included.  What the
\* decoders read back from a key is what it was made of, and the arena variants
\* write the same bytes.  (KeyBuilder, encode_bytes_for_index, encode_int_for_zone)
KeyOrderExact(it) ==
    it.part = "key" =>
        LET k == it.of
            a == k.args
            Wrote(p) == SubSeq(p.buf, p.start + 1, p.end) = k.key /\ SubSeq(p.buf, 1, p.start) = <<7>>
        IN
        /\ k.fam \notin {"next", "single", "field", "rel"} =>
               \A r \in KeyRows : r.fam = k.fam => (Less(k.key, r.key) <=> ArgLess(k.fam, a, r.args))
        /\ k.fam \in {"posting", "doc"} =>
               /\ fulltext_object_id(k.key) = <<a[Len(a)]>>
               /\ fulltext_generation(k.key) = <<a[3]>>
        /\ k.fam = "posting" => fulltext_posting_term(k.key) = <<encode_bytes_for_index(a[4])>>
        /\ k.fam = "marker" => catalog_fulltext_marker_ids(k.key) = a
        /\ k.fam = "object" => Wrote(object_into(<<7>>, a[1], a[2]))
        /\ k.fam = "version" => Wrote(object_version_into(<<7>>, a[1], a[2]))
        /\ k.fam = "edge" => Wrote(edge_into(<<7>>, a[1], a[2], a[3]))
        /\ k.fam = "reverse" => Wrote(reverse_edge_into(<<7>>, a[1], a[2], a[3]))
        /\ k.fam = "unique" => Wrote(unique_index_into(<<7>>, a[1], a[2], a[3]))
        /\ k.fam = "index" => Wrote(field_index_into(<<7>>, a[1], a[2], encode_int_for_zone(a[3]), a[4]))
        /\ k.fam = "indexvar" =>
               Wrote(field_index_var_into(<<7>>, a[1], a[2], encode_bytes_for_index(a[3]), a[4]))
        /\ k.fam = "posting" =>
               Wrote(fulltext_posting_into(<<7>>, a[1], a[2], a[3], encode_bytes_for_index(a[4]), a[5]))
        /\ k.fam = "doc" => Wrote(fulltext_doc_into(<<7>>, a[1], a[2], a[3], a[4]))

-----------------------------------------------------------------------------
(* Sorted tables: up to seven entries in blocks of two, one key with four    *)
(* versions, no key a prefix of another but in the run that says so.         *)

FreeKeys == {<<1, 1>>, <<1, 2>>, <<2>>}
Versions == 1 .. 4
Deep == <<1, 2>>

EntriesOf(keys) == {e \in [key : keys, version : Versions] : e.version <= 2 \/ e.key = Deep} \ {[key |-> <<2>>, version |-> 2]}

\* A block of a compressed file may be damaged.
Files ==
    {i \in [version : {1, 5, 6}, whole : {TRUE}, extra : {{}, {<<3>>}}, damaged : {{}, {1}, {2}}] :
        (i.damaged = {} \/ (i.version = 6 /\ i.extra = {})) /\ (i.version = 1 => i.extra = {})}

Probes == FreeKeys \cup {<<1>>, <<3>>}
Ranges == {<<>>, <<1>>, <<2>>, <<1, 1>>, <<3>>}
Batches == {<< <<1, 1>>, <<2>> >>, << <<1>>, <<1, 2>>, <<2>>, <<3>> >>, << <<1, 1>>, <<1, 2>> >>}
Disjoint == {<< <<1>> >>, << <<1>>, <<2>> >>, << <<1, 1>>, <<2>> >>, << <<2>>, <<3>> >>, << <<1, 2>>, <<3>> >>}

\* What a read must find: the newest entry of a key its snapshot sees.
NewestOf(entries, key, v) ==
    LET seen == {e \in entries : e.key = key /\ e.version <= v}
    IN  {e \in seen : \A d \in seen : d.version <= e.version}
Exact(entries, key, v) == SetToSeq(NewestOf(entries, key, v))

ExactScan(entries, prefix, v) ==
    LET keys == {e.key : e \in {d \in entries : d.version <= v /\ StartsWith(d.key, prefix)}}
        nth(n) == CHOOSE k \in keys : Cardinality({d \in keys : Less(d, k)}) = n - 1
    IN  [n \in 1 .. Cardinality(keys) |-> Exact(entries, nth(n), v)[1]]

\* A point read, a batch of them, and the lookup of one internal key find the
\* newest entry the snapshot sees, in every file version, whatever the bloom
\* filter adds; a damaged block makes them fail and never answer wrongly; the
\* range test never skips a file that holds a key of the batch.  The memtable
\* answers the same.  (SstReader::get, get_versioned, multi_get_versioned,
\* range_overlaps_sorted; MemTable::get)
PointReadsExact(it) ==
    it.part = "sst" =>
        LET f == open(it.of)
            es == it.of.entries
            May(got, exact) == got = exact \/ (got = Err /\ f.damaged /= {})
        IN
        \A v \in Versions \cup {0} :
            /\ \A k \in Probes :
                   /\ May(get_versioned(f, k, v), Exact(es, k, v))
                   /\ May(get(f, k, v), Exact({e \in es : e.version = v}, k, v))
                   /\ MemGet(es, k, v) = Exact(es, k, v)
            /\ \A b \in Batches :
                   LET got == multi_get_versioned(f, b, v)
                   IN  /\ \A i \in DOMAIN b : May(got[i], Exact(es, b[i], v))
                       /\ range_overlaps_sorted(f, b) \/ \A i \in DOMAIN b : Exact(es, b[i], v) = Miss

\* A prefix scan, one from a key on, and a batch of disjoint ones list every key
\* once, in order, with its newest entry, and a limit cuts the tail; a block the
\* predicate prunes costs the entries in it and no other, and only behind it does
\* a key come up again; a damaged block ends a scan early, while a walk of the
\* whole file fails on it: a merge never drops entries.
\* (SstReader::scan_prefix_impl, scan_from_max, multi_scan_prefix_versioned,
\* scan_prefix_filtered_v6, try_for_each_entry)
ScansExact(it) ==
    it.part = "sst" =>
        LET f == open(it.of)
            es == it.of.entries
            Ok(got, exact) == IsPrefix(got, exact) /\ (f.damaged = {} => got = exact)
        IN
        /\ try_for_each_entry(f) = IF f.damaged = {} THEN Sorted(es) ELSE Err
        /\ \A v \in Versions :
               /\ \A p \in Ranges :
                      LET ref == ExactScan(es, p, v)
                          got == scan_prefix_impl(f, p, v, N(f) + 1)
                      IN  /\ Ok(got, ref)
                          /\ scan_prefix_impl(f, p, v, 1) = SubSeq(got, 1, Min({1, Len(got)}))
                          /\ MemScan(es, p, v) = ref
                          /\ \A s \in {r \in Ranges : StartsWith(r, p)} :
                                 Ok(scan_from_max(f, p, s, v, N(f) + 1), SelectSeq(ref, LAMBDA e : ~Less(e.key, s)))
                          /\ \A pruned \in {{}, {1}, {2}} :
                                 LET left == {e \in es : BlockOf(f, e) \notin pruned}
                                     all == scan_prefix_filtered_v6(f, p, v, pruned)
                                     Again(i) == i > 1 /\ all[i].key = all[i - 1].key
                                     once == SelectSeq([i \in DOMAIN all |-> i], LAMBDA i : ~Again(i))
                                 IN  /\ Ok([n \in DOMAIN once |-> all[once[n]]], ExactScan(left, p, v))
                                     /\ \A i \in DOMAIN all :
                                            Again(i) => \E b \in pruned : /\ BlockOf(f, all[i - 1]) < b
                                                                          /\ b < BlockOf(f, all[i])
               /\ \A b \in Disjoint :
                      LET refs == [i \in DOMAIN b |-> ExactScan(es, b[i], v)]
                      IN  /\ \A i \in DOMAIN b : Ok(multi_scan_prefix_versioned(f, b, v)[i], refs[i])
                          /\ prefix_range_overlaps_sorted(f, b) \/ \A i \in DOMAIN b : refs[i] = <<>>

\* "Find the latest visible version of a user key at the given snapshot version"
\* (SstReader::get_versioned), of any key: also of one that another key of the
\* file extends, whose entries sort between the search key and the shorter key's
\* own.
EveryKeyFound ==
    case.part = "nested" =>
        LET f == open(case.of) IN
        \A e \in case.of.entries : get_versioned(f, e.key, MAX_VERSION) = Exact(case.of.entries, e.key, MAX_VERSION)

-----------------------------------------------------------------------------
(* Catalog rows: integers of two bytes, lengths of one, histories of two.    *)

C == INSTANCE CatalogCodec WITH
    LEN_BYTES <- 1, MAX_RENAME_HISTORY <- 2, MAX_TYPE_CHANGE_HISTORY <- 2, MAX_PARALLEL_DEGREE <- 4,
    DEFAULT_QUARANTINE_CAP <- 300, MAX_QUARANTINE_ERROR_MSG <- 3

Name == <<65, 66>>
UpToTwo(S) == {<<>>} \cup {<<x>> : x \in S} \cup {<<x, y>> : x \in S, y \in S}
Unknowns == {<<>>, <<[tag |-> 7, value |-> <<>>], [tag |-> 200, value |-> <<9>>], [tag |-> 200, value |-> <<8>>]>>}

Plan0 ==
    [type_name |-> Name, field_name |-> <<66>>, field_id |-> 258, src_kind |-> 1, target_kind |-> 5,
     status |-> 1, cursor |-> 65535, chunk_size |-> 300, created_at_ms |-> 7, converter_name |-> <<>>,
     converter_version |-> 1, objects_converted |-> 257, phase |-> 0, cutover_cursor |-> 0,
     parallel_degree |-> <<>>, id_upper_bound |-> 0, error_policy |-> 0, dry_run |-> 0, error_count |-> 0,
     quarantine_cap |-> 300, unknown_tlvs |-> <<>>]

RowsOf(of) ==
    CASE of = "IdEntry" ->
            {[id |-> i, assigned_at |-> 513, assigned_by |-> 1, kind |-> 64,
              status |-> IF dead = <<>> THEN "Live" ELSE "Tombstoned",
              retired_at_ms |-> IF dead = <<>> THEN <<>> ELSE <<258>>, retired_reason |-> dead,
              previous_names |-> names, last_renamed_at_ms |-> IF names = <<>> THEN <<>> ELSE <<9>>,
              type_change_history |-> changes,
              last_type_change_at_ms |-> IF changes = <<>> THEN <<>> ELSE <<65535>>, unknown_tlvs |-> u] :
                i \in {1, 65535}, dead \in {<<>>, <<1>>, <<2>>}, u \in Unknowns,
                names \in UpToTwo({[from |-> Name, to |-> <<67>>, ms |-> 258]}),
                changes \in UpToTwo({[from_kind |-> 1, to_kind |-> 11, ms |-> 0]})}
      [] of = "Plan" ->
            {[Plan0 EXCEPT !.status = s, !.phase = p, !.error_policy = e, !.dry_run = d, !.unknown_tlvs = u,
                           !.parallel_degree = n, !.id_upper_bound = IF n = <<>> THEN 0 ELSE 600] :
                s \in 0 .. 6, p \in 0 .. 2, e \in 0 .. 2, d \in {0, 1}, n \in {<<>>, <<1>>, <<4>>},
                u \in {<<>>, <<[tag |-> 40, value |-> Name]>>}}
      [] of = "Cursor" ->
            [cursor : {0, 65535}, objects_converted : {0, 300}, errors : {0, 258}, done : BOOLEAN]
      [] of = "Quarantine" ->
            [source_value : {<<>>, <<0, 1, 2>>}, errored_at_ms : {258}, attempted_converter_name : {<<>>, Name},
             error_msg : {<<>>, Name, <<65, 66, 67>>, <<65, 66, 195, 169>>, <<65, 66, 67, 68>>}]
      [] of = "Log" -> [name : {<<>>, Name}, ms : {0, 258}]
      [] OTHER -> [n : {0, 1, 258, 65535}]

RowNames == {"IdEntry", "Plan", "Cursor", "Quarantine", "Log", "Counter", "Version"}

\* A plan as an earlier release wrote it: the optional tags are left out from
\* some release's on.
Earlier == {<<>>, <<"phase", "cutover_cursor">>, <<"phase", "cutover_cursor", "parallel_degree", "id_upper_bound">>}
EarlierPlan(plan, added) ==
    LET pairs == C!Read(C!Kinds.Plan, C!encode_migration_plan(plan)).pairs IN
    C!Row(C!Kinds.Plan,
        C!Kept(SelectSeq(pairs, LAMBDA p : \E n \in C!Required \cup ToSet(added) : C!PlanTags[n] = p.tag)))

\* A catalog row reads back as it was written, tags of a newer release and the
\* order of a history included; a torn one, cut anywhere, and a row of another
\* kind are refused; a plan of an earlier release reads with its defaults.
\* (encode_id_entry and its siblings in catalog.rs)
RowsExact(it) ==
    it.part = "row" =>
        LET b == C!Encode(it.row, it.of) IN
        /\ C!Decode(it.row, b) = C!AsStored(it.row, it.of)
        /\ \A n \in 0 .. Len(b) - 1 : C!Decode(it.row, SubSeq(b, 1, n)) = C!Err
        /\ \A other \in {"IdEntry", "Plan", "Cursor", "Quarantine", "Counter"} \ {it.row} :
              it.row \notin {"Log", "Version"} => C!Decode(other, b) = C!Err
        /\ it.row = "Plan" => \A added \in Earlier :
              LET old == C!decode_migration_plan(EarlierPlan(it.of, added)) IN
              \A n \in DOMAIN C!PlanTags :
                old[n] = IF n \in C!Required \cup ToSet(added) THEN it.of[n]
                         ELSE IF n = "parallel_degree" THEN <<>> ELSE C!Defaults[n]

-----------------------------------------------------------------------------
(* The wire: integers of one, two and three bytes, payloads of at most three *)
(* bytes in a frame, maps of up to two fields.                               *)

JsonBytes == {<<110>>, <<49>>}

W == INSTANCE Wire WITH
    W2 <- 1, W4 <- 2, W8 <- 3, MAX_FRAME_PAYLOAD <- 3, SCRATCH <- 4, JsonTexts <- JsonBytes, NAN <- 127,
    YEARS <- 0 .. 600, DATES <- -600 .. 1200

V(kind, v) == [tag |-> W!ValueTag[kind], v |-> v]

WireValues ==
    {V("Null", <<>>), V("String", <<>>), V("String", <<65>>), V("U32", <<258>>), V("U64", <<65793>>),
     V("I32", <<-1>>), V("I64", <<-2>>), V("F32", <<127>>), V("F64", <<32768>>), V("Bool", <<0>>),
     V("Bool", <<1>>), V("Bytes", <<255, 0>>), V("DateTime", <<513>>), V("DateTime", <<-1>>),
     V("DateTime", <<70000>>), V("Json", <<49>>)}
WireNames == {<<>>, <<65>>, <<65, 66>>}

FieldLists ==
    {<<>>} \cup {<<[name |-> n, value |-> v]>> : n \in WireNames, v \in WireValues}
    \cup {<<[name |-> n, value |-> v], [name |-> m, value |-> u]>> :
            n \in WireNames, m \in {<<65>>}, v \in WireValues, u \in WireValues}

\* A map as a function of its names; a later field of a name replaces it.
AsMap(fields) ==
    [n \in {fields[i].name : i \in DOMAIN fields} |->
        (CHOOSE f \in ToSet(fields) : f.name = n).value]
Distinct(fields) == \A i, j \in DOMAIN fields : fields[i].name = fields[j].name => i = j

\* What a reader of the TypeScript client gets: the query endpoint's form, but
\* that JSON has no NaN.
ReadForm(value) ==
    IF value.tag \in {W!ValueTag.F32, W!ValueTag.F64} THEN [float |-> value.v[1]] ELSE W!value_to_query_json(value)

\* A field map reads back as it was written, wherever it stands in a message and
\* whoever wrote it; every way of reading less than all of it (one field, one
\* integer, one byte string, a projection) agrees with reading it all; cut
\* anywhere, it is refused by the reader of the network and no shortcut reads
\* another value out of it; the export's envelopes lose nothing.
\* (serialize_fields, try_deserialize_fields, extract_field,
\* deserialize_fields_projected; wire.ts encodeFields, decodeFields)
FieldsExact(it) ==
    it.part = "fields" =>
        LET m == AsMap(it.of)
            b == W!serialize_fields_into(it.of)
            Asked == WireNames \cup {<<66>>}
            Stored(n) == IF n \in DOMAIN m THEN m[n] ELSE W!Err
            Of(n, kinds) == n \in DOMAIN m /\ m[n].tag \in {W!ValueTag[k] : k \in kinds}
            Restricted(ns) == [n \in ToSet(ns) \cap DOMAIN m |-> m[n]]
            Wants == {<<>>, << <<65>> >>, << <<66>>, <<65, 66>> >>, << <<>>, <<65>>, <<65, 66>> >>}
        IN
        /\ W!deserialize_fields(b) = m
        /\ W!ensure_fields_deserialized(W!from_raw(<<84>>, 1, b)).fields = m
        /\ W!try_deserialize_fields(<<9>> \o b \o <<9>>, 1) = [fields |-> m, end |-> 1 + Len(b)]
        /\ W!encodeFields(it.of) = b /\ W!serialize_fields_into_bytesmut(it.of) = b
        /\ W!decodeFields(b, 0) = [v |-> [n \in DOMAIN m |-> ReadForm(m[n])], pos |-> Len(b)]
        /\ W!fields_from_json(W!fields_to_json(m)) = m
        /\ \A n \in Asked :
              /\ W!extract_field(b, n) = Stored(n)
              /\ W!find_bytes_field_in_raw(b, n) = IF Of(n, {"Bytes"}) THEN [bytes |-> m[n].v] ELSE W!Err
              /\ W!find_u64_field_in_raw(b, n) =
                    IF Of(n, {"U32", "U64", "I32", "I64"}) THEN [u64 |-> m[n].v[1] % 256 ^ 3] ELSE W!Err
        /\ \A ns \in Wants : W!deserialize_fields_projected(b, ns) = Restricted(ns)
        /\ \A cut \in 0 .. Len(b) - 1 :
              LET torn == SubSeq(b, 1, cut) IN
              /\ W!try_deserialize_fields(torn, 0) = W!Err
              /\ W!decodeFields(torn, 0) = W!Err
              /\ \A n \in Asked : W!extract_field(torn, n) \in {Stored(n), W!Err}
              /\ \A ns \in Wants :
                    LET got == W!deserialize_fields_projected(torn, ns) IN
                    \A n \in DOMAIN got : n \in ToSet(ns) \cap DOMAIN m /\ got[n] = m[n]

-----------------------------------------------------------------------------
(* Payloads of both sides.                                                   *)

Small == {<<>>, <<[name |-> <<65>>, value |-> V("I64", <<-2>>)]>>,
          <<[name |-> <<65>>, value |-> V("Null", <<>>)], [name |-> <<>>, value |-> V("String", <<65>>)]>>}
Things == {[type_name |-> t, id |-> i, fields |-> fs, raw_fields |-> <<>>] :
              t \in {<<>>, <<84>>}, i \in {0, 65793}, fs \in Small}

Batch == [type_name : {<<>>, <<84>>}, field_name : {<<86>>},
          rows : UpToTwo([id : {0, 258}, vector : UpToTwo({1, 258})])]
Filters == [type_name : {<<>>, << <<>> >>, << <<84>> >>}, object_id : {<<>>, <<258>>},
            kinds : SUBSET {"Create", "Update", "Delete"}]

Payloads(kind) ==
    CASE kind = "objects" -> UpToTwo(Things)
      [] kind = "scored" -> UpToTwo([object : {o \in Things : o.id = 0}, score : {0, 258}])
      [] kind = "reranked" -> UpToTwo([object : {o \in Things : o.id = 0}, score : {1}, rerank : {<<>>, <<258>>}])
      [] kind = "vectors" -> Batch
      [] kind = "filter" -> Filters
      [] kind = "text" -> {[text |-> t] : t \in {<<>>, <<65>>, <<65, 0, 66>>}}
      [] kind = "id" -> {[id |-> i] : i \in {0, 258, 65535}}
PayloadKinds == {"objects", "scored", "reranked", "vectors", "filter", "text", "id"}

\* An object as the two decoders give it, and without having been looked into.
Decoded(o) == [o EXCEPT !.fields = AsMap(o.fields)]
Lazy(o) == W!from_raw(o.type_name, o.id, W!serialize_fields_into(o.fields))
DecodedTs(o) == [typeName |-> o.type_name, id |-> o.id,
                 fields |-> LET m == AsMap(o.fields) IN [n \in DOMAIN m |-> ReadForm(m[n])]]
BytesOf(rows) == [i \in DOMAIN rows |-> [rows[i] EXCEPT !.object = W!encodeObject(@.type_name, @.id, @.fields)]]
Over(rows, F(_)) == [i \in DOMAIN rows |-> F(rows[i])]
OverObject(rows, F(_)) == [i \in DOMAIN rows |-> [rows[i] EXCEPT !.object = F(@)]]

Refuses(torn, kind) ==
    CASE kind = "objects" -> W!decode_objects_payload(torn) = W!Err /\ W!decodeObjectsPayload(torn) = W!Err
      [] kind = "scored" -> W!decode_scored_payload(torn) = W!Err /\ W!decodeScoredPayload(torn) = W!Err
      [] kind = "reranked" -> W!decode_reranked_payload(torn) = W!Err /\ W!decodeRerankedPayload(torn) = W!Err
      [] kind = "vectors" -> W!decode_vector_batch_payload(torn) = W!Err
      [] kind = "filter" -> W!decode_subscribe_filter(torn) = W!Err
      [] kind = "text" -> W!decode_query_payload(torn) = W!Err /\ W!decodeErrorPayload(torn) = W!Err
      [] kind = "id" -> W!decode_execute_payload(torn) = W!Err /\ W!decodePreparedPayload(torn) = W!Err

BytesFor(kind, of) ==
    CASE kind = "objects" -> W!encode_objects_payload_into(of)
      [] kind = "scored" -> W!encode_scored_payload_into(of)
      [] kind = "reranked" -> W!encode_reranked_payload_into(of)
      [] kind = "vectors" -> W!encode_vector_batch_payload(of)
      [] kind = "filter" -> W!encode_subscribe_filter(of)
      [] kind = "text" -> W!encode_query_payload(of.text)
      [] kind = "id" -> W!encode_execute_payload(of.id)

\* The two implementations write the same bytes for the same message and read
\* each other's: rows keep their order and their scores, a row that was not
\* reranked has no rerank score, an object that was never looked into travels as
\* its stored bytes and arrives the same; a payload cut anywhere is refused.
\* (protocol.rs encode_*_payload, decode_*_payload; wire.ts)
PayloadsExact(it) ==
    it.part = "payload" =>
        LET b == BytesFor(it.kind, it.of) IN
        /\ CASE it.kind = "objects" ->
                    /\ W!decode_objects_payload(b) = [rows |-> Over(it.of, Decoded)]
                    /\ W!encode_objects_payload_into(Over(it.of, Lazy)) = b
                    /\ W!encodeObjectsPayload([i \in DOMAIN it.of |->
                            W!encodeObject(it.of[i].type_name, it.of[i].id, it.of[i].fields)]) = b
                    /\ W!decodeObjectsPayload(b) = [v |-> Over(it.of, DecodedTs)]
             [] it.kind = "scored" ->
                    /\ W!decode_scored_payload(b) = [rows |-> OverObject(it.of, Decoded)]
                    /\ W!encodeScoredPayload(BytesOf(it.of)) = b
                    /\ W!decodeScoredPayload(b) = [v |-> OverObject(it.of, DecodedTs)]
             [] it.kind = "reranked" ->
                    /\ W!decode_reranked_payload(b) = [rows |-> OverObject(it.of, Decoded)]
                    /\ W!encodeRerankedPayload(BytesOf(it.of)) = b
                    /\ W!decodeRerankedPayload(b) = [v |-> OverObject(it.of, DecodedTs)]
             [] it.kind = "vectors" ->
                    W!decode_vector_batch_payload(b) = it.of /\ W!encodeVectorBatchPayload(it.of) = b
             [] it.kind = "filter" ->
                    /\ W!decode_subscribe_filter(b) =
                           [it.of EXCEPT !.type_name = IF @ = << <<>> >> THEN <<>> ELSE @]
                    /\ W!encodeSubscribeFilter(it.of) = b
                    /\ W!decode_subscribe_filter(Append(b, 0)) = W!Err
             [] it.kind = "text" ->
                    /\ W!decode_query_payload(b) = [text |-> it.of.text]
                    /\ W!decode_error_payload(W!encode_error_payload_into(it.of.text)) = [text |-> it.of.text]
                    /\ W!encodeQueryPayload(it.of.text) = b /\ W!encodeErrorPayload(it.of.text) = b
                    /\ W!decodeErrorPayload(b).v = it.of.text
             [] it.kind = "id" ->
                    /\ W!decode_execute_payload(b) = it.of
                    /\ W!decode_prepared_payload(W!encode_prepared_payload_into(it.of.id)) = it.of
                    /\ W!encodeExecutePayload(it.of.id) = b /\ W!encodePreparedPayload(it.of.id) = b
                    /\ W!decodePreparedPayload(b).v = it.of.id
                    /\ W!decode_unsubscribe_payload(W!encode_unsubscribe_payload(it.of.id)) = it.of
                    /\ W!encodeUnsubscribePayload(it.of.id) = W!encode_unsubscribe_payload(it.of.id)
        /\ \A cut \in 0 .. Len(b) - 1 : Refuses(SubSeq(b, 1, cut), it.kind)

-----------------------------------------------------------------------------
(* Frames in pieces: up to three frames, one of them larger than a frame may *)
(* be, cut at two places and ended anywhere.                                 *)

FrameSet == {[req_id |-> 258, kind |-> 3, payload |-> p] : p \in {<<>>, <<0, 5>>, <<7, 8, 9>>, <<0, 0, 0, 0>>}}

Cuts(bytes) ==
    {<<SubSeq(bytes, 1, i), SubSeq(bytes, i + 1, j), SubSeq(bytes, j + 1, n)>> :
        i \in 1 .. 3, j \in 4 .. Len(bytes), n \in {Len(bytes), Len(bytes) - 1}}
\* An empty read is the end of the stream.
Pieces(bytes) == {SelectSeq(c, LAMBDA p : p /= <<>>) : c \in Cuts(bytes)} \cup {[i \in DOMAIN bytes |-> <<bytes[i]>>]}

\* The frames before the end, an incomplete one or one of a bad length.
RECURSIVE AllFrames(_)
AllFrames(stream) ==
    LET r == W!read_frame(stream) IN IF r = W!Err THEN <<>> ELSE <<r.frame>> \o AllFrames(r.rest)
RECURSIVE AllNext(_, _)
AllNext(reader, chunks) ==
    LET r == W!next_frame(reader, chunks) IN
    IF r.got = W!Err THEN <<>> ELSE <<r.got>> \o AllNext(r.reader, r.chunks)
RECURSIVE AllPolled(_, _)
AllPolled(reader, chunks) ==
    LET r == W!poll_next_frame(reader, chunks) IN
    IF r.got = W!Err THEN <<>> ELSE <<r.got>> \o AllPolled(r.reader, r.chunks)
RECURSIVE Drain(_)
Drain(buf) ==
    LET r == W!next(buf) IN
    IF r.got \in {W!Err, W!None} THEN [frames |-> <<>>, buf |-> r.buf]
    ELSE LET d == Drain(r.buf) IN [d EXCEPT !.frames = <<r.got>> \o @]
RECURSIVE AllPushed(_, _)
AllPushed(buf, chunks) ==
    IF chunks = <<>> THEN <<>>
    ELSE LET d == Drain(W!push(buf, chunks[1])) IN d.frames \o AllPushed(d.buf, Tail(chunks))

\* However a stream is cut into reads, each reader gets the frames that are
\* whole in it, in order, up to the first that is larger than a frame may be;
\* and no writer looks: what it writes larger is refused by every reader.
\* (read_frame, FrameReader::next_frame, write_frame_buffered; wire.ts FrameParser)
FramesExact(it) ==
    it.part = "frames" =>
        LET stream == FlattenSeq([i \in DOMAIN it.of |-> W!write_frame(it.of[i])])
            fit(k) == \A i \in 1 .. k : Len(it.of[i].payload) <= 3
            good == CHOOSE k \in 0 .. Len(it.of) : fit(k) /\ (k < Len(it.of) => ~fit(k + 1))
        IN
        /\ \A i \in DOMAIN it.of :
              W!write_frame(it.of[i]) = W!write_frame_buffered(it.of[i])
              /\ W!write_frame(it.of[i]) = W!encodeFrame(it.of[i])
              /\ W!write_frame(it.of[i]) = W!sync_write_frame(it.of[i])
        /\ AllFrames(stream) = SubSeq(it.of, 1, good)
        /\ \A chunks \in Pieces(stream) :
              LET whole == AllFrames(FlattenSeq(chunks)) IN
              /\ Len(whole) >= good - 1
              /\ AllNext(W!FrameReader, chunks) = whole
              /\ AllPolled(W!FrameReader, chunks) = whole
              /\ W!sync_read_frame(FlattenSeq(chunks)) = W!read_frame(FlattenSeq(chunks))
              /\ AllPushed(<<>>, chunks) = whole

-----------------------------------------------------------------------------
Init == case = [part |-> "none"]

PickKey == \E k \in KeyRows : case' = [part |-> "key", of |-> k]
PickRowKind == \E r \in RowNames : case' = [part |-> "rows", row |-> r]
PickRow == \E r \in RowsOf(case.row) : case' = [part |-> "row", row |-> case.row, of |-> r]
PickFields == \E fs \in FieldLists : Distinct(fs) /\ case' = [part |-> "fields", of |-> fs]
PickPayloadKind == \E k \in PayloadKinds : case' = [part |-> "payloads", kind |-> k]
PickPayload == \E p \in Payloads(case.kind) : case' = [part |-> "payload", kind |-> case.kind, of |-> p]
PickFrames == \E n \in 1 .. 3 : \E fs \in [1 .. n -> FrameSet] : case' = [part |-> "frames", of |-> fs]
PickFile == \E f \in Files, part \in {"sst", "nested"} :
    case' = [part |-> "file", of |-> f, for |-> part]

PickEntries ==
    LET keys == IF case.for = "sst" THEN FreeKeys ELSE {<<1>>, <<1, 2>>, <<2>>} IN
    \E es \in SUBSET EntriesOf(keys) :
        LET image == [entries |-> es] @@ case.of
        IN  Opens(image) /\ case' = [part |-> case.for, of |-> image]

Next ==
    \/ case.part = "none" /\ (PickKey \/ PickFile \/ PickRowKind \/ PickFields \/ PickPayloadKind \/ PickFrames)
    \/ case.part = "rows" /\ PickRow
    \/ case.part = "payloads" /\ PickPayload
    \/ case.part = "file" /\ PickEntries
    \/ PickLanguage

Spec == Init /\ [][Next]_case
=============================================================================
