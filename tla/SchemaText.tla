------------------------------ MODULE SchemaText -----------------------------
(***************************************************************************)
(* The schema language (rhypedb-schema/src): the parser, the validation of  *)
(* a parsed schema, the emitter that writes a live schema back into the     *)
(* language for exports and for the schema endpoint, and the change of one  *)
(* field's type that a completed migration makes in the live schema.        *)
(*                                                                          *)
(* A text is a sequence of symbols: a word (a run of letters or of digits,  *)
(* "__" being one of its own) or one other character.  A parser returns a   *)
(* value and the position after it; position 0 is the error.  An optional   *)
(* value is a sequence of at most one.                                      *)
(***************************************************************************)
EXTENDS Integers, Sequences, TLC
S == INSTANCE SequencesExt

CONSTANTS
    Numeral,        \* the runs of digits, each with its value
    U32_MAX

Blank == {" ", "LF"}
Punct == Blank \cup {"EOF", "{", "}", "[", "]", "(", ")", "<", ">", ":", ",", ".", "@", "/", "\""}
Scalars == {"String", "u32", "u64", "i32", "i64", "f32", "f64", "Bool", "DateTime", "Bytes", "Json"}
Metrics == {"cosine", "l2", "dot_product"}
Quantizations == {"turboquant_2bit", "turboquant_3bit", "turboquant_4bit", "none"}
KNOWN_ANALYZERS == {"simple", "english"}

Failed == [v |-> <<>>, i |-> 0]
Got(v, i) == [v |-> v, i |-> i]
peek(s, i) == IF i \in DOMAIN s THEN s[i] ELSE "EOF"

------------------------------------------------------------------------------
(***************************************************************************)
(* Words.                                                                  *)
(***************************************************************************)
RECURSIVE PastLine(_, _)
PastLine(s, i) == IF peek(s, i) \in {"LF", "EOF"} THEN i ELSE PastLine(s, i + 1)

RECURSIVE skip_whitespace(_, _)
skip_whitespace(s, i) ==
    CASE peek(s, i) \in Blank -> skip_whitespace(s, i + 1)
      [] peek(s, i) = "/" /\ peek(s, i + 1) = "/" -> skip_whitespace(s, PastLine(s, i))
      [] OTHER -> i

expect(s, i, c) == LET j == skip_whitespace(s, i) IN IF peek(s, j) = c THEN j + 1 ELSE 0

RECURSIVE WordEnd(_, _)
WordEnd(s, i) == IF peek(s, i) \notin Punct THEN WordEnd(s, i + 1) ELSE i
parse_ident(s, i) ==
    LET a == skip_whitespace(s, i)
        b == WordEnd(s, a)
    IN  IF b = a THEN Failed ELSE Got(SubSeq(s, a, b - 1), b)

parse_u32(s, i) ==
    LET a == skip_whitespace(s, i)
    IN  IF peek(s, a) \in DOMAIN Numeral
        THEN IF Numeral[s[a]] <= U32_MAX THEN Got(Numeral[s[a]], a + 1) ELSE Failed
        ELSE Failed

\* One of the given words.
Choice(s, i, words) ==
    LET w == parse_ident(s, i) IN IF w.i > 0 /\ Len(w.v) = 1 /\ w.v[1] \in words THEN Got(w.v[1], w.i) ELSE Failed

parse_bool_value(s, i) ==
    LET w == Choice(s, i, {"true", "false"}) IN IF w.i = 0 THEN Failed ELSE Got(w.v = "true", w.i)

RECURSIVE Quoted(_, _, _)
Quoted(s, i, out) ==
    CASE peek(s, i) = "EOF" -> Failed
      [] peek(s, i) = "\"" -> Got(out, i + 1)
      [] OTHER -> Quoted(s, i + 1, Append(out, s[i]))
parse_string_value(s, i) == LET a == expect(s, i, "\"") IN IF a = 0 THEN Failed ELSE Quoted(s, a, <<>>)

------------------------------------------------------------------------------
(***************************************************************************)
(* Field types: [k |-> "scalar", s], [k |-> "vector", dims] and             *)
(* [k |-> "relation", target, many, edges].                                 *)
(***************************************************************************)
Relation(target, many) == [k |-> "relation", target |-> target, many |-> many, edges |-> <<>>]
parse_scalar_type(name) == IF Len(name) = 1 /\ name[1] \in Scalars THEN <<name[1]>> ELSE <<>>

parse_field_type(s, i) ==
    LET array == expect(s, i, "[")
        name == parse_ident(s, IF array > 0 THEN array ELSE i)
        dims == parse_u32(s, expect(s, name.i, "<"))
    IN  CASE name.i = 0 -> Failed
          [] array > 0 -> Got(Relation(name.v, TRUE), expect(s, name.i, "]"))
          [] name.v = <<"Vector">> -> Got([k |-> "vector", dims |-> dims.v], expect(s, dims.i, ">"))
          [] parse_scalar_type(name.v) /= <<>> -> Got([k |-> "scalar", s |-> name.v[1]], name.i)
          [] OTHER -> Got(Relation(name.v, FALSE), name.i)

RECURSIVE EdgeFields(_, _, _)
EdgeFields(s, i, edges) ==
    LET close == expect(s, i, "}")
        name == parse_ident(s, i)
        type == Choice(s, expect(s, name.i, ":"), Scalars)
        comma == expect(s, type.i, ",")
    IN  IF close > 0 THEN Got(edges, close)
        ELSE IF type.i = 0 THEN Failed
        ELSE EdgeFields(s, IF comma > 0 THEN comma ELSE type.i, Append(edges, [name |-> name.v, s |-> type.v]))
parse_edge_fields(s, i) == EdgeFields(s, expect(s, i, "{"), <<>>)

------------------------------------------------------------------------------
(***************************************************************************)
(* Directives.                                                             *)
(***************************************************************************)
\* The parameters of an index; the last value of a key counts.
RECURSIVE IndexParams(_, _, _)
IndexParams(s, i, def) ==
    LET close == expect(s, i, ")")
        key == Choice(s, expect(s, i, ","), {"metric", "quantization", "m", "ef_construction"})
        at == expect(s, key.i, ":")
        value == CASE key.v = "metric" -> Choice(s, at, Metrics)
                   [] key.v = "quantization" -> Choice(s, at, Quantizations)
                   [] OTHER -> parse_u32(s, at)
    IN  IF close > 0 THEN Got(def, close)
        ELSE IF key.i = 0 THEN Failed
        ELSE IF value.i = 0 THEN Failed
        ELSE IndexParams(s, value.i, [def EXCEPT ![key.v] = <<value.v>>])

\* A comma stands before every parameter but the first that is given.
Separated(s, i, given) == IF given THEN expect(s, i, ",") ELSE i

RECURSIVE VectorizeParams(_, _, _)
VectorizeParams(s, i, def) ==
    LET close == expect(s, i, ")")
        key == Choice(s, Separated(s, i, def.source /= <<>> \/ def.model /= <<>>), {"source", "model"})
        value == parse_string_value(s, expect(s, key.i, ":"))
    IN  IF close > 0 THEN Got(def, IF def.source = <<>> \/ def.model = <<>> THEN 0 ELSE close)
        ELSE IF value.i = 0 THEN Failed
        ELSE VectorizeParams(s, value.i, [def EXCEPT ![key.v] = <<value.v>>])

\* Each parameter at most once, and a known analyzer.
RECURSIVE FulltextParams(_, _, _, _)
FulltextParams(s, i, def, seen) ==
    LET close == expect(s, i, ")")
        key == Choice(s, Separated(s, i, seen /= {}), {"analyzer", "positions"} \ seen)
        at == expect(s, key.i, ":")
        name == parse_string_value(s, at)
        flag == parse_bool_value(s, at)
    IN  IF close > 0 THEN Got(def, close)
        ELSE IF key.i = 0 THEN Failed
        ELSE IF key.v = "analyzer"
             THEN IF name.i = 0 \/ Len(name.v) /= 1 THEN Failed
                  ELSE IF name.v[1] \notin KNOWN_ANALYZERS THEN Failed
                  ELSE FulltextParams(s, name.i, [def EXCEPT !.analyzer = name.v[1]], seen \cup {"analyzer"})
             ELSE IF flag.i = 0 THEN Failed ELSE FulltextParams(s, flag.i, [def EXCEPT !.positions = flag.v], seen \cup {"positions"})

DefaultFulltext == [d |-> "fulltext", analyzer |-> "simple", positions |-> TRUE]

parse_directive(s, i) ==
    LET name == parse_ident(s, i)
        open == expect(s, name.i, "(")
        policy == Choice(s, open, {"remove", "cascade", "deny"})
        type == parse_ident(s, open)
        field == parse_ident(s, expect(s, type.i, "."))
        hnsw == Choice(s, open, {"hnsw"})
    IN  CASE name.v = <<"unique">> -> Got([d |-> "unique"], name.i)
          [] name.v = <<"indexed">> -> Got([d |-> "indexed"], name.i)
          [] name.v = <<"on_delete">> -> Got([d |-> "on_delete", policy |-> policy.v], expect(s, policy.i, ")"))
          [] name.v = <<"inverse">> -> Got([d |-> "inverse", type |-> type.v, field |-> field.v], expect(s, field.i, ")"))
          [] name.v = <<"index">> ->
                IF hnsw.i = 0 THEN Failed
                ELSE IndexParams(s, hnsw.i, [d |-> "index", metric |-> <<>>, quantization |-> <<>>, m |-> <<>>, ef_construction |-> <<>>])
          [] name.v = <<"vectorize">> ->
                IF open = 0 THEN Failed ELSE VectorizeParams(s, open, [d |-> "vectorize", source |-> <<>>, model |-> <<>>])
          [] name.v = <<"fulltext">> ->
                IF open = 0 THEN Got(DefaultFulltext, name.i) ELSE FulltextParams(s, open, DefaultFulltext, {})
          [] OTHER -> Failed

------------------------------------------------------------------------------
(***************************************************************************)
(* Fields, types and the schema: a function from type names to the fields   *)
(* in the order of their declaration.                                       *)
(***************************************************************************)
RECURSIVE Directives(_, _, _)
Directives(s, i, directives) ==
    LET sign == expect(s, i, "@")
        d == parse_directive(s, sign)
    IN  CASE i = 0 -> Failed
          [] i > 0 /\ sign = 0 -> Got(directives, skip_whitespace(s, i))
          [] OTHER -> Directives(s, d.i, Append(directives, d.v))

parse_field_def(s, i) ==
    LET name == parse_ident(s, i)
        type == parse_field_type(s, expect(s, name.i, ":"))
        edges == parse_edge_fields(s, type.i)
        with == IF type.v.k = "relation" /\ expect(s, type.i, "{") > 0
                THEN Got([type.v EXCEPT !.edges = edges.v], edges.i)
                ELSE type
        directives == Directives(s, with.i, <<>>)
    IN  IF type.i = 0 THEN Failed
        ELSE Got([name |-> name.v, type |-> with.v, directives |-> directives.v], directives.i)

RECURSIVE FieldDefs(_, _, _)
FieldDefs(s, i, fields) ==
    LET close == expect(s, i, "}")
        field == parse_field_def(s, i)
    IN  IF close > 0 THEN Got(fields, close)
        ELSE IF field.i = 0 THEN Failed
        ELSE FieldDefs(s, field.i, Append(fields, field.v))
parse_type_def(s, i) ==
    LET keyword == Choice(s, i, {"type"})
        name == parse_ident(s, keyword.i)
        fields == FieldDefs(s, expect(s, name.i, "{"), <<>>)
    IN  Got([name |-> name.v, fields |-> fields.v], fields.i)

\* A field, and the first directive of a kind: sequences of at most one.
get_field(fields, name) == LET at == SelectSeq(fields, LAMBDA f : f.name = name) IN SubSeq(at, 1, IF at = <<>> THEN 0 ELSE 1)
Given(field, d) == LET at == SelectSeq(field.directives, LAMBDA x : x.d = d) IN SubSeq(at, 1, IF at = <<>> THEN 0 ELSE 1)
IsString(field) == field.type = [k |-> "scalar", s |-> "String"]

VectorizeValid(field, fields) ==
    LET source == get_field(fields, Given(field, "vectorize")[1].source[1])
    IN  /\ field.type.k = "vector"
        /\ source /= <<>> /\ IsString(source[1])
IndexValid(field) ==
    LET def == Given(field, "index")[1]
    IN  /\ field.type.k = "vector"
        /\ def.quantization /= <<"none">> /\ def.m /= <<0>> /\ def.ef_construction /= <<0>>
InverseValid(field, schema) ==
    LET inv == Given(field, "inverse")[1]
    IN  inv.type \in DOMAIN schema /\ get_field(schema[inv.type], inv.field) /= <<>>

validate_schema(schema) ==
    \A t \in DOMAIN schema : \A i \in DOMAIN schema[t] :
        LET field == schema[t][i]
        IN  /\ \A j \in 1 .. i - 1 : schema[t][j].name /= field.name
            /\ "__" \notin S!ToSet(field.name)
            /\ field.type.k = "relation" => field.type.target \in DOMAIN schema
            /\ Given(field, "vectorize") /= <<>> => VectorizeValid(field, schema[t])
            /\ Given(field, "indexed") /= <<>> => field.type.k = "scalar" /\ field.type /= [k |-> "scalar", s |-> "Json"]
            /\ Len(SelectSeq(field.directives, LAMBDA d : d.d = "fulltext")) <= 1
            /\ Given(field, "fulltext") /= <<>> => IsString(field)
            /\ Given(field, "index") /= <<>> => IndexValid(field)
            /\ Given(field, "inverse") /= <<>> => InverseValid(field, schema)

RECURSIVE Types(_, _, _)
Types(s, i, types) ==
    LET def == parse_type_def(s, i)
    IN  CASE i > Len(s) -> Got(types, i)
          [] i <= Len(s) /\ def.i = 0 -> Failed
          [] OTHER -> IF def.v.name \in DOMAIN types THEN Failed
                      ELSE Types(s, skip_whitespace(s, def.i), types @@ (def.v.name :> def.v.fields))
parse_schema(s) ==
    LET parsed == Types(s, skip_whitespace(s, 1), <<>>)
    IN  IF parsed.i = 0 THEN Failed ELSE IF validate_schema(parsed.v) THEN parsed ELSE Failed

------------------------------------------------------------------------------
(***************************************************************************)
(* The emitter.  A run of blanks is one; the types come in a fixed order.   *)
(***************************************************************************)
Decimal(n) == CHOOSE w \in DOMAIN Numeral : Numeral[w] = n
Joined(parts, sep) == S!FlattenSeq([i \in DOMAIN parts |-> IF i = 1 THEN parts[i] ELSE sep \o parts[i]])
Pair(key, value) == key \o <<":", " ">> \o value
Str(text) == <<"\"">> \o text \o <<"\"">>

emit_field_type(type) ==
    CASE type.k = "scalar" -> <<type.s>>
      [] type.k = "vector" -> <<"Vector", "<", Decimal(type.dims), ">">>
      [] type.k = "relation" ->
            (IF type.many THEN <<"[">> \o type.target \o <<"]">> ELSE type.target)
            \o (IF type.edges = <<>> THEN <<>>
                ELSE <<" ", "{", " ">>
                     \o Joined([i \in DOMAIN type.edges |-> Pair(type.edges[i].name, <<type.edges[i].s>>)], <<",", " ">>)
                     \o <<" ", "}">>)

\* A parameter of an index, when it is given.
Param(key, value) == IF value = <<>> THEN <<>> ELSE <<",", " ">> \o Pair(<<key>>, value)
emit_index(d) ==
    <<"@", "index", "(", "hnsw">>
    \o Param("metric", d.metric) \o Param("quantization", d.quantization)
    \o Param("m", [i \in DOMAIN d.m |-> Decimal(d.m[i])])
    \o Param("ef_construction", [i \in DOMAIN d.ef_construction |-> Decimal(d.ef_construction[i])])
    \o <<")">>

emit_directive(d) ==
    CASE d.d \in {"unique", "indexed"} -> <<"@", d.d>>
      [] d.d = "on_delete" -> <<"@", "on_delete", "(", d.policy, ")">>
      [] d.d = "inverse" -> <<"@", "inverse", "(">> \o d.type \o <<".">> \o d.field \o <<")">>
      [] d.d = "index" -> emit_index(d)
      [] d.d = "vectorize" ->
            <<"@", "vectorize", "(">> \o Pair(<<"source">>, Str(d.source[1])) \o <<",", " ">>
            \o Pair(<<"model">>, Str(d.model[1])) \o <<")">>
      [] d.d = "fulltext" ->
            <<"@", "fulltext", "(">> \o Pair(<<"analyzer">>, Str(<<d.analyzer>>)) \o <<",", " ">>
            \o Pair(<<"positions">>, <<IF d.positions THEN "true" ELSE "false">>) \o <<")">>

emit_field(field) ==
    Joined(<<Pair(field.name, emit_field_type(field.type))>>
           \o [i \in DOMAIN field.directives |-> emit_directive(field.directives[i])], <<" ">>)
emit_type(name, fields) ==
    <<"type", " ">> \o name \o <<" ", "{", "LF">>
    \o S!FlattenSeq([i \in DOMAIN fields |-> <<" ">> \o emit_field(fields[i]) \o <<"LF">>])
    \o <<"}", "LF">>
emit_schema(schema) ==
    LET names == S!SetToSeq(DOMAIN schema)
    IN  Joined([i \in DOMAIN names |-> emit_type(names[i], schema[names[i]])], <<"LF">>)

------------------------------------------------------------------------------
(***************************************************************************)
(* The references: a schema as a person may write it, with the parameters   *)
(* that have defaults left out, the others in another order, and a gap      *)
(* (blanks or a comment) before every sign.                                 *)
(***************************************************************************)
Shortened(d) ==
    CASE d.d = "fulltext" ->
            IF d = DefaultFulltext THEN <<"@", "fulltext">>
            ELSE <<"@", "fulltext", "(">>
                 \o Joined((IF d.positions THEN <<>> ELSE <<<<"positions", ":", "false">>>>)
                           \o (IF d.analyzer = "simple" THEN <<>> ELSE <<<<"analyzer", ":">> \o Str(<<d.analyzer>>)>>), <<",">>)
                 \o <<")">>
      [] d.d = "vectorize" ->
            <<"@", "vectorize", "(", "model", ":">> \o Str(d.model[1]) \o <<",", "source", ":">> \o Str(d.source[1]) \o <<")">>
      [] OTHER -> emit_directive(d)
Spaced(text, gap) ==
    S!FlattenSeq([i \in DOMAIN text |-> IF text[i] \in {"{", "}", "@", ":", "("} THEN gap \o <<text[i]>> ELSE <<text[i]>>])
Written(schema, gap) ==
    LET names == S!Reverse(S!SetToSeq(DOMAIN schema))
        line(f) == f.name \o <<":">> \o emit_field_type(f.type)
                   \o S!FlattenSeq([i \in DOMAIN f.directives |-> Shortened(f.directives[i])])
    IN  gap \o Spaced(Joined([i \in DOMAIN names |->
                 <<"type", " ">> \o names[i] \o <<"{">>
                 \o Joined([j \in DOMAIN schema[names[i]] |-> line(schema[names[i]][j])], <<" ">>)
                 \o <<"}">>], <<>>), gap)

\* A schema that parses is the one written, and what the emitter writes of it
\* parses to the same schema.
SchemaReparsed(schema, gap) ==
    LET parsed == parse_schema(Written(schema, gap))
    IN  parsed.i > 0 => parsed.v = schema /\ parse_schema(emit_schema(schema)).v = schema

==============================================================================
