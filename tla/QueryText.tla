------------------------------ MODULE QueryText ------------------------------
(***************************************************************************)
(* The query language: rhypedb-query/src/parser.rs, a recursive descent    *)
(* over the text of a query, and the string builders of the clients that   *)
(* write such texts (rhypedb-client/src/query.rs and the TypeScript         *)
(* query.ts).                                                               *)
(*                                                                          *)
(* A text is a sequence of symbols: a word (a run of letters or of digits)  *)
(* or one character that is neither.  A parser takes the text and a         *)
(* position and returns a value and the position after it.  Position 0 is   *)
(* the error: nothing can be read from it, so it is passed on.              *)
(***************************************************************************)
EXTENDS Integers, Sequences, TLC

CONSTANTS
    Numeral,        \* the runs of digits, each with its value
    I64_MAX,
    JsonTexts       \* the texts that serde_json accepts

Blank == {" ", "LF", "TAB"}
Punct == Blank \cup {"EOF", ".", ",", ":", "(", ")", "{", "}", "[", "]", "\"", "\\", "-", "+", "=", "!", "<", ">", "|", "&"}
Digits == DOMAIN Numeral

Failed == [v |-> <<>>, i |-> 0]
Got(v, i) == [v |-> v, i |-> i]

------------------------------------------------------------------------------
(***************************************************************************)
(* Symbols and words.                                                      *)
(***************************************************************************)
peek(s, i) == IF i \in DOMAIN s THEN s[i] ELSE "EOF"

RECURSIVE skip_ws(_, _)
skip_ws(s, i) == IF peek(s, i) \in Blank THEN skip_ws(s, i + 1) ELSE i

expect_char(s, i, c) == LET j == skip_ws(s, i) IN IF peek(s, j) = c THEN j + 1 ELSE 0

starts_with(s, i, t) == i > 0 /\ i + Len(t) - 1 <= Len(s) /\ SubSeq(s, i, i + Len(t) - 1) = t

expect_str(s, i, t) == LET j == skip_ws(s, i) IN IF starts_with(s, j, t) THEN j + Len(t) ELSE 0

RECURSIVE WordEnd(_, _)
WordEnd(s, i) == IF peek(s, i) \notin Punct THEN WordEnd(s, i + 1) ELSE i

parse_ident(s, i) ==
    LET a == skip_ws(s, i)
        b == WordEnd(s, a)
    IN  IF b = a THEN Failed ELSE Got(SubSeq(s, a, b - 1), b)

Negated(s, i) == peek(s, i) = "-"
PastSign(s, i) == IF Negated(s, i) THEN i + 1 ELSE i
PastDigits(s, i) == IF peek(s, i) \in Digits THEN i + 1 ELSE i

\* str::parse::<i64> of a sign and a run of digits.
i64(neg, digits) == IF neg THEN -Numeral[digits] ELSE Numeral[digits]
FitsI64(n) == n \in -(I64_MAX + 1) .. I64_MAX

parse_int(s, i) ==
    LET a == skip_ws(s, i)
        b == PastSign(s, a)
    IN  IF peek(s, b) \notin Digits THEN Failed
        ELSE LET n == i64(Negated(s, a), s[b]) IN IF FitsI64(n) THEN Got(n, b + 1) ELSE Failed

parse_count(s, i) == LET n == parse_int(s, i) IN IF n.i > 0 /\ n.v < 0 THEN Failed ELSE n

as_u64(n) == IF n < 0 THEN n + 2 * (I64_MAX + 1) ELSE n

------------------------------------------------------------------------------
(***************************************************************************)
(* Literals: [l, n, v], where n is an integer's value and v the symbols of  *)
(* any other.                                                               *)
(***************************************************************************)
Literal(l, n, v) == [l |-> l, n |-> n, v |-> v]

\* An exponent counts only if a digit follows.
PastExponent(s, i) ==
    LET sign == IF peek(s, i + 1) \in {"+", "-"} THEN i + 2 ELSE i + 1
    IN  IF peek(s, i) = "e" /\ peek(s, sign) \in Digits THEN sign + 1 ELSE i

parse_number(s, i) ==
    LET a == skip_ws(s, i)
        whole == PastSign(s, a)
        point == PastDigits(s, whole)
        fraction == IF peek(s, point) = "." THEN PastDigits(s, point + 1) ELSE point
        end == PastExponent(s, fraction)
        digits == peek(s, whole) \in Digits \/ fraction > point + 1
        int == parse_int(s, a)
    IN  IF end = point THEN Got(Literal("int", int.v, <<>>), int.i)
        ELSE IF digits THEN Got(Literal("float", 0, SubSeq(s, a, end - 1)), end)
        ELSE Failed

Escapes == ("\"" :> "\"") @@ ("\\" :> "\\") @@ ("n" :> "LF") @@ ("t" :> "TAB") @@ ("r" :> "CR")

\* A backslash before any other character stays, and so does the character.
RECURSIVE Unescaped(_, _, _)
Unescaped(s, i, out) ==
    LET c == peek(s, i)
        e == peek(s, i + 1)
    IN  CASE c = "EOF" -> Failed
          [] c = "\"" -> Got(out, i + 1)
          [] c = "\\" /\ e = "EOF" -> Failed
          [] c = "\\" /\ e \in DOMAIN Escapes -> Unescaped(s, i + 2, Append(out, Escapes[e]))
          [] c = "\\" -> Unescaped(s, i + 2, out \o <<c, e>>)
          [] OTHER -> Unescaped(s, i + 1, Append(out, c))

parse_string_literal(s, i) ==
    LET a == expect_char(s, i, "\"") IN IF a = 0 THEN Failed ELSE Unescaped(s, a, <<>>)

\* The position after the bracket that closes the first one; brackets inside a
\* string do not count.
RECURSIVE Balanced(_, _, _, _, _)
Balanced(s, i, depth, in_string, escaped) ==
    LET c == peek(s, i) IN
    CASE c = "EOF" -> 0
      [] in_string -> Balanced(s, i + 1, depth, escaped \/ c /= "\"", ~escaped /\ c = "\\")
      [] c = "\"" -> Balanced(s, i + 1, depth, TRUE, FALSE)
      [] c \in {"{", "["} -> Balanced(s, i + 1, depth + 1, FALSE, FALSE)
      [] c \in {"}", "]"} -> IF depth = 1 THEN i + 1 ELSE Balanced(s, i + 1, depth - 1, FALSE, FALSE)
      [] OTHER -> Balanced(s, i + 1, depth, FALSE, FALSE)

parse_json_container(s, i) ==
    LET a == skip_ws(s, i)
        end == Balanced(s, a, 0, FALSE, FALSE)
    IN  IF end > 0 /\ SubSeq(s, a, end - 1) \in JsonTexts THEN Got(SubSeq(s, a, end - 1), end) ELSE Failed

As(l, r) == IF r.i = 0 THEN Failed ELSE Got(Literal(l, 0, r.v), r.i)

parse_literal(s, i) ==
    LET a == skip_ws(s, i)
        c == peek(s, a)
    IN  CASE c = "\"" -> As("string", parse_string_literal(s, a))
          [] c \in {"{", "["} -> As("json", parse_json_container(s, a))
          [] c \in Digits \cup {"-"} -> parse_number(s, a)
          [] c \in {"true", "false"} -> Got(Literal("bool", 0, <<c>>), a + 1)
          [] c = "null" -> Got(Literal("null", 0, <<>>), a + 1)
          [] OTHER -> Failed

OptionalComma(s, i) == LET j == skip_ws(s, i) IN IF peek(s, j) = "," THEN j + 1 ELSE j

\* A field that is named twice has the later value.
RECURSIVE Fields(_, _, _)
Fields(s, i, fields) ==
    LET name == parse_ident(s, i)
        value == parse_literal(s, expect_char(s, name.i, ":"))
    IN  IF expect_char(s, i, "}") > 0 THEN Got(fields, expect_char(s, i, "}"))
        ELSE IF value.i = 0 THEN Failed
        ELSE Fields(s, OptionalComma(s, value.i), (name.v :> value.v) @@ fields)

parse_object(s, i) == Fields(s, expect_char(s, i, "{"), <<>>)

RECURSIVE Numbers(_, _, _)
Numbers(s, i, values) ==
    LET value == parse_number(s, i)
    IN  IF expect_char(s, i, "]") > 0 THEN Got(values, expect_char(s, i, "]"))
        ELSE IF value.i = 0 THEN Failed
        ELSE Numbers(s, OptionalComma(s, value.i), Append(values, value.v))

parse_vector_literal(s, i) == Numbers(s, expect_char(s, i, "["), <<>>)

------------------------------------------------------------------------------
(***************************************************************************)
(* Predicates.                                                             *)
(***************************************************************************)
Operators == {<<"=", "=">>, <<"!", "=">>, <<"<", "=">>, <<">", "=">>, <<"<">>, <<">">>}
Contains == <<".", "contains", "(">>

\* The longest operator that the text starts with.
parse_compare_op(s, i) ==
    LET a == skip_ws(s, i)
        here == {op \in Operators : starts_with(s, a, op)}
    IN  IF here = {} THEN Failed
        ELSE LET op == CHOOSE o \in here : \A p \in here : Len(p) <= Len(o) IN Got(op, a + Len(op))

\* A dot goes on with the path only if what follows the next name is an
\* operator or the call of contains.
RECURSIVE FieldPath(_, _)
FieldPath(s, f) ==
    LET next == parse_ident(s, f.i + 1)
        ahead == skip_ws(s, next.i)
        named == peek(s, f.i) = "." /\ peek(s, f.i + 1) \notin Punct \cup Digits
        method == next.v = <<"contains">> /\ peek(s, next.i) = "("
        followed == parse_compare_op(s, ahead).i > 0 \/ starts_with(s, ahead, Contains)
    IN  IF named /\ ~method /\ followed THEN FieldPath(s, Got(Append(f.v, next.v), ahead)) ELSE f

parse_predicate_atom(s, i) ==
    LET f == parse_ident(s, expect_char(s, i, "."))
        path == FieldPath(s, Got(<<f.v>>, f.i))
        here == skip_ws(s, path.i)
        needle == parse_string_literal(s, here + Len(Contains))
        op == parse_compare_op(s, here)
        value == parse_literal(s, op.i)
    IN  IF starts_with(s, here, Contains)
        THEN Got([p |-> "contains", path |-> path.v, needle |-> needle.v], expect_char(s, needle.i, ")"))
        ELSE Got([p |-> "compare", path |-> path.v, op |-> op.v, value |-> value.v], value.i)

\* The position after the first connective that is here, and 0 if none is.
Connective(s, i, texts) ==
    LET a == skip_ws(s, i)
        here == {t \in texts : starts_with(s, a, t)}
    IN  IF here = {} THEN 0 ELSE a + Len(CHOOSE t \in here : TRUE)
Node(p, left, right) == Got([p |-> p, a |-> left.v, b |-> right.v], right.i)

RECURSIVE parse_predicate(_, _)
parse_predicate_factor(s, i) ==
    LET inner == parse_predicate(s, expect_char(s, i, "("))
    IN  IF expect_char(s, i, "(") > 0 THEN Got(inner.v, expect_char(s, inner.i, ")")) ELSE parse_predicate_atom(s, i)

RECURSIVE AndTail(_, _)
AndTail(s, left) ==
    LET next == Connective(s, left.i, {<<"&", "&">>, <<"and", " ">>})
    IN  IF next = 0 THEN left ELSE AndTail(s, Node("and", left, parse_predicate_factor(s, next)))
parse_and_term(s, i) == AndTail(s, parse_predicate_factor(s, i))

\* Mutant: what follows an "or" is a whole predicate, so "or" is right-associative.
OrTailRight(s, left) ==
    LET next == Connective(s, left.i, {<<"|", "|">>, <<"or", " ">>})
    IN  IF next = 0 THEN left ELSE Node("or", left, parse_predicate(s, next))
RECURSIVE OrTail(_, _)
OrTail(s, left) ==
    LET next == Connective(s, left.i, {<<"|", "|">>, <<"or", " ">>})
    IN  IF next = 0 THEN left ELSE OrTail(s, Node("or", left, parse_and_term(s, next)))
parse_predicate(s, i) == IF i = 0 THEN Failed ELSE OrTail(s, parse_and_term(s, i))

------------------------------------------------------------------------------
(***************************************************************************)
(* Sources and steps.                                                      *)
(***************************************************************************)
None == -1

\* The optional ef and rerank of a similar step, each at most once.
RECURSIVE Params(_, _, _)
Params(s, i, ps) ==
    LET a == expect_char(s, i, ",")
        name == parse_ident(s, a)
        n == parse_count(s, expect_char(s, name.i, ":"))
        which == IF name.v = <<"ef">> THEN "ef" ELSE "rerank"
    IN  IF a = 0 THEN Got(ps, i)
        ELSE IF expect_char(s, a, ")") > 0 THEN Got(ps, a)
        ELSE IF n.i = 0 \/ name.v \notin {<<"ef">>, <<"rerank">>} THEN Failed
        ELSE IF ps[which] /= None \/ (which = "ef" /\ n.v = 0) THEN Failed
        ELSE Params(s, n.i, [ps EXCEPT ![which] = n.v])

\* IDENT.get(INT), the target of a link.
Target(s, i) ==
    LET type == parse_ident(s, i)
        id == parse_int(s, expect_char(s, expect_str(s, expect_char(s, type.i, "."), <<"get">>), "("))
        end == expect_char(s, id.i, ")")
    IN  IF end = 0 THEN Failed ELSE Got([type |-> type.v, id |-> as_u64(id.v)], end)

Text(s, i) == LET t == parse_string_literal(s, i) IN Got([text |-> t.v, vector |-> <<>>], t.i)
Vector(s, i) == LET t == parse_vector_literal(s, i) IN Got([text |-> <<>>, vector |-> t.v], t.i)

\* (field, query, k: N of a similar or a matches step.
Ranked(s, i, vectors) ==
    LET field == parse_ident(s, expect_char(s, i, "."))
        a == skip_ws(s, expect_char(s, field.i, ","))
        query == IF peek(s, a) = "\"" THEN Text(s, a) ELSE IF vectors THEN Vector(s, a) ELSE Failed
        k == parse_count(s, expect_str(s, expect_char(s, query.i, ","), <<"k", ":">>))
    IN  IF k.i = 0 THEN Failed ELSE Got([field |-> field.v, query |-> query.v, k |-> k.v], k.i)

\* A comma before the closing parenthesis is let pass.
TrailingComma(s, i) ==
    LET a == expect_char(s, i, ",") IN IF a > 0 /\ expect_char(s, a, ")") > 0 THEN a ELSE i

parse_function_step(s, i, name) ==
    LET in == expect_char(s, i, "(")
        Closed(st, i2) == Got(st, expect_char(s, i2, ")"))
    IN  CASE name = <<"filter">> -> LET p == parse_predicate(s, in) IN Closed([st |-> "filter", predicate |-> p.v], p.i)
          [] name = <<"similar">> ->
                LET r == Ranked(s, in, TRUE)
                    ps == Params(s, r.i, [ef |-> None, rerank |-> None])
                IN  Closed([st |-> "similar", ranked |-> r.v, params |-> ps.v], ps.i)
          [] name = <<"matches">> -> LET r == Ranked(s, in, FALSE) IN Closed([st |-> "matches", ranked |-> r.v], TrailingComma(s, r.i))
          [] name = <<"update">> -> LET o == parse_object(s, in) IN Closed([st |-> "update", fields |-> o.v], o.i)
          [] name = <<"delete">> -> Closed([st |-> "delete"], in)
          [] name = <<"link">> ->
                LET t == Target(s, in)
                    a == expect_char(s, t.i, ",")
                    o == IF a > 0 THEN parse_object(s, a) ELSE Got(<<>>, t.i)
                IN  Closed([st |-> "link", target |-> t.v, fields |-> o.v], o.i)
          [] name = <<"unlink">> -> LET t == Target(s, in) IN Closed([st |-> "unlink", target |-> t.v], t.i)
          [] name \in {<<"limit">>, <<"offset">>} -> LET n == parse_count(s, in) IN Closed([st |-> name[1], count |-> n.v], n.i)
          [] OTHER -> Failed

\* The rows of a create_batch; a comma may precede the closing bracket.
RECURSIVE Rows(_, _, _)
Rows(s, i, rows) ==
    LET row == parse_object(s, i)
        comma == expect_char(s, row.i, ",")
    IN  IF expect_char(s, i, "]") > 0 THEN Got(rows, expect_char(s, i, "]"))
        ELSE IF row.i = 0 THEN Failed
        ELSE IF comma > 0 THEN Rows(s, comma, Append(rows, row.v))
        ELSE Got(Append(rows, row.v), expect_char(s, row.i, "]"))

parse_source(s, i) ==
    LET type == parse_ident(s, i)
        method == parse_ident(s, expect_char(s, type.i, "."))
        in == expect_char(s, method.i, "(")
        Closed(src, i2) == Got(src, expect_char(s, i2, ")"))
    IN  CASE expect_char(s, type.i, ".") = 0 -> Got([src |-> "all", type |-> type.v], type.i)
          [] method.v = <<"get">> -> LET n == parse_int(s, in) IN Closed([src |-> "get", type |-> type.v, id |-> IF n.i = 0 THEN 0 ELSE as_u64(n.v)], n.i)
          [] method.v = <<"filter">> -> LET p == parse_predicate(s, in) IN Closed([src |-> "filter", type |-> type.v, predicate |-> p.v], p.i)
          [] method.v = <<"create">> -> LET o == parse_object(s, in) IN Closed([src |-> "create", type |-> type.v, fields |-> o.v], o.i)
          [] method.v = <<"create_batch">> -> LET r == Rows(s, expect_char(s, in, "["), <<>>) IN Closed([src |-> "create_batch", type |-> type.v, rows |-> r.v], r.i)
          [] method.i = 0 -> Failed
          [] OTHER -> Got([src |-> "all", type |-> type.v], type.i)

\* An offset after a limit on the same rows is refused.
RECURSIVE Steps(_, _, _, _)
Steps(s, i, steps, saw_limit) ==
    LET ident == parse_ident(s, expect_char(s, i, "."))
        open == expect_char(s, ident.i, "(")
        step == IF open > 0 THEN parse_function_step(s, ident.i, ident.v)
                ELSE Got([st |-> "traverse", field |-> ident.v], ident.i)
    IN  IF expect_char(s, i, ".") = 0 THEN Got(steps, i)
        ELSE IF step.i = 0 \/ (step.v.st = "offset" /\ saw_limit) THEN Failed
        ELSE Steps(s, step.i, Append(steps, step.v),
                   (saw_limit \/ step.v.st = "limit") /\ step.v.st \notin {"traverse", "similar", "matches"})

parse_query(s) ==
    LET source == parse_source(s, 1)
        steps == Steps(s, source.i, <<>>, FALSE)
    IN  IF steps.i > 0 /\ skip_ws(s, steps.i) = Len(s) + 1 THEN Got([source |-> source.v, steps |-> steps.v], steps.i)
        ELSE Failed

------------------------------------------------------------------------------
(***************************************************************************)
(* The builders of the clients.                                            *)
(***************************************************************************)
S == INSTANCE SequencesExt

Replaced(t, c, by) == S!FlattenSeq([k \in DOMAIN t |-> IF t[k] = c THEN by ELSE <<t[k]>>])
Quoted(t) == <<"\"">> \o t \o <<"\"">>

\* One pass over the characters (Rust), and one pass for each (TypeScript).
ql_string_literal(t) ==
    Quoted(S!FlattenSeq([k \in DOMAIN t |-> IF t[k] \in {"\"", "\\"} THEN <<"\\", t[k]>> ELSE <<t[k]>>]))
qlStringLiteral(t) == Quoted(Replaced(Replaced(t, "\\", <<"\\", "\\">>), "\"", <<"\\", "\"">>))

Decimal(n) == LET digits(m) == <<CHOOSE d \in Digits : Numeral[d] = m>> IN IF n < 0 THEN <<"-">> \o digits(-n) ELSE digits(n)

all(type) == type
get(type, id) == type \o <<".", "get", "(">> \o Decimal(id) \o <<")">>
filter(q, predicate) == q \o <<".", "filter", "(">> \o predicate \o <<")">>
limit(q, n) == q \o <<".", "limit", "(">> \o Decimal(n) \o <<")">>
matches(q, field, literal, k) ==
    q \o <<".", "matches", "(", ".">> \o field \o <<",", " ">> \o literal \o <<",", " ", "k", ":", " ">> \o Decimal(k) \o <<")">>

------------------------------------------------------------------------------
(***************************************************************************)
(* The grammar read as a way to write queries: gap is the space between two *)
(* symbols where the grammar allows one, and words chooses "and" and "or".  *)
(***************************************************************************)
SpelledLiteral(x) ==
    CASE x.l = "string" -> ql_string_literal(x.v)
      [] x.l = "int" -> Decimal(x.n)
      [] x.l = "null" -> <<"null">>
      [] OTHER -> x.v

Listed(items, gap) ==
    S!FlattenSeq([k \in DOMAIN items |-> IF k = Len(items) THEN items[k] ELSE items[k] \o gap \o <<",">> \o gap])

SpelledObject(fields, gap) ==
    LET names == S!SetToSeq(DOMAIN fields)
    IN  <<"{">> \o gap
        \o Listed([k \in DOMAIN names |-> names[k] \o gap \o <<":">> \o gap \o SpelledLiteral(fields[names[k]])], gap)
        \o gap \o <<"}">>

Path(path) == S!FlattenSeq([k \in DOMAIN path |-> <<".">> \o path[k]])

RECURSIVE SpelledPredicate(_, _)
SpelledPredicate(p, style) ==
    LET In(x, kinds) == IF x.p \in kinds THEN <<"(">> \o SpelledPredicate(x, style) \o <<")">> ELSE SpelledPredicate(x, style)
        gap == style.gap
        or == IF style.words THEN <<" ", "or", " ">> ELSE gap \o <<"|", "|">> \o gap
        and == IF style.words THEN <<" ", "and", " ">> ELSE gap \o <<"&", "&">> \o gap
    IN  CASE p.p = "or" -> In(p.a, {}) \o or \o In(p.b, {"or"})
          [] p.p = "and" -> In(p.a, {"or"}) \o and \o In(p.b, {"or", "and"})
          [] p.p = "contains" -> Path(p.path) \o <<".", "contains", "(">> \o gap \o ql_string_literal(p.needle) \o gap \o <<")">>
          [] p.p = "compare" -> Path(p.path) \o gap \o p.op \o gap \o SpelledLiteral(p.value)

SpelledRanked(r, gap) ==
    <<".">> \o r.field \o <<",">> \o gap
    \o (IF r.query.vector = <<>> THEN ql_string_literal(r.query.text)
         ELSE <<"[">> \o Listed([k \in DOMAIN r.query.vector |-> SpelledLiteral(r.query.vector[k])], gap) \o <<"]">>)
    \o <<",">> \o gap \o <<"k", ":">> \o gap \o Decimal(r.k)
SpelledParam(name, n, gap) == IF n = None THEN <<>> ELSE <<",">> \o gap \o <<name, ":">> \o gap \o Decimal(n)

SpelledStep(x, style) ==
    LET gap == style.gap
        Call(args) == <<x.st>> \o gap \o <<"(">> \o gap \o args \o gap \o <<")">>
    IN  <<".">> \o gap \o
        CASE x.st = "traverse" -> x.field
          [] x.st = "filter" -> Call(SpelledPredicate(x.predicate, style))
          [] x.st = "similar" -> Call(SpelledRanked(x.ranked, gap) \o SpelledParam("rerank", x.params.rerank, gap) \o SpelledParam("ef", x.params.ef, gap))
          [] x.st = "matches" -> Call(SpelledRanked(x.ranked, gap))
          [] x.st = "update" -> Call(SpelledObject(x.fields, gap))
          [] x.st = "delete" -> Call(<<>>)
          [] x.st = "link" -> Call(get(x.target.type, x.target.id) \o <<",">> \o SpelledObject(x.fields, gap))
          [] x.st = "unlink" -> Call(get(x.target.type, x.target.id))
          [] OTHER -> Call(Decimal(x.count))

SpelledSource(x, style) ==
    LET gap == style.gap
        Call(args) == x.type \o <<".", x.src>> \o gap \o <<"(">> \o gap \o args \o gap \o <<")">>
    IN  CASE x.src = "all" -> all(x.type)
          [] x.src = "get" -> get(x.type, x.id)
          [] x.src = "filter" -> Call(SpelledPredicate(x.predicate, style))
          [] x.src = "create" -> Call(SpelledObject(x.fields, gap))
          [] x.src = "create_batch" -> Call(<<"[">> \o gap \o Listed([k \in DOMAIN x.rows |-> SpelledObject(x.rows[k], gap)], gap) \o gap \o <<"]">>)

Spelled(q, style) ==
    SpelledSource(q.source, style) \o S!FlattenSeq([k \in DOMAIN q.steps |-> style.gap \o SpelledStep(q.steps[k], style)])

\* What the language can say: an offset is not after a limit on the same rows,
\* a width is positive, an id is an i64, a predicate's path has one name or two,
\* and the first field is not named like a source.
RECURSIVE Paths(_)
Paths(p) == IF p.p \in {"and", "or"} THEN Paths(p.a) \cup Paths(p.b) ELSE {p.path}
ShortPaths(x) == \A path \in Paths(x.predicate) : Len(path) <= 2
PagesForward(steps) ==
    \A j, k \in DOMAIN steps :
        j < k /\ steps[j].st = "limit" /\ steps[k].st = "offset" => \E m \in j .. k : steps[m].st \in {"traverse", "similar", "matches"}
Expressible(q) ==
    /\ PagesForward(q.steps)
    /\ \A k \in DOMAIN q.steps : q.steps[k].st = "similar" => q.steps[k].params.ef /= 0
    /\ \A k \in DOMAIN q.steps : q.steps[k].st = "filter" => ShortPaths(q.steps[k])
    /\ q.source.src = "filter" => ShortPaths(q.source)
    /\ q.source.src = "get" => q.source.id <= I64_MAX
    /\ q.source.src = "all" /\ q.steps /= <<>> /\ q.steps[1].st = "traverse" => q.steps[1].field \notin {<<"get">>, <<"filter">>, <<"create">>}

\* A query that is written out, with the fewest parentheses that its precedence
\* allows and any spacing but a blank after the words and and or, parses back to
\* itself; what the language cannot say is refused, never read as another query.  This is parser.rs as a whole: the
\* precedence and associativity of its connectives, the dots that may go on
\* with a path, a step or a call, the brackets and quotes inside literals.
QueryReparsed(q, style) ==
    LET r == parse_query(Spelled(q, style)) IN IF Expressible(q) THEN r.i > 0 /\ r.v = q ELSE r.i = 0

\* Whatever the text searched for, the query that either client builds for it
\* is the search for that text: what ql_string_literal and qlStringLiteral
\* escape is what parse_string_literal reads.
BuiltReparsed(text, n) ==
    \A literal \in {ql_string_literal(text), qlStringLiteral(text)} :
        LET r == parse_query(limit(matches(filter(all(<<"T">>), <<".", "f", "=", "=">> \o literal), <<"f">>, literal, n), n))
            equals == [p |-> "compare", path |-> <<<<"f">>>>, op |-> <<"=", "=">>, value |-> Literal("string", 0, text)]
            ranked == [field |-> <<"f">>, query |-> [text |-> text, vector |-> <<>>], k |-> n]
        IN  /\ r.i > 0
            /\ r.v = [source |-> [src |-> "filter", type |-> <<"T">>, predicate |-> equals],
                      steps |-> <<[st |-> "matches", ranked |-> ranked], [st |-> "limit", count |-> n]>>]

==============================================================================
