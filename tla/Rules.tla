-------------------------------- MODULE Rules --------------------------------
(***************************************************************************)
(* The access rules (rhypedb-authz/src/rules): the lexer and the parser of  *)
(* a rules file, its compilation against the schema, the three-valued       *)
(* evaluation of a clause, and the accessors of rhypedb-query/src/authz.rs   *)
(* through which a clause reads an object.                                  *)
(*                                                                          *)
(* A text is a sequence of symbols: a word (a run of letters or of digits)  *)
(* or one other character.  A parser takes the tokens and a position and    *)
(* returns a value and the position after it; position 0 is the error.  An  *)
(* optional value is a sequence of at most one.                             *)
(***************************************************************************)
EXTENDS Integers, Sequences, TLC

CONSTANTS
    Digits,         \* the runs of digits
    Number,         \* the texts that f64 accepts, each with its value
    Code,           \* the characters of strings, each with its code
    Schema          \* of each type, of each field: [kind, target, many]

Blank == {" ", "LF"}
Singles == {"{", "}", "(", ")", ":", ";", ",", ".", "!", "<", ">"}
Pairs == {<<"|", "|">>, <<"&", "&">>, <<"=", "=">>, <<"!", "=">>, <<"<", "=">>, <<">", "=">>}
Punct == Blank \cup Singles \cup {"EOF", "|", "&", "=", "#", "/", "\"", "\\", "-", "+"}
Keywords == {<<"match">>, <<"allow">>, <<"if">>, <<"in">>, <<"true">>, <<"false">>, <<"null">>}

Failed == [v |-> <<>>, i |-> 0]
Got(v, i) == [v |-> v, i |-> i]

------------------------------------------------------------------------------
(***************************************************************************)
(* Tokens: [t, v], an operator, a keyword, an identifier, a string, a number. *)
(***************************************************************************)
Tok(t, v) == [t |-> t, v |-> v]
At(s, i) == IF i \in DOMAIN s THEN s[i] ELSE "EOF"

\* The first position from i on whose symbol is not in C, or is in it.
RECURSIVE Past(_, _, _)
Past(s, i, C) == IF At(s, i) \in C THEN Past(s, i + 1, C) ELSE i
RECURSIVE WordEnd(_, _)
WordEnd(s, i) == IF At(s, i) \notin Punct THEN WordEnd(s, i + 1) ELSE i
RECURSIVE LineEnd(_, _)
LineEnd(s, i) == IF At(s, i) \notin {"LF", "EOF"} THEN LineEnd(s, i + 1) ELSE i

Escapes == ("\"" :> "\"") @@ ("\\" :> "\\") @@ ("n" :> "LF") @@ ("t" :> "TAB")

\* The rest of a string and the position after its closing quote.
RECURSIVE decode_str_span(_, _, _)
decode_str_span(s, i, out) ==
    LET c == At(s, i) IN
    CASE c = "EOF" -> Failed
      [] c = "\"" -> Got(out, i + 1)
      [] c = "\\" -> IF At(s, i + 1) \in DOMAIN Escapes THEN decode_str_span(s, i + 2, Append(out, Escapes[At(s, i + 1)])) ELSE Failed
      [] OTHER -> decode_str_span(s, i + 1, Append(out, c))

RECURSIVE Lexed(_, _, _)
Lexed(s, i, out) ==
    LET c == At(s, i)
        two == <<c, At(s, i + 1)>>
        str == decode_str_span(s, i + 1, <<>>)
        num == Past(s, i + 1, Digits \cup {".", "e", "+", "-"})
        word == WordEnd(s, i)
        Span(end) == SubSeq(s, i, end - 1)
        Push(t, v, end) == Lexed(s, end, Append(out, Tok(t, v)))
    IN  CASE i > Len(s) -> Got(out, i)
          [] c \in Blank -> Lexed(s, i + 1, out)
          [] c = "#" \/ two = <<"/", "/">> -> Lexed(s, LineEnd(s, i), out)
          [] two \in Pairs -> Push("op", two, i + 2)
          [] two \notin Pairs /\ c \in Singles -> Push("op", <<c>>, i + 1)
          [] c = "\"" -> IF str.i = 0 THEN Failed ELSE Push("str", str.v, str.i)
          [] c \in Digits \/ (c = "-" /\ two[2] \in Digits) -> IF Span(num) \in DOMAIN Number THEN Push("num", Span(num), num) ELSE Failed
          [] c \notin Punct \cup Digits -> Push(IF Span(word) \in Keywords THEN "key" ELSE "ident", Span(word), word)
          [] OTHER -> Failed
lex(s) == Lexed(s, 1, <<>>)

------------------------------------------------------------------------------
(***************************************************************************)
(* The parser.                                                             *)
(***************************************************************************)
peek(ts, i) == IF i \in DOMAIN ts THEN ts[i] ELSE Tok("end", <<>>)
Op(o) == Tok("op", o)
Keyword(k) == Tok("key", <<k>>)

expect(ts, i, want) == IF i > 0 /\ peek(ts, i) = want THEN i + 1 ELSE 0
ident(ts, i) == IF i > 0 /\ peek(ts, i).t = "ident" THEN Got(peek(ts, i).v, i + 1) ELSE Failed

CompareOps == {Op(o) : o \in {<<"=", "=">>, <<"!", "=">>, <<"<", "=">>, <<">", "=">>, <<"<">>, <<">">>}} \cup {Keyword("in")}

RECURSIVE or(_, _)

\* ident ("." ident)*
RECURSIVE Segments(_, _)
Segments(ts, path) ==
    LET next == ident(ts, expect(ts, path.i, Op(<<".">>)))
    IN  IF expect(ts, path.i, Op(<<".">>)) = 0 THEN path
        ELSE IF next.i = 0 THEN Failed
        ELSE Segments(ts, Got(Append(path.v, next.v), next.i))

primary(ts, i) ==
    LET c == peek(ts, i)
        open == expect(ts, i, Op(<<"(">>))
        inner == or(ts, open)
        path == Segments(ts, Got(<<c.v>>, i + 1))
    IN  CASE i = 0 -> Failed
          [] open > 0 -> Got(inner.v, expect(ts, inner.i, Op(<<")">>)))
          [] c \in {Keyword("null"), Keyword("true"), Keyword("false")} \/ c.t \in {"num", "str"} -> Got([e |-> "lit", lit |-> c], i + 1)
          [] c.t = "ident" -> Got([e |-> "path", segs |-> path.v], path.i)
          [] OTHER -> Failed

RECURSIVE unary(_, _)
unary(ts, i) ==
    LET bang == expect(ts, i, Op(<<"!">>))
        inner == unary(ts, bang)
    IN  IF bang > 0 THEN Got([e |-> "not", a |-> inner.v], inner.i) ELSE primary(ts, i)

cmp(ts, i) ==
    LET lhs == unary(ts, i)
        rhs == unary(ts, lhs.i + 1)
    IN  IF lhs.i > 0 /\ peek(ts, lhs.i) \in CompareOps
        THEN Got([e |-> "cmp", op |-> peek(ts, lhs.i), a |-> lhs.v, b |-> rhs.v], rhs.i)
        ELSE lhs

RECURSIVE AndTail(_, _)
AndTail(ts, lhs) ==
    LET next == expect(ts, lhs.i, Op(<<"&", "&">>))
        rhs == cmp(ts, next)
    IN  IF next = 0 THEN lhs ELSE AndTail(ts, Got([e |-> "and", a |-> lhs.v, b |-> rhs.v], rhs.i))
and(ts, i) == AndTail(ts, cmp(ts, i))

RECURSIVE OrTail(_, _)
OrTail(ts, lhs) ==
    LET next == expect(ts, lhs.i, Op(<<"|", "|">>))
        rhs == and(ts, next)
    IN  IF next = 0 THEN lhs ELSE OrTail(ts, Got([e |-> "or", a |-> lhs.v, b |-> rhs.v], rhs.i))
or(ts, i) == OrTail(ts, and(ts, i))

Verbs == {<<"read">>, <<"create">>, <<"update">>, <<"delete">>, <<"subscribe">>, <<"write">>}

RECURSIVE Ops(_, _, _)
Ops(ts, i, ops) ==
    LET verb == ident(ts, i)
        more == ops \o (IF verb.v = <<"write">> THEN <<"create", "update", "delete">> ELSE verb.v)
        comma == expect(ts, verb.i, Op(<<",">>))
    IN  IF verb.v \notin Verbs THEN Failed
        ELSE IF comma > 0 THEN Ops(ts, comma, more) ELSE Got(more, verb.i)

allow(ts, i) ==
    LET ops == Ops(ts, expect(ts, i, Keyword("allow")), <<>>)
        expr == or(ts, expect(ts, expect(ts, ops.i, Op(<<":">>)), Keyword("if")))
    IN  Got([ops |-> ops.v, expr |-> expr.v], expect(ts, expr.i, Op(<<";">>)))

RECURSIVE Allows(_, _, _)
Allows(ts, i, allows) ==
    LET one == allow(ts, i)
    IN  IF expect(ts, i, Op(<<"}">>)) > 0 THEN Got(allows, i + 1)
        ELSE IF one.i = 0 THEN Failed ELSE Allows(ts, one.i, Append(allows, one.v))

stmt(ts, i) ==
    LET type == ident(ts, expect(ts, i, Keyword("match")))
        allows == Allows(ts, expect(ts, type.i, Op(<<"{">>)), <<>>)
    IN  Got([type |-> type.v, allows |-> allows.v], allows.i)

RECURSIVE Stmts(_, _, _)
Stmts(ts, i, stmts) ==
    LET one == stmt(ts, i)
    IN  IF i > Len(ts) THEN Got(stmts, i)
        ELSE IF one.i = 0 THEN Failed ELSE Stmts(ts, one.i, Append(stmts, one.v))
program(ts) == Stmts(ts, 1, <<>>)

------------------------------------------------------------------------------
(***************************************************************************)
(* Compilation: a path becomes an operand of the type that is matched.     *)
(***************************************************************************)
Bad == [e |-> "err"]

ScalarOf(type, f) == f \in DOMAIN Schema[type] /\ Schema[type][f].kind = "scalar"
RelationOf(type, f) == f \in DOMAIN Schema[type] /\ Schema[type][f].kind = "relation"

compile_path(segs, type) ==
    LET n == Len(segs)
        Request(f) == ScalarOf(type, f) \/ RelationOf(type, f)
        rel == Schema[type][segs[2]]
    IN  CASE n < 2 -> Bad
          [] segs[1] = <<"request">> /\ segs[2] = <<"auth">> ->
                (CASE n = 2 -> [e |-> "auth"]
                   [] n = 3 /\ segs[3] = <<"uid">> -> [e |-> "uid"]
                   [] n >= 3 /\ segs[3] = <<"claims">> -> [e |-> "claim", segs |-> SubSeq(segs, 4, n)]
                   [] OTHER -> Bad)
          [] segs[1] = <<"request">> /\ segs[2] /= <<"auth">> ->
                IF n = 2 /\ Request(segs[2]) THEN [e |-> "request", f |-> segs[2]] ELSE Bad
          [] segs[1] = <<"resource">> /\ n = 2 -> IF ScalarOf(type, segs[2]) THEN [e |-> "scalar", f |-> segs[2]] ELSE Bad
          [] segs[1] = <<"resource">> /\ n = 3 ->
                IF RelationOf(type, segs[2]) /\ rel.target \in DOMAIN Schema /\ ScalarOf(rel.target, segs[3])
                THEN [e |-> IF rel.many THEN "many" ELSE "one", rel |-> segs[2], f |-> segs[3]]
                ELSE Bad
          [] OTHER -> Bad

Null == [e |-> "lit", lit |-> Keyword("null")]

\* request.auth is compared with null only, a to-many projection is only the
\* right side of in.
Comparable(a, op, b) ==
    /\ a.e = "auth" => b = Null
    /\ b.e = "auth" => a = Null
    /\ "auth" \in {a.e, b.e} => op \in {Op(<<"=", "=">>), Op(<<"!", "=">>)}
    /\ a.e /= "many"
    /\ b.e = "many" => op = Keyword("in")

RECURSIVE compile_expr(_, _)
compile_expr(x, type) ==
    LET a == compile_expr(x.a, type)
        b == compile_expr(x.b, type)
    IN  CASE x.e = "lit" -> x
          [] x.e = "path" -> compile_path(x.segs, type)
          [] x.e = "not" -> IF a = Bad THEN Bad ELSE [x EXCEPT !.a = a]
          [] x.e = "cmp" /\ a /= Bad /\ b /= Bad -> IF Comparable(a, x.op, b) THEN [x EXCEPT !.a = a, !.b = b] ELSE Bad
          [] OTHER -> IF a = Bad \/ b = Bad THEN Bad ELSE [x EXCEPT !.a = a, !.b = b]

S == INSTANCE SequencesExt

\* The clauses of one type, in the order of the file; blocks of one type merge.
Clauses(stmts, type, op) ==
    LET Granted(al) == [k \in 1 .. Len(SelectSeq(al.ops, LAMBDA o : o = op)) |-> compile_expr(al.expr, type)]
        OfStmt(s) == IF s.type = type THEN S!FlattenSeq([k \in DOMAIN s.allows |-> Granted(s.allows[k])]) ELSE <<>>
    IN  S!FlattenSeq([k \in DOMAIN stmts |-> OfStmt(stmts[k])])

AllOps == {"read", "create", "update", "delete", "subscribe"}

\* No program at all, if any type or path is unknown.
compile(s) ==
    LET toks == lex(s)
        stmts == program(toks.v)
        types == {stmts.v[k].type : k \in DOMAIN stmts.v}
        sound == \A k \in DOMAIN stmts.v :
                     /\ stmts.v[k].type \in DOMAIN Schema
                     /\ \A j \in DOMAIN stmts.v[k].allows : compile_expr(stmts.v[k].allows[j].expr, stmts.v[k].type) /= Bad
    IN  IF toks.i = 0 \/ stmts.i = 0 THEN <<>>
        ELSE IF ~sound THEN <<>>
        ELSE <<[ty \in types |-> [op \in AllOps |-> Clauses(stmts.v, ty, op)]]>>

------------------------------------------------------------------------------
(***************************************************************************)
(* What a clause reads.  A JSON value is [j, v]: v holds a scalar, the      *)
(* elements of an array or the members of an object.  A resource is the     *)
(* object stored, the one to be created, a change's snapshot or nothing;    *)
(* links are the targets of each relation, or over if they were too many.   *)
(***************************************************************************)
Field(fields, f) == IF f \in DOMAIN fields THEN <<fields[f]>> ELSE <<>>

resource_scalar(res, f) == IF res.is \in {"stored", "snapshot"} THEN Field(res.object, f) ELSE <<>>
request_field(res, f) == IF res.is \in {"stored", "create"} THEN Field(res.request, f) ELSE <<>>

linked_ids(res, rel) == IF res.is /= "stored" \/ res.links[rel].over THEN <<>> ELSE <<res.links[rel].targets>>

\* The target is gone: it has no fields.
target_scalar(target, f) == Field(target, f)

resource_relation_one(res, rel, f) ==
    LET ids == linked_ids(res, rel) IN IF ids \in {<<>>, <<<<>>>>} THEN <<>> ELSE target_scalar(ids[1][1], f)

\* Mutant: a relation that is too large to read has no targets.
resource_relation_manyEmpty(res, rel, f) ==
    LET ids == IF linked_ids(res, rel) = <<>> THEN <<>> ELSE linked_ids(res, rel)[1]
        found == SelectSeq(ids, LAMBDA t : target_scalar(t, f) /= <<>>)
    IN  <<[k \in DOMAIN found |-> target_scalar(found[k], f)[1]]>>
resource_relation_many(res, rel, f) ==
    LET ids == linked_ids(res, rel)
        found == SelectSeq(ids[1], LAMBDA t : target_scalar(t, f) /= <<>>)
    IN  IF ids = <<>> THEN <<>> ELSE <<[k \in DOMAIN found |-> target_scalar(found[k], f)[1]]>>

------------------------------------------------------------------------------
(***************************************************************************)
(* Evaluation.                                                             *)
(***************************************************************************)
RVal(r, v) == [r |-> r, v |-> v]
Absent == RVal("Absent", <<>>)

RECURSIVE json_to_rval(_)
json_to_rval(x) ==
    CASE x.j = "null" -> Absent
      [] x.j = "bool" -> RVal("Bool", x.v)
      [] x.j = "number" -> RVal("Num", x.v)
      [] x.j = "string" -> RVal("Str", x.v)
      [] x.j = "array" -> RVal("Set", [k \in DOMAIN x.v |-> json_to_rval(x.v[k])])
      [] x.j = "object" -> RVal("Present", <<>>)

OrAbsent(option) == IF option = <<>> THEN Absent ELSE json_to_rval(option[1])

RECURSIVE Claim(_, _)
Claim(cur, segs) ==
    CASE segs = <<>> -> json_to_rval(cur)
      [] segs /= <<>> /\ cur.j = "object" -> IF Head(segs) \in DOMAIN cur.v THEN Claim(cur.v[Head(segs)], Tail(segs)) ELSE Absent
      [] OTHER -> Absent

resolve(o, p, res) ==
    CASE o.e = "auth" -> RVal(IF p.authenticated THEN "Present" ELSE "Null", <<>>)
      [] o.e = "uid" -> IF p.uid = <<>> THEN Absent ELSE RVal("Str", p.uid[1])
      [] o.e = "claim" -> Claim(p.claims, o.segs)
      [] o.e = "scalar" -> OrAbsent(resource_scalar(res, o.f))
      [] o.e = "one" -> OrAbsent(resource_relation_one(res, o.rel, o.f))
      [] o.e = "many" -> LET items == resource_relation_many(res, o.rel, o.f)
                         IN  IF items = <<>> THEN Absent ELSE RVal("Set", [k \in DOMAIN items[1] |-> json_to_rval(items[1][k])])
      [] o.e = "request" -> OrAbsent(request_field(res, o.f))

lit_to_rval(lit) ==
    CASE lit = Keyword("null") -> RVal("Null", <<>>)
      [] lit.t = "key" /\ lit /= Keyword("null") -> RVal("Bool", lit.v)
      [] lit.t = "num" -> RVal("Num", <<Number[lit.v]>>)
      [] lit.t = "str" -> RVal("Str", lit.v)

rval_eq(a, b) == a.r = b.r /\ a.r \notin {"Set", "Absent"} /\ a.v = b.v

Less(a, b) ==
    \E n \in 1 .. Len(b) :
        /\ n - 1 <= Len(a) /\ SubSeq(a, 1, n - 1) = SubSeq(b, 1, n - 1)
        /\ n > Len(a) \/ Code[a[n]] < Code[b[n]]

\* The orderings of a and b that can be told: numbers, and strings.
rval_ord(a, b) ==
    LET less(x, y) == IF a.r = "Num" THEN x.v[1] < y.v[1] ELSE Less(x.v, y.v)
    IN  IF a.r /= b.r \/ a.r \notin {"Num", "Str"} THEN "none"
        ELSE IF less(a, b) THEN "<" ELSE IF less(b, a) THEN ">" ELSE "="

from_bool(b) == IF b THEN "True" ELSE "False"
not(t) == CASE t = "True" -> "False" [] t = "False" -> "True" [] t = "Unknown" -> "Unknown"

Compares(op, a, b) ==
    CASE op = Op(<<"=", "=">>) -> rval_eq(a, b)
      [] op = Op(<<"!", "=">>) -> ~rval_eq(a, b)
      [] op = Op(<<"<">>) -> rval_ord(a, b) = "<"
      [] op = Op(<<"<", "=">>) -> rval_ord(a, b) \in {"<", "="}
      [] op = Op(<<">">>) -> rval_ord(a, b) = ">"
      [] op = Op(<<">", "=">>) -> rval_ord(a, b) \in {">", "="}
      [] op = Keyword("in") -> b.r = "Set" /\ \E k \in DOMAIN b.v : rval_eq(a, b.v[k])

RECURSIVE eval_tri(_, _, _)

\* A boolean expression is its truth, and nothing if that is unknown.
value_of(x, p, res) ==
    CASE x.e = "lit" -> lit_to_rval(x.lit)
      [] x.e \in {"not", "and", "or", "cmp"} ->
            LET t == eval_tri(x, p, res) IN IF t = "Unknown" THEN Absent ELSE RVal("Bool", IF t = "True" THEN <<"true">> ELSE <<"false">>)
      [] OTHER -> resolve(x, p, res)

eval_cmp(x, p, res) ==
    LET a == value_of(x.a, p, res)
        b == value_of(x.b, p, res)
    IN  IF "Absent" \in {a.r, b.r} THEN "Unknown" ELSE from_bool(Compares(x.op, a, b))

Truth(v) ==
    CASE v.r = "Bool" -> from_bool(v.v = <<"true">>)
      [] v.r = "Present" -> "True"
      [] v.r = "Null" -> "False"
      [] OTHER -> "Unknown"

eval_tri(x, p, res) ==
    LET a == eval_tri(x.a, p, res)
        b == eval_tri(x.b, p, res)
    IN  CASE x.e = "not" -> not(a)
          [] x.e = "and" -> IF "False" \in {a, b} THEN "False" ELSE IF a = b THEN a ELSE "Unknown"
          [] x.e = "or" -> IF "True" \in {a, b} THEN "True" ELSE IF a = b THEN a ELSE "Unknown"
          [] x.e = "cmp" -> eval_cmp(x, p, res)
          [] x.e = "lit" -> Truth(lit_to_rval(x.lit))
          [] OTHER -> Truth(resolve(x, p, res))

eval_bool(x, p, res) == eval_tri(x, p, res) = "True"

evaluate(types, op, type, p, res) ==
    type \in DOMAIN types /\ \E k \in DOMAIN types[type][op] : eval_bool(types[type][op][k], p, res)

has_clause(types, op, type) == type \in DOMAIN types /\ types[type][op] /= <<>>

------------------------------------------------------------------------------
(***************************************************************************)
(* The grammar read as a way to write rules.                               *)
(***************************************************************************)
Words == {"key", "ident", "num"}
TokenText(tok) ==
    IF tok.t /= "str" THEN tok.v
    ELSE <<"\"">> \o S!FlattenSeq([k \in DOMAIN tok.v |-> IF tok.v[k] \in {"\"", "\\"} THEN <<"\\", tok.v[k]>> ELSE <<tok.v[k]>>]) \o <<"\"">>

\* Between two tokens stands the gap, and at least a blank between two words.
Text(ts, gap) ==
    LET Gap(k) == IF k = Len(ts) \/ gap /= <<>> THEN gap
                  ELSE IF ts[k].t \in Words /\ ts[k + 1].t \in Words THEN <<" ">> ELSE <<>>
    IN  S!FlattenSeq([k \in DOMAIN ts |-> TokenText(ts[k]) \o Gap(k)])

Separated(items, sep) == S!FlattenSeq([k \in DOMAIN items |-> IF k = 1 THEN items[k] ELSE <<sep>> \o items[k]])

RECURSIVE ExprTokens(_)
ExprTokens(x) ==
    LET In(y, kinds) == IF y.e \in kinds THEN <<Op(<<"(">>)>> \o ExprTokens(y) \o <<Op(<<")">>)>> ELSE ExprTokens(y)
    IN  CASE x.e = "or" -> In(x.a, {}) \o <<Op(<<"|", "|">>)>> \o In(x.b, {"or"})
          [] x.e = "and" -> In(x.a, {"or"}) \o <<Op(<<"&", "&">>)>> \o In(x.b, {"or", "and"})
          [] x.e = "cmp" -> In(x.a, {"or", "and", "cmp"}) \o <<x.op>> \o In(x.b, {"or", "and", "cmp"})
          [] x.e = "not" -> <<Op(<<"!">>)>> \o In(x.a, {"or", "and", "cmp"})
          [] x.e = "lit" -> <<x.lit>>
          [] x.e = "path" -> Separated([k \in DOMAIN x.segs |-> <<Tok("ident", x.segs[k])>>], Op(<<".">>))

ProgramTokens(prog) ==
    LET AllowTokens(al) ==
            <<Keyword("allow")>> \o Separated([k \in DOMAIN al.verbs |-> <<Tok("ident", <<al.verbs[k]>>)>>], Op(<<",">>))
            \o <<Op(<<":">>), Keyword("if")>> \o ExprTokens(al.expr) \o <<Op(<<";">>)>>
    IN  S!FlattenSeq([k \in DOMAIN prog |->
            <<Keyword("match"), Tok("ident", prog[k].type), Op(<<"{">>)>>
            \o S!FlattenSeq([j \in DOMAIN prog[k].allows |-> AllowTokens(prog[k].allows[j])]) \o <<Op(<<"}">>)>>])

Expanded(verbs) == S!FlattenSeq([k \in DOMAIN verbs |-> IF verbs[k] = "write" THEN <<"create", "update", "delete">> ELSE <<verbs[k]>>])

\* A program that is written out, with the fewest parentheses that its
\* precedence allows and with any blanks or comments between its tokens, is
\* read as itself: a negation binds tighter than a comparison, that tighter
\* than a conjunction, and write stands for its three operations.  (parse.rs)
RulesReparsed(prog, gap) ==
    LET toks == lex(Text(ProgramTokens(prog), gap))
        stmts == program(toks.v)
    IN  /\ toks.v = ProgramTokens(prog)
        /\ stmts.i > 0
        /\ stmts.v = [k \in DOMAIN prog |->
                         [type |-> prog[k].type,
                          allows |-> [j \in DOMAIN prog[k].allows |->
                                         [ops |-> Expanded(prog[k].allows[j].verbs), expr |-> prog[k].allows[j].expr]]]]

\* Of two worlds, a principal and a resource each, the second tells more: what
\* the first knows of the claims, the fields and the relations it knows as well.
\* auth, many: whether it may also know the identity, and what the first could
\* not read of a to-many relation's targets.
FieldsKnown(fields) == {f \in DOMAIN fields : fields[f].j /= "null"}
FieldsTell(fields, fields2) == \A f \in FieldsKnown(fields) : f \in DOMAIN fields2 /\ fields[f] = fields2[f]
StoredOf(res) == IF res.is \in {"stored", "snapshot"} THEN res.object ELSE <<>>
RequestOf(res) == IF res.is \in {"stored", "create"} THEN res.request ELSE <<>>
ClaimsTell(c, c2) == c.j = "null" \/ c = c2 \/ (c.j = "object" /\ c2.j = "object" /\ FieldsTell(c.v, c2.v))

TargetsTell(ts, ts2) == Len(ts) = Len(ts2) /\ \A k \in DOMAIN ts : FieldsTell(ts[k], ts2[k])
LinksTell(l, l2, toMany, many) ==
    \/ l.over
    \/ l = l2
    \/ /\ ~l2.over /\ (toMany => many)
       /\ TargetsTell(l.targets, l2.targets) \/ (~toMany /\ l.targets = <<>>)

TellsMore(w, w2, type, auth, many) ==
    /\ w.p.authenticated = w2.p.authenticated \/ (auth /\ ~w.p.authenticated)
    /\ w.p.uid \in {<<>>, w2.p.uid}
    /\ ClaimsTell(w.p.claims, w2.p.claims)
    /\ FieldsTell(StoredOf(w.res), StoredOf(w2.res))
    /\ FieldsTell(RequestOf(w.res), RequestOf(w2.res))
    /\ w.res.is = "stored" =>
           /\ w2.res.is = "stored"
           /\ \A rel \in DOMAIN w.res.links :
                  LinksTell(w.res.links[rel], w2.res.links[rel], Schema[type][rel].many, many)

RECURSIVE Reads(_, _)
Reads(x, operand) ==
    CASE x.e = "not" -> Reads(x.a, operand)
      [] x.e \in {"and", "or", "cmp"} -> Reads(x.a, operand) \/ Reads(x.b, operand)
      [] OTHER -> x.e = operand

\* A to-many relation is read only to look for a member, and its absence there
\* is turned into nothing else.
RECURSIVE OnlySeeks(_)
OnlySeeks(x) ==
    \/ ~Reads(x, "many")
    \/ x.e \in {"and", "or"} /\ OnlySeeks(x.a) /\ OnlySeeks(x.b)
    \/ x.e = "cmp" /\ x.op = Keyword("in") /\ ~Reads(x.a, "many")

\* What is missing never decides in favour: a clause that grants while a field,
\* a claim, the caller's uid, a to-one link or a relation too large to read is
\* missing grants also when that is known, whatever it is and however the clause
\* is negated and nested.  Two things are facts to a clause and not gaps.  That
\* the caller is anonymous, to a clause that reads request.auth.  And which
\* targets of a to-many relation have the field: one that is gone or lacks it is
\* no member, so only a clause that looks for a member, and does not deny one,
\* keeps its answer when the target's value is known.  (eval_tri, eval_cmp and
\* value_of over the accessors)
AbsenceNeverGrants(x, more) ==
    LET granted == {w \in DOMAIN more : eval_bool(x, w.p, w.res)}
    IN  \A w \in granted : more[w][~Reads(x, "auth")][OnlySeeks(x)] \subseteq granted

==============================================================================
