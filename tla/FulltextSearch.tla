--------------------------- MODULE FulltextSearch ---------------------------
(***************************************************************************)
(* Full-text search: the analysis of texts, the query language of          *)
(* .matches, the collection of postings and their ranking                  *)
(* (crates/rhypedb-engine/src/fulltext/, fulltext_candidates in            *)
(* database.rs).                                                           *)
(*                                                                         *)
(* A word is a sequence of letters, a text a sequence of words.            *)
(* A query is a sequence of items: bare words or a phrase, perhaps         *)
(* required (+), bare words perhaps a prefix (a star).  A corpus is a      *)
(* function from object ids to texts.                                      *)
(***************************************************************************)
EXTENDS Integers, Sequences, FiniteSets, FiniteSetsExt, SequencesExt, Functions, TLC

CONSTANTS
    StopWord,           \* words that the english analyzer drops
    Stem,               \* its stemmer, a function on words
    MaxWords,           \* MAX_ANALYZED_WORDS
    MaxTerm,            \* MAX_TERM_BYTES
    MinPrefix,          \* MIN_PREFIX_CHARS
    MaxQueryTerms,      \* MAX_QUERY_TERMS
    MaxPhrase,          \* MAX_PHRASE_TERMS
    MaxExpansion,       \* MAX_PREFIX_EXPANSION
    MaxExpansionScan,   \* MAX_PREFIX_EXPANSION_SCAN
    ScanChunk           \* POSTING_SCAN_CHUNK

-----------------------------------------------------------------------------
(* Analysis (analyzer.rs, posting.rs).                                     *)

Drop == <<>>    \* no word

fold(analyzer, word, keep_stop_words) ==
    IF analyzer = "simple" THEN word
    ELSE IF ~keep_stop_words /\ word \in StopWord THEN Drop
    ELSE Stem[word]

\* The words of a text that are analyzed: the first MaxWords of them.
unicode_words(text) == SubSeq(text, 1, Min({Len(text), MaxWords}))

\* Tokens by position: a word that is dropped, or too long, keeps its position.
analyze_words(analyzer, text, keep_stop_words) ==
    LET words == unicode_words(text)
        term(p) == fold(analyzer, words[p + 1], keep_stop_words)
    IN  [p \in {p \in 0 .. Len(words) - 1 : Len(term(p)) \in 1 .. MaxTerm} |-> term(p)]

tokenize_for_index(cfg, text) ==
    LET tokens == analyze_words(cfg.analyzer, text, FALSE)
    IN  [len |-> Cardinality(DOMAIN tokens),
         terms |-> [t \in Range(tokens) |-> {p \in DOMAIN tokens : tokens[p] = t}]]

encode_posting(cfg, len, at) ==
    [len |-> len, tf |-> Cardinality(at), at |-> IF cfg.positions THEN at ELSE {}]

-----------------------------------------------------------------------------
(* parse_query.                                                            *)

Failed(why) == [err |-> why]
IsErr(r) == "err" \in DOMAIN r

Term(t, required) == [terms |-> <<t>>, required |-> required, prefix |-> FALSE, offsets |-> <<>>]
Prefix(t, required) == [Term(t, required) EXCEPT !.prefix = TRUE]
is_phrase(clause) == Len(clause.terms) > 1

\* Terms of an analyzed text in order.
InOrder(tokens) ==
    LET at == SetToSortSeq(DOMAIN tokens, <)
    IN  [i \in DOMAIN at |-> tokens[at[i]]]

\* Positions relative to the first word that is kept.
Offsets(tokens) ==
    LET at == SetToSortSeq(DOMAIN tokens, <)
    IN  [i \in DOMAIN at |-> at[i] - at[1]]

PhraseClauses(item, tokens) ==
    IF item.star THEN Failed("PrefixInPhrase")
    ELSE IF Cardinality(DOMAIN tokens) > MaxPhrase THEN Failed("PhraseTooLong")
    ELSE IF tokens = <<>> THEN [clauses |-> <<>>]
    ELSE [clauses |-> <<[terms |-> InOrder(tokens), required |-> item.plus, prefix |-> FALSE,
                         offsets |-> IF Cardinality(DOMAIN tokens) > 1 THEN Offsets(tokens)
                                     ELSE <<>>]>>]

\* The last word before a star is the prefix: no clause if it is a stop word.
BareClauses(item, tokens, analyzer) ==
    LET plain(ts) == [i \in DOMAIN ts |-> Term(ts[i], item.plus)]
        words == InOrder(tokens)
        kept == analyze_words(analyzer, item.words, TRUE)
        last == Max(DOMAIN kept)
    IN  IF ~item.star THEN [clauses |-> plain(words)]
        ELSE IF kept = <<>> THEN Failed("PrefixTooShort")
        ELSE IF last \notin DOMAIN tokens THEN [clauses |-> plain(words)]
        ELSE IF Len(kept[last]) < MinPrefix THEN Failed("PrefixTooShort")
        ELSE [clauses |-> Append(plain(Front(words)), Prefix(kept[last], item.plus))]

ParseItem(item, analyzer) ==
    LET tokens == analyze_words(analyzer, item.words, FALSE)
    IN  IF item.quote = "open" THEN Failed("UnterminatedPhrase")
        ELSE IF item.quote = "closed" THEN PhraseClauses(item, tokens)
        ELSE BareClauses(item, tokens, analyzer)

TermCount(clauses) == FoldLeft(LAMBDA n, c : n + Len(c.terms), 0, clauses)

StopWordsIn(item, analyzer) ==
    Cardinality({i \in DOMAIN unicode_words(item.words) : fold(analyzer, item.words[i], FALSE) = Drop})

parse_query(query, analyzer) ==
    LET step(acc, item) ==
            LET parsed == ParseItem(item, analyzer)
                all == acc.clauses \o parsed.clauses
            IN  IF IsErr(acc) THEN acc
                ELSE IF IsErr(parsed) THEN parsed
                ELSE IF TermCount(all) > MaxQueryTerms THEN Failed("TooManyTerms")
                ELSE [clauses |-> all, dropped |-> acc.dropped + StopWordsIn(item, analyzer)]
        parsed == FoldLeft(step, [clauses |-> <<>>, dropped |-> 0], query)
    IN  IF ~IsErr(parsed) /\ parsed.clauses = <<>> /\ parsed.dropped = 0
        THEN Failed("NoSearchableTerms")
        ELSE parsed

needs_positions(clauses) == \E i \in DOMAIN clauses : is_phrase(clauses[i])

\* Posting keys in the order first seen; a prefix is told from a term.
distinct_terms(clauses) ==
    LET keys(c) == [i \in DOMAIN c.terms |-> [term |-> c.terms[i], prefix |-> c.prefix]]
        add(acc, k) == IF Contains(acc, k) THEN acc ELSE Append(acc, k)
    IN  FoldLeft(LAMBDA acc, c : FoldLeft(add, acc, keys(c)), <<>>, clauses)

-----------------------------------------------------------------------------
(* fulltext_candidates: the postings of every term, within limits.         *)

\* The f: rows of a corpus: a function from terms to functions from ids.
Index(cfg, corpus) ==
    LET doc == [o \in DOMAIN corpus |-> tokenize_for_index(cfg, corpus[o])]
        holders(t) == {o \in DOMAIN corpus : t \in DOMAIN doc[o].terms}
    IN  [t \in UNION {DOMAIN doc[o].terms : o \in DOMAIN corpus} |->
            [o \in holders(t) |-> encode_posting(cfg, doc[o].len, doc[o].terms[t])]]

\* Rows under a posting key, term by term; objects in deleted left tombstones.
RowsUnder(index, deleted, key) ==
    LET terms == {t \in DOMAIN index : IF key.prefix THEN IsPrefix(key.term, t) ELSE key.term = t}
        rows(t) == LET ids == SetToSortSeq(DOMAIN index[t], <)
                   IN  [i \in DOMAIN ids |-> [term |-> t, id |-> ids[i], live |-> ids[i] \notin deleted,
                                              posting |-> index[t][ids[i]]]]
    IN  FoldLeft(LAMBDA acc, t : acc \o rows(t), <<>>, SetToSeq(terms))

Unlimited == 1000000

\* The caller's visit of one row: opens the group of a new term within the cap,
\* and charges the positions of a phrase word before they are decoded.
Visit(acc, row, key, phrase, limits) ==
    LET cap == IF limits.defer THEN MaxExpansionScan ELSE MaxExpansion
        opens == row.term /= acc.term
        scanned == acc.scanned + (IF phrase THEN row.posting.tf ELSE 0)
        posting == IF phrase THEN row.posting ELSE [row.posting EXCEPT !.at = {}]
    IN  IF IsErr(acc) \/ ~row.live THEN acc
        ELSE IF key.prefix /\ opens /\ Len(acc.lists) >= cap THEN Failed("PrefixCap")
        ELSE IF scanned > limits.max_postings THEN Failed("ScanBudget")
        ELSE [scanned |-> scanned, term |-> row.term,
              lists |-> IF opens THEN Append(acc.lists, row.id :> posting)
                        ELSE Append(Front(acc.lists), Last(acc.lists) @@ row.id :> posting)]

RECURSIVE scan_fulltext_postings(_, _, _, _, _)
\* Chunks shrink to what remains of the budget; a chunk is charged, tombstones
\* and all, before its rows are visited.
scan_fulltext_postings(rows, acc, key, phrase, limits) ==
    LET remaining == IF limits.max_postings > acc.scanned THEN limits.max_postings - acc.scanned ELSE 0
        want == Min({remaining + 1, ScanChunk, Len(rows)})
        charged == [acc EXCEPT !.scanned = @ + want]
        visited == FoldLeft(LAMBDA a, row : Visit(a, row, key, phrase, limits), charged,
                            SubSeq(rows, 1, want))
    IN  IF rows = <<>> THEN acc
        ELSE IF charged.scanned > limits.max_postings THEN Failed("ScanBudget")
        ELSE IF IsErr(visited) THEN visited
        ELSE scan_fulltext_postings(SubSeq(rows, want + 1, Len(rows)), visited, key, phrase, limits)

\* One list of groups per key: a single group for a term.
fulltext_candidates(cfg, state, index, deleted, query, limits) ==
    LET parsed == parse_query(query, cfg.analyzer)
        phrase(key) == \E i \in DOMAIN parsed.clauses :
                          is_phrase(parsed.clauses[i]) /\ Contains(parsed.clauses[i].terms, key.term)
        collect(acc, key) ==
            LET found == scan_fulltext_postings(RowsUnder(index, deleted, key),
                            [scanned |-> acc.scanned, term |-> Drop, lists |-> <<>>],
                            key, phrase(key) /\ ~key.prefix, limits)
            IN  IF IsErr(acc) THEN acc
                ELSE IF IsErr(found) THEN found
                ELSE [scanned |-> found.scanned, lists |-> key :> found.lists @@ acc.lists]
        found == FoldLeft(collect, [scanned |-> 0, lists |-> <<>>], distinct_terms(parsed.clauses))
    IN  IF state /= "built" THEN Failed("IndexBuilding")
        ELSE IF IsErr(parsed) THEN parsed
        ELSE IF needs_positions(parsed.clauses) /\ ~cfg.positions THEN Failed("PhraseNeedsPositions")
        ELSE IF IsErr(found) THEN found
        ELSE [clauses |-> parsed.clauses, lists |-> found.lists, scanned |-> found.scanned]

candidate_ids(found) ==
    UNION {UNION {DOMAIN list : list \in Range(found.lists[key])} : key \in DOMAIN found.lists}

-----------------------------------------------------------------------------
(* Ranking (candidates.rs, search.rs).                                     *)

Sum(list) == FoldLeft(LAMBDA a, x : a + x, 0, list)

\* Terms that occur in a visible document.
CountedTerms(lists, visible) ==
    Cardinality({i \in DOMAIN lists : DOMAIN lists[i] \cap visible /= {}})

\* The groups of a prefix as one list: frequencies add up.
merge_prefixes(lists, visible) ==
    LET holding(o) == SelectSeq(lists, LAMBDA list : o \in DOMAIN list)
        ids == UNION {DOMAIN list : list \in Range(lists)} \cap visible
        lens(o) == {list[o].len : list \in Range(holding(o))}
    IN  IF CountedTerms(lists, visible) > MaxExpansion THEN Failed("PrefixCap")
        ELSE IF \E o \in ids : Cardinality(lens(o)) > 1 THEN Failed("IndexCorrupt")
        ELSE [list |-> [o \in ids |->
                [len |-> Head(holding(o))[o].len, at |-> {},
                 tf |-> Sum([i \in DOMAIN holding(o) |-> holding(o)[i][o].tf])]]]

\* Posting lists by key, prefixes merged, or the failure of a merge.
Lists(found, visible) ==
    LET one(key) == IF key.prefix THEN merge_prefixes(found.lists[key], visible)
                    ELSE [list |-> IF found.lists[key] = <<>> THEN <<>> ELSE found.lists[key][1]]
        bad == {key \in DOMAIN found.lists : IsErr(one(key))}
    IN  IF bad /= {} THEN one(CHOOSE key \in bad : TRUE)
        ELSE [lists |-> [key \in DOMAIN found.lists |-> one(key).list]]

KeyOf(clause, i) == [term |-> clause.terms[i], prefix |-> clause.prefix]

ClauseMatches(clause, lists, o) ==
    LET at(i) == lists[KeyOf(clause, i)][o].at
    IN  /\ \A i \in DOMAIN clause.terms : o \in DOMAIN lists[KeyOf(clause, i)]
        /\ is_phrase(clause) =>
              \E p \in at(1) : \A i \in DOMAIN clause.terms : p + clause.offsets[i] \in at(i)

\* The logarithm and the quotient of BM25 as integers that move with the same
\* arguments in the same direction.
idf(count, df) == 1 + Max({count, df}) - df
tfnorm(posting, stats) ==
    (100 * posting.tf) \div (1 + posting.tf + (posting.len * stats.docs) \div Max({1, stats.tokens}))


\* corpus: the documents that count, ids at most.
df(list, corpus) == Cardinality(DOMAIN list \cap corpus)

Contribution(clause, lists, stats, corpus, o) ==
    LET keys == {KeyOf(clause, i) : i \in DOMAIN clause.terms}
    IN  MapThenSumSet(LAMBDA key : idf(stats.docs, df(lists[key], corpus)) * tfnorm(lists[key][o], stats),
                      keys)

\* The k best documents of restrict that match a clause and every required one.
score_query_with(clauses, lists, stats, restrict, corpus, k) ==
    LET ids == UNION {DOMAIN lists[key] : key \in DOMAIN lists} \cap restrict
        matched(o) == {i \in DOMAIN clauses : ClauseMatches(clauses[i], lists, o)}
        required == {i \in DOMAIN clauses : clauses[i].required}
        hits == {o \in ids : matched(o) /= {} /\ required \subseteq matched(o)}
        weight == [o \in hits |->
                    MapThenSumSet(LAMBDA i : Contribution(clauses[i], lists, stats, corpus, o), matched(o))]
        better(p, q) == weight[p] > weight[q] \/ (weight[p] = weight[q] /\ p < q)
        ranked == SetToSortSeq(hits, better)
    IN  IF k = 0 \/ stats.docs = 0 THEN <<>>
        ELSE [i \in 1 .. Min({k, Len(ranked)}) |-> [id |-> ranked[i], score |-> weight[ranked[i]]]]

\* FulltextCandidates::score: the field is the corpus.
score(found, stats, restrict, k) ==
    LET everything == candidate_ids(found)
        merged == Lists(found, everything)
    IN  IF IsErr(merged) THEN merged
        ELSE [hits |-> score_query_with(found.clauses, merged.lists, stats, restrict, everything, k)]

\* FulltextCandidates::score_visible: the visible documents are the corpus.
score_visible(found, visible, k) ==
    LET merged == Lists(found, visible)
        lists == merged.lists
        ids == candidate_ids(found) \cap visible
        len(o) == CHOOSE n \in {lists[key][o].len : key \in {key \in DOMAIN lists : o \in DOMAIN lists[key]}} : TRUE
        stats == [docs |-> Cardinality(ids), tokens |-> MapThenSumSet(len, ids)]
    IN  IF IsErr(merged) THEN merged
        ELSE [hits |-> score_query_with(found.clauses, lists, stats, visible, visible, k)]

\* Work that the governor charges before ranking.
scoring_work(found) ==
    LET rows(key) == Sum([i \in DOMAIN found.lists[key] |-> Cardinality(DOMAIN found.lists[key][i])])
        tf(key) == IF found.lists[key] = <<>> THEN 0
                   ELSE MapThenSumSet(LAMBDA o : found.lists[key][1][o].tf, DOMAIN found.lists[key][1])
        work(c) == Sum([i \in DOMAIN c.terms |-> rows(KeyOf(c, i))])
                   + (IF is_phrase(c) THEN tf(KeyOf(c, 1)) * (Len(c.terms) - 1) ELSE 0)
    IN  Sum([i \in DOMAIN found.clauses |-> work(found.clauses[i])])

-----------------------------------------------------------------------------
(* What .matches promises, of a corpus and not of its index.               *)

\* Whether a text has some, and all, of what a query item asks for, in the words
\* of it that are analyzed.
ItemHolds(analyzer, item, text) ==
    LET doc == analyze_words(analyzer, text, FALSE)
        asked == analyze_words(analyzer, item.words, FALSE)
        kept == analyze_words(analyzer, item.words, TRUE)
        starred == item.star /\ Max(DOMAIN kept) \in DOMAIN asked
        holds(p) == IF starred /\ p = Max(DOMAIN kept)
                    THEN \E t \in Range(doc) : IsPrefix(asked[p], t)
                    ELSE asked[p] \in Range(doc)
    IN  IF item.quote = "closed"
        THEN [any |-> asked /= <<>> /\ \E shift \in (0 - Len(item.words)) .. Len(text) :
                        \A p \in DOMAIN asked : p + shift \in DOMAIN doc /\ doc[p + shift] = asked[p],
              all |-> asked = <<>> \/ \E shift \in (0 - Len(item.words)) .. Len(text) :
                        \A p \in DOMAIN asked : p + shift \in DOMAIN doc /\ doc[p + shift] = asked[p]]
        ELSE [any |-> \E p \in DOMAIN asked : holds(p), all |-> \A p \in DOMAIN asked : holds(p)]

\* A document is found if it has what some item asks for, and all of what the
\* items marked + ask for.
Found(analyzer, query, text) ==
    /\ \E i \in DOMAIN query : ItemHolds(analyzer, query[i], text).any
    /\ \A i \in DOMAIN query : query[i].plus => ItemHolds(analyzer, query[i], text).all
=============================================================================
