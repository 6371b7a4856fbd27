------------------------------- MODULE Search -------------------------------
(***************************************************************************)
(* The concordance (KWIC) searches of apps/search over the index of one    *)
(* corpus: the simple search, the advanced search with query lists and     *)
(* context words, the search by a regular expression over whole texts, the *)
(* CQP subset, and the view of a source file.                              *)
(*                                                                         *)
(* Regular expressions and wildcards are abstract: Pattern[p] is the set   *)
(* of surfaces p matches as a whole, Inside relates a surface to those     *)
(* that contain it.  SQL and Python order words alike, by Rank: words are  *)
(* stored folded.  File names are not, and the two fold them differently.  *)
(***************************************************************************)
EXTENDS CorpusIndex, Integers

CONSTANTS
    Pattern,         \* Pattern[p]: surfaces matched by the wildcard or regex p
    Compound,        \* Compound[s]: how the segmenter splits the query s
    Han,             \* surfaces with a Chinese character
    Inside,          \* pairs <<s, t>> of surfaces such that t contains s
    Across,          \* triples <<l, s, words>>: s is in the words put together in language l
    Rank,            \* Rank[s]: the place of a folded surface in sorted order
    FileName,        \* FileName[d]: the file name of document d
    FileRank,        \* FileRank[d]: the place of that name folded by NOCASE, in ASCII only
    FoldedRank,      \* FoldedRank[d]: the place of that name folded by casefold
    MaxQueryTerms,   \* MAX_QUERY_TERMS
    MaxSortKeys,     \* MAX_SORT_KEYS
    HashFactor,      \* 1103515245 in the code
    HashSize         \* 2147483648 in the code

ASSUME HashAssumption == HashSize \in {2, 4, 8, 16, 32} /\ HashFactor \in Nat /\ HashFactor % 2 = 1

\* Places in an order are numbers; the segmenter returns a list.
ASSUME RankAssumption ==
    /\ \A s \in DOMAIN Normal : Rank[Normal[s]] \in Int
    /\ \A d \in DOMAIN FileName : FileRank[d] \in Int /\ FoldedRank[d] \in Int
    /\ \A s \in DOMAIN Compound : Compound[s] \in Seq(ToSet(Compound[s]))

\* Files of one name are sorted to one place.
ASSUME NamesAssumption ==
    \A d, e \in DOMAIN FileName : FileName[d] = FileName[e] => FoldedRank[d] = FoldedRank[e]

\* Documents are numbered in the order of their ids.
ASSUME DocumentsAssumption == DOMAIN FileName \subseteq Nat

\* No two folded words share a place, and a query that is split has words.
ASSUME PlacesAssumption ==
    /\ \A s, t \in DOMAIN Normal : Rank[Normal[s]] = Rank[Normal[t]] => Normal[s] = Normal[t]
    /\ \A s \in DOMAIN Compound : Compound[s] # <<>>

Lower(a, b) == IF a < b THEN a ELSE b
Higher(a, b) == IF a > b THEN a ELSE b

QueryError == [error |-> "query"]
IsError(answer) == "error" \in DOMAIN answer

-----------------------------------------------------------------------------
(* Queries *)

LanguageOf(terms) == IF ToSet(terms) \cap Han # {} THEN "zh" ELSE "en"

Seen(m, text) == IF m.case THEN text ELSE Normal[text]

\* _matcher_predicate and token_regex in SQL, _matcher_accepts in Python.
Accepts(m, text) ==
    \E v \in (IF m.term \in DOMAIN Pattern THEN Pattern[m.term] ELSE {m.term}) :
        IF m.whole THEN Seen(m, v) = Seen(m, text) ELSE <<Seen(m, v), Seen(m, text)>> \in Inside

Matcher(term, opts) == [term |-> term, whole |-> opts.whole, case |-> opts.case]

\* token_matches: the segmenter takes a text apart, between blanks as well.
Tokenized(terms) ==
    FlattenSeq([i \in DOMAIN terms |-> IF terms[i] \in DOMAIN Compound THEN Compound[terms[i]] ELSE <<terms[i]>>])

\* A query with a wildcard is taken apart at its blanks only.
Segmented(terms) == IF ToSet(terms) \cap DOMAIN Pattern # {} THEN terms ELSE Tokenized(terms)

\* Terms of a query, at most MaxQueryTerms of them; <<>> is an error.
CompileQuery(terms, opts) ==
    LET parts == Segmented(terms) IN
    IF Len(parts) > MaxQueryTerms THEN <<>>
    ELSE [i \in DOMAIN parts |-> Matcher(parts[i], opts)]

\* Sort keys without blanks and repetitions, at most MaxSortKeys of them.
NormalizeSortKeys(keys) ==
    At(keys, {i \in DOMAIN keys : keys[i].by # "" /\ \A j \in 1..(i - 1) : keys[j] # keys[i]})

ValidOptions(q) ==
    /\ q.page >= 1 /\ q.size >= 1 /\ q.context >= 0 /\ q.sample >= 0
    /\ Len(NormalizeSortKeys(q.sort)) <= MaxSortKeys

-----------------------------------------------------------------------------
(* Matches: a first row, a length in words and a span of characters *)

MatchOf(tokens, g, n) ==
    [row |-> g, length |-> n,
     from |-> StartOf(tokens[g].stream), to |-> EndOf(tokens[g].stream + n - 1)]

\* _match_sql without order: one JOIN per further term along the stream.
Matches(tokens, lang, matchers, tag) ==
    {MatchOf(tokens, g, Len(matchers)) : g \in
        {h \in DOMAIN tokens :
            /\ tokens[h].word.lang = lang
            /\ tag # "" => tokens[h].word.tag = tag
            /\ \A i \in DOMAIN matchers : \E k \in Beside(tokens, h, i - 1) :
                    Accepts(matchers[i], tokens[k].word.text)}}

\* _resolve_chinese_terms: a Chinese query that is a word of the index as it
\* stands is not split.
ResolvedTerms(tokens, q, terms) ==
    LET split == CompileQuery(terms, q)
        whole == <<Matcher(terms[1], q)>>
    IN  IF /\ q.lang = "zh" /\ q.whole
           /\ Len(terms) = 1 /\ terms[1] \notin DOMAIN Pattern
           /\ Matches(tokens, q.lang, whole, q.tag) # {}
        THEN whole ELSE split

\* _context_tokens: the rows loaded around a set of matches.
Context(tokens, matches, radius) ==
    UNION {UNION {Beside(tokens, m.row, d) : d \in (0 - radius)..(m.length - 1 + radius)} : m \in matches}

\* sort_offset: words to the left count from the first word of the match,
\* words to the right from its last.
SortOffset(k, length) == IF k.at < 0 THEN k.at ELSE length + k.at - 1

TokenAt(tokens, loaded, m, offset) == Beside(tokens, m.row, offset) \cap loaded

Absent == <<1000>>   \* sorts behind every rank: values that are missing come last

RankOf(tokens, rows) ==
    IF rows = {} THEN Absent ELSE <<Rank[NormalAt(tokens, CHOOSE g \in rows : TRUE)]>>

\* SQL orders file names COLLATE NOCASE, Python by casefold.
FilePlace(doc, inSql) == IF inSql THEN FileRank[doc] ELSE FoldedRank[doc]

\* The surfaces of a match; in memory the key C compares all of them ...
Keyword(tokens, m) ==
    [i \in 1..m.length |-> Rank[NormalAt(tokens, CHOOSE g \in Beside(tokens, m.row, i - 1) : TRUE)]]

\* ... while SQL compares the first (t0.normalized).
SortValue(tokens, loaded, m, k, inSql) ==
    CASE k.by = "ROW_ID" -> <<m.row>>
      [] k.by = "FILE" -> <<FilePlace(tokens[m.row].word.doc, inSql)>>
      [] k.by = "C" -> IF inSql THEN <<Rank[NormalAt(tokens, m.row)]>> ELSE Keyword(tokens, m)
      [] OTHER -> RankOf(tokens, TokenAt(tokens, loaded, m, SortOffset(k, m.length)))

SortValues(tokens, loaded, m, keys, inSql) ==
    [i \in DOMAIN keys |-> SortValue(tokens, loaded, m, keys[i], inSql)]

\* What matches have in common that are counted together: in memory the
\* values they are sorted by (_python_sort_pattern), while SQL's PARTITION BY
\* tells file names apart that it sorts as one.
CountedValue(tokens, loaded, m, k, inSql) ==
    IF inSql /\ k.by = "FILE" THEN <<FileName[tokens[m.row].word.doc]>>
    ELSE SortValue(tokens, loaded, m, k, inSql)

CountedValues(tokens, loaded, m, keys, inSql) ==
    [i \in DOMAIN keys |-> CountedValue(tokens, loaded, m, keys[i], inSql)]

\* _hit_pattern, which names files by document.
HitPattern(tokens, loaded, m, keys) ==
    IF keys = <<>> THEN <<<<m.row>>>>
    ELSE [i \in DOMAIN keys |->
            IF keys[i].by = "FILE" THEN <<tokens[m.row].word.doc>>
            ELSE SortValue(tokens, loaded, m, keys[i], FALSE)]

SeqLess(s, t) ==
    \E i \in 1..(Len(s) + 1) :
        /\ i <= Len(t)
        /\ \A j \in 1..(i - 1) : j <= Len(s) /\ s[j] = t[j]
        /\ i > Len(s) \/ s[i] < t[i]

\* A match's place in the corpus.
Place(m) == <<m.row, m.from, m.length>>

ValuesLess(v, w) ==
    \E i \in DOMAIN v : SeqLess(v[i], w[i]) /\ \A j \in 1..(i - 1) : v[j] = w[j]

\* _sort_clauses and _sort_matches_in_memory: by the number of matches that
\* are counted with it if asked for, by the values, then by the first row; in
\* memory two matches of a row keep the order in which they were found.
Sorted(tokens, matches, loaded, keys, order, inSql) ==
    LET Values(m) == SortValues(tokens, loaded, m, keys, inSql)
        Group(m) == CountedValues(tokens, loaded, m, keys, inSql)
        Same(m) == Cardinality({n \in matches : Group(n) = Group(m)})
        counted == {[match |-> m, values |-> Values(m),
                     count |-> IF order = "frequency" /\ keys # <<>> THEN Same(m) ELSE 0] : m \in matches}
        Less(d, e) ==
            \/ d.count > e.count
            \/ d.count = e.count /\ ValuesLess(d.values, e.values)
            \/ d.count = e.count /\ d.values = e.values /\ SeqLess(Place(d.match), Place(e.match))
        ordered == InOrder(counted, Less)
    IN  [i \in DOMAIN ordered |-> ordered[i].match]

\* The pseudo-random order of a sample.
SampleHash(row, seed) == (row * HashFactor + seed) % HashSize

SampleOrder(matches, q) ==
    InOrder(matches, LAMBDA m, n :
        SeqLess(<<SampleHash(m.row, q.seed)>> \o Place(m), <<SampleHash(n.row, q.seed)>> \o Place(n)))

Sample(matches, q) ==
    ToSet(SubSeq(SampleOrder(matches, q), 1, Lower(q.sample, Cardinality(matches))))

-----------------------------------------------------------------------------
(* Pages *)

CeilDiv(a, b) == (a + b - 1) \div b
NumPages(total, size) == IF total = 0 THEN 1 ELSE CeilDiv(total, size)

\* Mutant: a page behind the last one is not reduced to it.
EffectivePageAsked(page, pages) == page

\* A page behind the last one is the last one.
EffectivePage(page, pages) == Lower(page, pages)

\* Mutant: LIMIT is one row short.
PageOfShifted(ordered, page, size) ==
    LET p == EffectivePage(page, NumPages(Len(ordered), size)) IN
    SubSeq(ordered, (p - 1) * size + 1, Lower(p * size - 1, Len(ordered)))

PageOf(ordered, page, size) ==
    LET p == EffectivePage(page, NumPages(Len(ordered), size)) IN
    SubSeq(ordered, (p - 1) * size + 1, Lower(p * size, Len(ordered)))

\* _source_snippets: the span around every match, kept under its row.
Snippet(tokens, m, context) ==
    LET g == m.row
        left == Higher(1, tokens[g].stream - context)
        right == tokens[g].stream + m.length + context - 1
        words == Cardinality(StreamOf(tokens, tokens[g].word.doc, tokens[g].word.lang))
    IN  [left |-> StartOf(left), from |-> m.from, to |-> m.to,
         right |-> IF right <= words THEN EndOf(right) ELSE TextLength(words)]

Snippets(tokens, shown, context) ==
    [row \in {shown[i].row : i \in DOMAIN shown} |->
        LET last == CHOOSE i \in DOMAIN shown : shown[i].row = row /\ \A j \in DOMAIN shown : shown[j].row = row => j <= i
        IN  Snippet(tokens, shown[last], context)]

\* _build_hit: the row, the texts shown and the five words on either side.
BuildHit(tokens, loaded, m, snippets, kpf) ==
    [row |-> m.row, doc |-> tokens[m.row].word.doc, length |-> m.length, shown |-> snippets[m.row],
     left |-> [d \in 1..5 |-> TokenAt(tokens, loaded, m, 0 - d)],
     right |-> [d \in 1..5 |-> TokenAt(tokens, loaded, m, m.length + d - 1)],
     kpf |-> kpf]

\* Mutant: only the words shown are loaded.
LoadedRadiusShown(q) == q.context

\* Words loaded around a hit: those shown, and at least five to sort by.
LoadedRadius(q) == Higher(q.context, 5)

\* The rest of all four searches: what the page shows of the matches, and
\* how many of `counted` share the pattern of each hit.
PageAnswer(tokens, q, keys, shown, total, available, counted) ==
    LET loaded == Context(tokens, ToSet(shown), LoadedRadius(q))
        counting == Context(tokens, counted, 5)
        snippets == Snippets(tokens, shown, q.context)
        size == IF q.sample > 0 THEN Higher(1, total) ELSE q.size
        patterns == {[match |-> m, values |-> HitPattern(tokens, counting, m, keys)] : m \in counted}
        Alike(m) == LET values == HitPattern(tokens, loaded, m, keys) IN
                    Cardinality({p \in patterns : p.values = values})
    IN  [hits |-> [i \in DOMAIN shown |-> BuildHit(tokens, loaded, shown[i], snippets, Alike(shown[i]))],
         total |-> total, available |-> available,
         page |-> IF q.sample > 0 THEN 1 ELSE EffectivePage(q.page, NumPages(total, size)),
         pages |-> NumPages(total, size)]

-----------------------------------------------------------------------------
(* The searches *)

\* KwicSearchEngine.search: pages and their order come from SQL; a sample is
\* ordered in memory, or stays in its pseudo-random order.
SearchSimple(index, q) ==
    LET tokens == index.tokens
        matchers == CompileQuery(q.terms, q)
        keys == NormalizeSortKeys(q.sort)
        found == Matches(tokens, q.lang, ResolvedTerms(tokens, q, q.terms), q.tag)
        sampled == Sample(found, q)
        ordered == Sorted(tokens, found, DOMAIN tokens, keys, q.order, TRUE)
        shown == IF q.sample = 0 THEN PageOf(ordered, q.page, q.size)
                 ELSE IF keys = <<>> THEN SampleOrder(sampled, q)
                 ELSE Sorted(tokens, sampled, Context(tokens, sampled, 5), keys, q.order, FALSE)
    IN  IF ~ValidOptions(q) \/ matchers = <<>> THEN QueryError
        ELSE PageAnswer(tokens, q, keys, shown,
                IF q.sample > 0 THEN Len(shown) ELSE Cardinality(found), Cardinality(found),
                IF keys # <<>> /\ q.sample = 0 THEN found ELSE ToSet(shown))

\* A context word compiles to one word.
NearWords(q) == \A i \in DOMAIN q.near : Len(CompileQuery(<<q.near[i]>>, q)) = 1

\* _matches_context_constraints: words at the window's positions, the match
\* itself left out.
NearMatch(tokens, loaded, m, q) ==
    LET rows == UNION {TokenAt(tokens, loaded, m, IF p < 0 THEN p ELSE m.length + p - 1) :
                        p \in (q.windowFrom..q.windowTo) \ {0}}
        Occurs(i) == \E g \in rows : Accepts(CompileQuery(<<q.near[i]>>, q)[1], tokens[g].word.text)
        accepted == IF q.logic = "and" THEN \A i \in DOMAIN q.near : Occurs(i) ELSE \E i \in DOMAIN q.near : Occurs(i)
    IN  accepted # q.exclude

\* search_advanced, first half: one match per row and length over all queries
\* of the list, then the context words.
AdvancedMatches(index, q, queries) ==
    LET tokens == index.tokens
        found == UNION {Matches(tokens, q.lang, ResolvedTerms(tokens, q, t), q.tag) : t \in queries}
        loaded == Context(tokens, found, Higher(Higher(0 - q.windowFrom, q.windowTo), 1))
    IN  IF q.near = <<>> THEN found ELSE {m \in found : NearMatch(tokens, loaded, m, q)}

\* Mutant: only one word around a match is loaded to sort by.
InMemoryPageNarrow(index, q, found) ==
    LET ordered == Sorted(index.tokens, found, Context(index.tokens, found, 1), NormalizeSortKeys(q.sort), q.order, FALSE)
        kept == IF q.sample > 0 THEN At(ordered, {i \in DOMAIN ordered : ordered[i] \in Sample(found, q)}) ELSE ordered
    IN  PageAnswer(index.tokens, q, NormalizeSortKeys(q.sort),
                   IF q.sample > 0 THEN kept ELSE PageOf(kept, q.page, q.size), Len(kept), Cardinality(found), ToSet(kept))

\* Second half, shared with the regular expressions: sample, sort and cut a
\* page out of the matches in memory.
InMemoryPage(index, q, found) ==
    LET tokens == index.tokens
        keys == NormalizeSortKeys(q.sort)
        kept == IF q.sample > 0 THEN Sample(found, q) ELSE found
        ordered == Sorted(tokens, kept, Context(tokens, kept, 5), keys, q.order, FALSE)
        shown == IF q.sample > 0 THEN ordered ELSE PageOf(ordered, q.page, q.size)
    IN  PageAnswer(tokens, q, keys, shown, Len(ordered), Cardinality(found), kept)

SearchAdvanced(index, q) ==
    LET queries == ({q.terms} \cup ToSet(q.list)) \ {<<>>} IN
    IF \/ queries = {} \/ ~ValidOptions(q) \/ q.windowFrom > q.windowTo
       \/ ~NearWords(q) \/ \E t \in queries : CompileQuery(t, q) = <<>>
    THEN QueryError
    ELSE InMemoryPage(index, q, AdvancedMatches(index, q, queries))

\* Mutant: spans that overlap are all marked.
MarkedAll(spans) == InOrder(spans, LAMBDA s, t : s.from < t.from \/ (s.from = t.from /\ s.to < t.to))

\* Of the spans found in a text those are marked that begin behind the last
\* one marked; at one place the shorter comes first.
Marked(spans) ==
    LET ordered == InOrder(spans, LAMBDA s, t : s.from < t.from \/ (s.from = t.from /\ s.to < t.to))
    IN  FoldLeft(LAMBDA done, s : IF done # <<>> /\ s.from < Last(done).to THEN done ELSE Append(done, s),
                 <<>>, ordered)

\* finditer on the text of a document: a regular expression is a sequence of
\* words; with q.prefix it stops before the last character of its last word.
RegexSpans(tokens, doc, q) ==
    LET stream == StreamOf(tokens, doc, q.lang)
        WordAccepts(g, i) == \E h \in Beside(tokens, g, i - 1) :
                                Accepts([term |-> q.terms[i], whole |-> TRUE, case |-> q.case], tokens[h].word.text)
        starts == {g \in stream : \A i \in DOMAIN q.terms : WordAccepts(g, i)}
    IN  ToSet(Marked({[from |-> StartOf(tokens[g].stream),
                       to |-> EndOf(tokens[g].stream + Len(q.terms) - 1) - (IF q.prefix THEN 1 ELSE 0)] : g \in starts}))

\* _search_full_regex: a span is mapped to the words it overlaps.
RegexMatch(tokens, doc, lang, span) ==
    LET rows == {g \in StreamOf(tokens, doc, lang) :
                    EndOf(tokens[g].stream) > span.from /\ StartOf(tokens[g].stream) < span.to}
    IN  IF rows = {} THEN {}
        ELSE {[row |-> CHOOSE g \in rows : \A h \in rows : g <= h,
               length |-> Cardinality(rows), from |-> span.from, to |-> span.to]}

SearchFullRegex(index, q) ==
    LET docs == {index.tokens[g].word.doc : g \in DOMAIN index.tokens}
        found == UNION {UNION {RegexMatch(index.tokens, d, q.lang, s) : s \in RegexSpans(index.tokens, d, q)} : d \in docs}
    IN  IF ~ValidOptions(q) \/ q.terms = <<>> THEN QueryError ELSE InMemoryPage(index, q, found)

\* parse_query: quoted phrases, [attribute="value"], functions and bare words
\* become filters on words, tags or any word; <<>> is an error.
ParsedItem(item) ==
    CASE item.kind \in {"quoted", "bare"} ->
            LET words == Segmented(item.terms) IN
            [i \in DOMAIN words |-> [on |-> "word", term |-> words[i], whole |-> TRUE]]
      [] item.kind = "function" -> <<[on |-> "word", term |-> item.terms[1], whole |-> FALSE]>>
      [] item.kind = "pos" -> <<[on |-> "pos", term |-> item.terms[1], whole |-> TRUE]>>
      [] OTHER -> <<[on |-> "any", term |-> "", whole |-> TRUE]>>

ParseQuery(items) ==
    LET filters == FlattenSeq([i \in DOMAIN items |-> ParsedItem(items[i])]) IN
    IF Len(filters) > MaxQueryTerms \/ \E i \in DOMAIN items : items[i].kind = "malformed"
    THEN <<>> ELSE filters

\* compile_token_filter; comparisons are those of normalized words.
FilterAccepts(f, word) ==
    \/ f.on = "any"
    \/ f.on = "pos" /\ word.tag = f.term
    \/ f.on = "word" /\ Accepts([term |-> f.term, whole |-> f.whole, case |-> FALSE], word.text)

PlanMatches(tokens, lang, filters, tag) ==
    {MatchOf(tokens, g, Len(filters)) : g \in
        {h \in DOMAIN tokens :
            /\ tokens[h].word.lang = lang
            /\ tag # "" => tokens[h].word.tag = tag
            /\ \A i \in DOMAIN filters : \E k \in Beside(tokens, h, i - 1) :
                    FilterAccepts(filters[i], tokens[k].word)}}

\* ComplexQueryEngine.search counts no patterns and takes no sample.
SearchComplex(index, q) ==
    LET tokens == index.tokens
        plan == ParseQuery(q.items)
        keys == NormalizeSortKeys(q.sort)
        found == PlanMatches(tokens, q.lang, plan, q.tag)
        shown == PageOf(Sorted(tokens, found, DOMAIN tokens, keys, q.order, TRUE), q.page, q.size)
        answer == PageAnswer(tokens, [q EXCEPT !.sample = 0], keys, shown, Cardinality(found), 0, {})
    IN  IF ~ValidOptions(q) \/ plan = <<>> THEN QueryError
        ELSE [answer EXCEPT !.hits = [i \in DOMAIN shown |-> [answer.hits[i] EXCEPT !.kpf = 1]]]

-----------------------------------------------------------------------------
(* The form and the view *)

\* KwicSearchForm: what a request leaves open is filled in.  The language is
\* that of the query, if the corpus has it.
KwicForm(r, languages) ==
    LET given == Extended(r, [mode |-> "simple", terms |-> <<>>, items |-> <<>>, context |-> 5, tag |-> "", size |-> 50,
                       sort |-> <<>>, order |-> "value", whole |-> TRUE, case |-> FALSE, prefix |-> FALSE, page |-> 1,
                       sample |-> 0, seed |-> 0, list |-> <<>>, near |-> <<>>, logic |-> "or", windowFrom |-> -5,
                       windowTo |-> 5, exclude |-> FALSE])
        detected == IF given.terms # <<>> /\ given.mode # "cqp" /\ LanguageOf(given.terms) \in ToSet(languages)
                    THEN LanguageOf(given.terms) ELSE languages[1]
    IN  Extended([given EXCEPT !.whole = given.whole /\ given.mode # "full_regex"], [lang |-> detected])

HasQuery(q) == IF q.mode = "cqp" THEN q.items # <<>> ELSE q.terms # <<>>

\* KwicSearchForm.clean: which options go together.
FormAccepts(q, languages) ==
    /\ q.lang \in ToSet(languages) /\ q.page >= 1 /\ q.size >= 1
    /\ q.list # <<>> \/ q.near # <<>> => q.mode = "simple"
    /\ HasQuery(q) \/ q.list # <<>>
    /\ q.windowFrom <= q.windowTo
    /\ q.mode = "cqp" => ~q.case /\ ParseQuery(q.items) # <<>>
    /\ q.mode = "full_regex" => q.tag = ""
    /\ q.mode = "simple" /\ q.terms # <<>> => CompileQuery(q.terms, q) # <<>>

\* kwic_search chooses the engine.
KwicSearch(index, q) ==
    CASE q.mode = "cqp" -> SearchComplex(index, q)
      [] q.mode = "full_regex" -> SearchFullRegex(index, q)
      [] q.mode = "simple" /\ (q.list # <<>> \/ q.near # <<>>) -> SearchAdvanced(index, q)
      [] OTHER -> SearchSimple(index, q)

KwicView(index, languages, r) ==
    LET q == KwicForm(r, languages) IN
    [query |-> q, answer |-> IF FormAccepts(q, languages) THEN KwicSearch(index, q) ELSE QueryError]

-----------------------------------------------------------------------------
(* File View *)

\* Text between and around the marked spans, and the spans, in order.
Segments(marked, length) ==
    LET Before(i) == IF i = 1 THEN 0 ELSE marked[i - 1].to
        Gap(i) == IF marked[i].from > Before(i) THEN <<[from |-> Before(i), to |-> marked[i].from, row |-> 0, hit |-> FALSE]>> ELSE <<>>
        tail == IF marked = <<>> THEN 0 ELSE Last(marked).to
    IN  FlattenSeq([i \in DOMAIN marked |->
            Append(Gap(i), [from |-> marked[i].from, to |-> marked[i].to, row |-> marked[i].row, hit |-> TRUE])])
        \o IF tail < length THEN <<[from |-> tail, to |-> length, row |-> 0, hit |-> FALSE]>> ELSE <<>>

\* The file view re-runs the query of the concordance on one document, and
\* falls back to the word whose row was asked for.
FileView(index, q, doc, row) ==
    LET tokens == index.tokens
        stream == StreamOf(tokens, doc, q.lang)
        matchers == CompileQuery(q.terms, q)
        found == IF q.mode = "full_regex"
                 THEN {[from |-> s.from, to |-> s.to, row |-> 0] : s \in RegexSpans(tokens, doc, q)}
                 ELSE IF q.terms = <<>> THEN {} ELSE {[from |-> m.from, to |-> m.to, row |-> m.row] :
                        m \in {n \in Matches(tokens, q.lang, matchers, "") : n.row \in stream}}
        anchor == IF row \in stream
                  THEN {[from |-> StartOf(tokens[row].stream), to |-> EndOf(tokens[row].stream), row |-> row]} ELSE {}
        marked == Marked(IF found = {} THEN anchor ELSE found)
    IN  IF stream = {} \/ (q.mode # "full_regex" /\ q.terms # <<>> /\ matchers = <<>>) THEN QueryError
        ELSE [segments |-> Segments(marked, TextLength(Cardinality(stream))),
              hits |-> Len(marked),
              selected |-> {i \in DOMAIN marked : row # 0 /\ marked[i].row = row},
              anchored |-> anchor # {},
              tokens |-> Cardinality(stream),
              types |-> Cardinality({NormalAt(tokens, g) : g \in stream})]

=============================================================================
