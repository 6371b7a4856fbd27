----------------------------- MODULE Statistics -----------------------------
(***************************************************************************)
(* The AntConc-like tools of apps/statistics over the same index: word     *)
(* list, clusters, n-grams, keywords, word cloud, collocates and the       *)
(* concordance plot.                                                       *)
(*                                                                         *)
(* Measures are fractions <<numerator, denominator>>; one that the code    *)
(* computes as a logarithm is compared by its argument.  Measures that     *)
(* need more (log-likelihood, scores with a square root) are left out.     *)
(***************************************************************************)
EXTENDS Search

CONSTANTS
    Lemma,    \* Lemma[s]: the head word of the surface s
    EndRank,  \* EndRank[s]: the place of a folded surface read backwards
    MaxTerms  \* words a stop list may have, 500 (word list) or 200 (cloud)

ASSUME EndPlacesAssumption == \A s \in DOMAIN Normal : EndRank[Normal[s]] \in Int

-----------------------------------------------------------------------------
(* What the lists have in common *)

Symbolic(tokens, g) == tokens[g].word.text \in Symbols

\* Rows of a language, of a tag if one is given, and without punctuation
\* unless it is asked for.
RowsOf(tokens, lang, tag, symbols) ==
    {g \in DOMAIN tokens : /\ tokens[g].word.lang = lang
                           /\ tag # "" => tokens[g].word.tag = tag
                           /\ symbols \/ ~Symbolic(tokens, g)}

\* Occurrences (rows, or first rows of windows) under the same key; `first`
\* is where a Counter meets the key first, which decides ties.
Tally(tokens, keyOf) ==
    {LET same == {g \in DOMAIN keyOf : keyOf[g] = k} IN
        [key |-> k, frequency |-> Cardinality(same),
         range |-> Cardinality({tokens[g].word.doc : g \in same}),
         first |-> CHOOSE g \in same : \A h \in same : g <= h] : k \in Range(keyOf)}

Enough(e, q) == e.frequency >= q.minFrequency /\ e.range >= q.minRange

\* How often a term occurs decides, then its spread, or the other way round.
Ordering(e, by, place) ==
    CASE by = "frequency" -> <<0 - e.frequency, 0 - e.range>> \o place
      [] by = "range" -> <<0 - e.range, 0 - e.frequency>> \o place
      [] OTHER -> place \o <<0 - e.frequency>>

\* The elements of a set in the order of their keys.
InKeyOrder(S, key) == InOrder(S, LAMBDA d, e : SeqLess(key[d], key[e]))

\* One page of a list, with the rank its first row has in the whole list.
Listed(ordered, q) ==
    LET pages == NumPages(Len(ordered), q.size)
        page == EffectivePage(q.page, pages)
    IN  [rows |-> PageOf(ordered, q.page, q.size), offset |-> (page - 1) * q.size,
         total |-> Len(ordered), page |-> page, pages |-> pages]

Filtered(q, text) == q.filter = "" \/ <<Normal[q.filter], Normal[text]>> \in Inside

\* An n-gram is searched as it is displayed: its words put together, an open
\* slot among them.  (SQLite's lower folds ASCII only, casefold more: no
\* word here has a capital outside ASCII.)
GramFiltered(q, gram) ==
    \/ q.filter = ""
    \/ \E i \in DOMAIN gram : \/ <<Normal[q.filter], gram[i]>> \in Inside
                            \/ \E j \in i..Len(gram) : <<q.lang, Normal[q.filter], SubSeq(gram, i, j)>> \in Across

\* query_terms and _node_match_sql: a query is a sequence of words inside one
\* sentence; _resolve_terms keeps a Chinese query whole if that occurs.
NodeRows(tokens, lang, terms) ==
    {g \in DOMAIN tokens :
        /\ tokens[g].word.lang = lang
        /\ \A i \in DOMAIN terms :
            /\ g + i - 1 \in DOMAIN tokens
            /\ tokens[g + i - 1].word.sentence = tokens[g].word.sentence
            /\ NormalAt(tokens, g + i - 1) = terms[i]}

Folded(terms) == [i \in DOMAIN terms |-> Normal[terms[i]]]

NodeTerms(tokens, q) ==
    LET words == Folded(q.terms) IN
    IF q.lang = "zh" /\ NodeRows(tokens, q.lang, words) # {} THEN words ELSE Folded(Tokenized(q.terms))

QueryFails(q) == q.terms = <<>> \/ LanguageOf(q.terms) # q.lang \/ Len(Tokenized(q.terms)) > MaxQueryTerms

\* LanguageForm: the language is one of the corpus, the bounds are positive.
LanguageRefused(q, languages) ==
    \/ q.lang \notin ToSet(languages)
    \/ "page" \in DOMAIN q /\ q.page < 1
    \/ "minFrequency" \in DOMAIN q /\ q.minFrequency < 1
    \/ "minRange" \in DOMAIN q /\ q.minRange < 1

\* A view answers the cleaned request; _render records it.
View(q, answer) == [query |-> q, answer |-> answer]

-----------------------------------------------------------------------------
(* Word list *)

\* From the stored totals, or from the frequencies by tag.
StaticWordList(index, q) ==
    LET table == IF q.tag = "" THEN [k \in {j \in DOMAIN index.totals : j[1] = q.lang} |-> index.totals[k]]
                 ELSE [k \in {j \in DOMAIN index.frequencies : j[1] = q.lang /\ j[3] = q.tag} |->
                            index.frequencies[k]]
        kept == {[key |-> <<k[2], "">>, frequency |-> table[k].frequency, range |-> table[k].range] :
                    k \in {j \in DOMAIN table : /\ q.symbols \/ ~table[j].symbol
                                               /\ Enough(table[j], q) /\ Filtered(q, j[2])}}
        key == [e \in kept |-> Ordering(e, q.by, <<Rank[e.key[1]]>>)]
    IN  Extended(Listed(InKeyOrder(kept, key), q),
                 [tokens |-> Cardinality(RowsOf(index.tokens, q.lang, "", q.symbols))])

\* Counted from the tokens: by surface or normal form, with the tag, or by
\* head word; through a stop list or a list of allowed words.
DynamicWordList(index, q) ==
    LET tokens == index.tokens
        Lexical(g) == IF q.display = "headword" THEN Lemma[tokens[g].word.text]
                      ELSE IF q.case THEN tokens[g].word.text ELSE NormalAt(tokens, g)
        UnitOf(g) == <<IF q.display = "headword" /\ ~q.case THEN Normal[Lexical(g)] ELSE Lexical(g),
                       IF q.display = "type_pos" THEN tokens[g].word.tag ELSE "">>
        rows == RowsOf(tokens, q.lang, q.tag, q.symbols)
        kept == {g \in rows :
                    /\ q.listMode = "stop" => NormalAt(tokens, g) \notin {Normal[t] : t \in q.listTerms}
                    /\ q.listMode = "allow" => NormalAt(tokens, g) \in {Normal[t] : t \in q.listTerms}
                    /\ Filtered(q, Lexical(g))}
        entries == {e \in Tally(tokens, [g \in kept |-> UnitOf(g)]) : Enough(e, q)}
        Spot(e) == <<IF q.by = "end" THEN EndRank[Normal[e.key[1]]] ELSE Rank[Normal[e.key[1]]]>>
        ordered == InKeyOrder(entries, [e \in entries |-> Ordering(e, q.by, Spot(e)) \o <<e.first>>])
    IN  Extended(Listed(IF q.invert THEN Reverse(ordered) ELSE ordered, q), [tokens |-> Cardinality(rows)])

\* WordListForm
WordListForm(r, languages) ==
    Extended(r, [lang |-> languages[1], display |-> "type", minFrequency |-> 1, minRange |-> 1, filter |-> "", tag |-> "",
                symbols |-> FALSE, by |-> "frequency", size |-> 50, page |-> 1, case |-> FALSE, invert |-> FALSE,
                listMode |-> "none", listTerms |-> {}])

WordListRefused(q, languages) ==
    \/ LanguageRefused(q, languages) \/ Cardinality(q.listTerms) > MaxTerms
    \/ q.listMode # "none" /\ q.listTerms = {}

WordList(index, q) ==
    IF q.display # "type" \/ q.case \/ q.invert \/ q.listMode # "none" \/ q.by = "end"
    THEN DynamicWordList(index, q) ELSE StaticWordList(index, q)

WordListView(index, languages, r) ==
    LET q == WordListForm(r, languages) IN
    View(q, IF WordListRefused(q, languages) THEN QueryError ELSE WordList(index, q))

-----------------------------------------------------------------------------
(* Clusters and n-grams *)

\* First rows of the windows of n words that stay inside a sentence.
Windows(tokens, lang, n, symbols) ==
    {g \in DOMAIN tokens :
        /\ tokens[g].word.lang = lang
        /\ g + n - 1 \in DOMAIN tokens
        /\ tokens[g + n - 1].word.sentence = tokens[g].word.sentence
        /\ symbols \/ \A i \in 0..(n - 1) : ~Symbolic(tokens, g + i)}

WindowText(tokens, g, n) == [i \in 1..n |-> NormalAt(tokens, g + i - 1)]
Ranks(texts) == [i \in DOMAIN texts |-> Rank[Normal[texts[i]]]]

FractionLess(f, g) == f[1] * g[2] < g[1] * f[2]

\* Windows that begin or end with the query; the probability is their share
\* of the windows that agree with them but for the first word.
Clusters(index, q) ==
    LET tokens == index.tokens
        terms == NodeTerms(tokens, q)
        windows == Windows(tokens, q.lang, q.n, q.symbols)
        Text(g) == WindowText(tokens, g, q.n)
        HoldsQuery(g) == IF q.left THEN SubSeq(Text(g), 1, Len(terms)) = terms
                      ELSE SubSeq(Text(g), q.n - Len(terms) + 1, q.n) = terms
        held == {g \in windows : HoldsQuery(g)}
        Rivals(e) == Cardinality({g \in windows : Tail(Text(g)) = Tail(e.key)})
        entries == {Extended(e, [share |-> <<e.frequency, Rivals(e)>>]) :
                        e \in {d \in Tally(tokens, [g \in held |-> Text(g)]) : Enough(d, q)}}
        Key(e) == Ordering(e, IF q.by = "probability" THEN "frequency" ELSE q.by, Ranks(e.key)) \o <<e.first>>
        Less(d, e) == IF q.by # "probability" THEN SeqLess(Key(d), Key(e))
                      ELSE \/ FractionLess(e.share, d.share)
                           \/ ~FractionLess(d.share, e.share) /\ SeqLess(Key(d), Key(e))
    IN  IF QueryFails(q) \/ Len(terms) > q.n THEN QueryError
        ELSE Extended(Listed(InOrder(entries, Less), q), [tokens |-> Cardinality(held)])

ClusterForm(r, languages) ==
    Extended(r, [lang |-> languages[1], terms |-> <<>>, n |-> 3, left |-> TRUE, minFrequency |-> 2, minRange |-> 1,
                symbols |-> FALSE, by |-> "frequency", size |-> 50, page |-> 1])

ClusterView(index, languages, r) ==
    LET q == ClusterForm(r, languages) IN
    View(q, IF LanguageRefused(q, languages) \/ q.terms = <<>> THEN QueryError ELSE Clusters(index, q))

\* Stored n-grams ...
StoredNgrams(index, q) ==
    LET table == {[key |-> k[2], frequency |-> index.ngrams[k].frequency, range |-> index.ngrams[k].range] :
                    k \in {j \in DOMAIN index.ngrams : /\ j[1] = q.lang /\ Len(j[2]) = q.n
                                                       /\ q.symbols \/ ~index.ngrams[j].symbol}}
        kept == {e \in table : Enough(e, q) /\ GramFiltered(q, e.key)}
    IN  Listed(InKeyOrder(kept, [e \in kept |-> Ordering(e, q.by, Ranks(e.key))]), q)

OpenSlot == "<*>"

\* ... or windows with one word left open, and the words that fill the slot.
OpenSlotNgrams(index, q) ==
    LET tokens == index.tokens
        windows == Windows(tokens, q.lang, q.n, q.symbols)
        Gram(g) == [WindowText(tokens, g, q.n) EXCEPT ![q.slot] = OpenSlot]
        Fillers(e) == {tokens[g + q.slot - 1].word.text : g \in {h \in windows : Gram(h) = e.key}}
        Spot(e) == [i \in DOMAIN e.key |-> IF i = q.slot THEN 0 ELSE Rank[e.key[i]]]
        entries == {Extended(e, [types |-> Cardinality(Fillers(e))]) :
                        e \in {d \in Tally(tokens, [g \in windows |-> Gram(g)]) : Enough(d, q) /\ GramFiltered(q, d.key)}}
    IN  Listed(InKeyOrder(entries, [e \in entries |-> Ordering(e, q.by, Spot(e))]), q)

Ngrams(index, q) ==
    IF q.n \notin GramSizes \/ q.slot > q.n THEN QueryError
    ELSE IF q.slot > 0 THEN OpenSlotNgrams(index, q) ELSE StoredNgrams(index, q)

NgramForm(r, languages) ==
    Extended(r, [lang |-> languages[1], n |-> 2, slot |-> 0, minFrequency |-> 2, minRange |-> 1, filter |-> "",
                symbols |-> FALSE, by |-> "frequency", size |-> 50, page |-> 1])

NgramView(index, languages, r) ==
    LET q == NgramForm(r, languages) IN
    View(q, IF LanguageRefused(q, languages) \/ q.slot > q.n THEN QueryError ELSE Ngrams(index, q))

-----------------------------------------------------------------------------
(* Keywords and word cloud *)

\* _frequency_snapshot: frequency and range by normal form.
Snapshot(index, q) ==
    LET words == {k \in DOMAIN index.totals : k[1] = q.lang /\ (q.symbols \/ ~index.totals[k].symbol)} IN
    [s \in {k[2] : k \in words} |-> index.totals[<<q.lang, s>>]]

SnapshotTokens(snapshot) == MapThenSumSet(LAMBDA s : snapshot[s].frequency, DOMAIN snapshot)

CountIn(snapshot, s) == IF s \in DOMAIN snapshot THEN snapshot[s] ELSE [frequency |-> 0, range |-> 0, symbol |-> FALSE]

\* Words of either corpus; a count of zero enters the ratio as one half.
Keywords(index, reference, q) ==
    LET target == Snapshot(index, q)
        other == Snapshot(reference, q)
        n == SnapshotTokens(target)
        m == SnapshotTokens(other)
        Half(count) == IF count = 0 THEN 1 ELSE 2 * count
        Entry(s) == LET a == CountIn(target, s) b == CountIn(other, s) IN
            [key |-> s, frequency |-> a.frequency, range |-> a.range, against |-> b.frequency,
             enough |-> /\ Higher(a.frequency, b.frequency) >= q.minFrequency
                        /\ Higher(a.range, b.range) >= q.minRange,
             ratio |-> <<Half(a.frequency) * m, Half(b.frequency) * n>>]
        Positive(e) == e.ratio[1] >= e.ratio[2]
        Distance(e) == IF Positive(e) THEN e.ratio ELSE <<e.ratio[2], e.ratio[1]>>
        kept == {e \in {Entry(s) : s \in DOMAIN target \cup DOMAIN other} :
                    e.enough /\ Filtered(q, e.key) /\ (Positive(e) \/ q.negative)}
        Key(e) == IF q.by = "term" THEN <<Rank[e.key], 0 - e.frequency, 0 - e.against>>
                  ELSE IF q.by = "frequency" THEN <<0 - e.frequency, 0 - e.against, Rank[e.key]>>
                  ELSE <<0 - e.frequency, Rank[e.key]>>
        Less(d, e) == IF q.by # "log_ratio" THEN SeqLess(Key(d), Key(e))
                      ELSE \/ FractionLess(Distance(e), Distance(d))
                           \/ ~FractionLess(Distance(d), Distance(e)) /\ SeqLess(Key(d), Key(e))
    IN  IF n = 0 \/ m = 0 THEN QueryError
        ELSE Extended(Listed(InOrder(kept, Less), q), [tokens |-> n, against |-> m])

KeywordForm(r, languages) ==
    Extended(r, [lang |-> languages[1], minFrequency |-> 2, minRange |-> 1, filter |-> "", negative |-> FALSE,
                symbols |-> FALSE, by |-> "log_ratio", size |-> 50, page |-> 1])

\* Languages in which two corpora were segmented alike.
Compatible(corpus, reference) ==
    {g \in ToSet(corpus.languages) \cap ToSet(reference.languages) : corpus.segmenter[g] = reference.segmenter[g]}

KeywordView(corpus, reference, r) ==
    LET q == KeywordForm(r, corpus.languages) IN
    View(q, IF LanguageRefused(q, corpus.languages) \/ q.lang \notin Compatible(corpus, reference) THEN QueryError
            ELSE Keywords(corpus.index, reference.index, q))

\* The most frequent words; the layout may leave some out when it draws them.
Wordcloud(index, q) ==
    LET words == {s \in DOMAIN Snapshot(index, q) : index.totals[<<q.lang, s>>].frequency >= q.minFrequency}
        kept == {s \in words : s \notin {Normal[t] : t \in q.listTerms}}
        ordered == InKeyOrder(kept, [s \in kept |-> <<0 - index.totals[<<q.lang, s>>].frequency, Rank[s]>>])
    IN  [rows |-> [i \in 1..Lower(q.size, Len(ordered)) |->
                    [key |-> ordered[i], frequency |-> index.totals[<<q.lang, ordered[i]>>].frequency]],
         total |-> Lower(q.size, Len(ordered)),
         excluded |-> Cardinality(words) - Cardinality(kept)]

WordcloudForm(r, languages) ==
    Extended(r, [lang |-> languages[1], minFrequency |-> 2, size |-> 50, listTerms |-> {}, symbols |-> FALSE])

WordcloudView(index, languages, r) ==
    LET q == WordcloudForm(r, languages) IN
    View(q, IF LanguageRefused(q, languages) \/ Cardinality(q.listTerms) > MaxTerms THEN QueryError
            ELSE Wordcloud(index, q))

-----------------------------------------------------------------------------
(* Collocates and plot *)

\* The rows in the windows around the node, once per node they are near.
ContextPairs(tokens, nodes, length, q) ==
    {p \in nodes \X RowsOf(tokens, q.lang, q.tag, q.symbols) :
        /\ tokens[p[1]].word.sentence = tokens[p[2]].word.sentence
        /\ p[2] \in (p[1] - q.leftSpan)..(p[1] - 1) \cup (p[1] + length)..(p[1] + length + q.rightSpan - 1)}

\* Mutant: the counts are not capped.
ContingencyUncapped(observed, opportunities, frequency, size) ==
    <<observed, opportunities - observed, frequency - observed, size - opportunities - frequency + observed>>

\* ContingencyTable.from_marginals after the caps that collocates puts on the
\* counts: cells o11, o12, o21 and o22.
Contingency(observed, opportunities, frequency, size) ==
    LET both == Lower(Lower(observed, opportunities), frequency)
        all == Higher(size, opportunities + frequency - both)
    IN  <<both, opportunities - both, frequency - both, all - opportunities - frequency + both>>

\* association_measures: the measures that are quotients.
Measure(cells, by) ==
    LET row1 == cells[1] + cells[2]
        row2 == cells[3] + cells[4]
        column1 == cells[1] + cells[3]
        half == IF cells[3] = 0 THEN 1 ELSE 2 * cells[3]   \* twice the adjusted o21
        Quotient(a, b) == IF b = 0 THEN <<0, 1>> ELSE <<a, b>>
    IN  CASE by \in {"dice", "log_dice"} -> Quotient(2 * cells[1], row1 + column1)
          [] by \in {"mu", "mi"} -> Quotient(cells[1] * (row1 + row2), row1 * column1)
          [] by = "mi2" -> Quotient(cells[1] * cells[1] * (row1 + row2), row1 * column1)
          [] by \in {"rrf", "log_ratio"} -> Quotient(2 * row2 * cells[1], row1 * half)
          [] OTHER -> Quotient(cells[1], Higher(row1, column1))   \* minimum_sensitivity

Collocates(index, q) ==
    LET tokens == index.tokens
        terms == NodeTerms(tokens, q)
        nodes == NodeRows(tokens, q.lang, terms)
        pairs == ContextPairs(tokens, nodes, Len(terms), q)
        corpus == RowsOf(tokens, q.lang, q.tag, q.symbols)
        Entry(s) ==
            LET near == {p \in pairs : NormalAt(tokens, p[2]) = s}
                frequency == Cardinality({g \in corpus : NormalAt(tokens, g) = s})
            IN  [key |-> s, frequency |-> Cardinality(near),
                 left |-> Cardinality({p \in near : p[2] < p[1]}),
                 right |-> Cardinality({p \in near : p[2] > p[1]}),
                 range |-> Cardinality({tokens[p[2]].word.doc : p \in near}),
                 corpus |-> frequency,
                 cells |-> Contingency(Cardinality(near), Cardinality(pairs), frequency, Cardinality(corpus))]
        kept == {e \in {Entry(NormalAt(tokens, p[2])) : p \in pairs} : Enough(e, q)}
        Key(e) == CASE q.by = "term" -> <<Rank[e.key], 0 - e.frequency>>
                    [] q.by = "left" -> <<0 - e.left, 0 - e.frequency, Rank[e.key]>>
                    [] q.by = "right" -> <<0 - e.right, 0 - e.frequency, Rank[e.key]>>
                    [] q.by = "range" -> <<0 - e.range, 0 - e.frequency, Rank[e.key]>>
                    [] OTHER -> <<0 - e.frequency, Rank[e.key]>>
        Less(d, e) == LET f == Measure(d.cells, q.by) g == Measure(e.cells, q.by) IN
                      IF q.by \in {"term", "left", "right", "range", "frequency"} THEN SeqLess(Key(d), Key(e))
                      ELSE FractionLess(g, f) \/ (~FractionLess(f, g) /\ SeqLess(Key(d), Key(e)))
    IN  IF QueryFails(q) \/ (q.leftSpan = 0 /\ q.rightSpan = 0) THEN QueryError
        ELSE Extended(Listed(InOrder(kept, Less), q),
                      [nodes |-> Cardinality(nodes), context |-> Cardinality(pairs), corpus |-> Cardinality(corpus)])

CollocateForm(r, languages) ==
    Extended(r, [lang |-> languages[1], terms |-> <<>>, leftSpan |-> 5, rightSpan |-> 5, minFrequency |-> 2, minRange |-> 1,
                tag |-> "", symbols |-> FALSE, by |-> "log_dice", size |-> 50, page |-> 1])

CollocateView(index, languages, r) ==
    LET q == CollocateForm(r, languages) IN
    View(q, IF LanguageRefused(q, languages) \/ QueryFails(q) \/ (q.leftSpan = 0 /\ q.rightSpan = 0) THEN QueryError
            ELSE Collocates(index, q))

\* _plot_bins: a document is cut into equal stretches between its first and
\* its last word in the language.
BinOf(tokens, g, bins) ==
    LET stream == StreamOf(tokens, tokens[g].word.doc, tokens[g].word.lang)
        first == CHOOSE h \in stream : \A k \in stream : h <= k
        last == CHOOSE h \in stream : \A k \in stream : k <= h
    IN  IF first = last THEN 0 ELSE Lower(bins - 1, ((g - first) * (bins - 1)) \div (last - first))

\* _positional_dispersion, 1 for hits that are spread evenly.
Dispersion(counts, bins) ==
    LET total == FoldLeft(+, 0, counts)
        Off(b) == IF counts[b] * bins > total THEN counts[b] * bins - total ELSE total - counts[b] * bins
    IN  IF total <= 1 \/ bins <= 1 THEN <<0, 1>>
        ELSE <<Higher(0, 2 * total * (bins - 1) - FoldLeft(+, 0, [b \in 1..bins |-> Off(b)])), 2 * total * (bins - 1)>>

ConcordancePlot(index, q) ==
    LET tokens == index.tokens
        nodes == NodeRows(tokens, q.lang, NodeTerms(tokens, q))
        overlay == IF q.overlay = <<>> THEN {}
                   ELSE NodeRows(tokens, q.lang, NodeTerms(tokens, [q EXCEPT !.terms = q.overlay]))
        Bins(rows, d) == [b \in 1..q.bins |-> Cardinality({g \in rows :
                            tokens[g].word.doc = d /\ BinOf(tokens, g, q.bins) = b - 1})]
        Document(d) ==
            LET stream == StreamOf(tokens, d, q.lang)
                hits == Cardinality({g \in nodes : tokens[g].word.doc = d})
            IN  [doc |-> d, hits |-> hits, cells |-> Bins(nodes, d), overlay |-> Bins(overlay, d),
                 tokens |-> Cardinality(stream), share |-> <<hits, Cardinality(stream)>>,
                 dispersion |-> Dispersion(Bins(nodes, d), q.bins),
                 first |-> CHOOSE g \in stream : \A h \in stream : g <= h]
        all == {Document(d) : d \in {tokens[g].word.doc : g \in RowsOf(tokens, q.lang, "", TRUE)}}
        kept == {e \in all : q.zero \/ e.hits > 0 \/ \E b \in DOMAIN e.overlay : e.overlay[b] > 0}
        Value(e) == CASE q.by = "filename" -> <<FilePlace(e.doc, FALSE), 1>>
                      [] q.by = "tokens" -> <<e.tokens, 1>>
                      [] q.by = "frequency" -> <<e.hits, 1>>
                      [] q.by = "normalized_frequency" -> e.share
                      [] q.by = "dispersion" -> e.dispersion
                      [] OTHER -> <<e.doc, 1>>
        Before(d, e) == IF q.invert THEN FractionLess(Value(e), Value(d)) ELSE FractionLess(Value(d), Value(e))
        Less(d, e) == Before(d, e) \/ (~Before(e, d) /\ d.first < e.first)
    IN  IF QueryFails(q) \/ (q.overlay # <<>> /\ QueryFails([q EXCEPT !.terms = q.overlay])) THEN QueryError
        ELSE [rows |-> InOrder(kept, Less), total |-> Cardinality(nodes), overlay |-> Cardinality(overlay)]

ConcordancePlotForm(r, languages) ==
    Extended(r, [lang |-> languages[1], terms |-> <<>>, overlay |-> <<>>, by |-> "doc_id", invert |-> FALSE, zero |-> FALSE,
                bins |-> 50])

ConcordancePlotRefused(q, languages) ==
    \/ LanguageRefused(q, languages) \/ QueryFails(q)
    \/ q.overlay # <<>> /\ QueryFails([q EXCEPT !.terms = q.overlay])

ConcordancePlotView(index, languages, r) ==
    LET q == ConcordancePlotForm(r, languages) IN
    View(q, IF ConcordancePlotRefused(q, languages) THEN QueryError ELSE ConcordancePlot(index, q))

=============================================================================
