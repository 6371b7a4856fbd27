---------------------------- MODULE CorpusPages ----------------------------
(***************************************************************************)
(* A reader at work on one corpus: pages of the concordance, files, word   *)
(* statistics and parallel pairs, and the export of a result, while the    *)
(* index may be published anew.                                            *)
(*                                                                         *)
(* Every request opens the index that is published at that moment.  The    *)
(* export of a concordance repeats the search page by page and opens the   *)
(* index for every page; that of parallel pairs reads one cursor.          *)
(***************************************************************************)
EXTENDS Statistics, Parallel

CONSTANTS
    Corpora,         \* what may be published: name, languages, results, pairs, ...
    Requests,        \* [view, query] of the tools
    ExportSize,      \* page_size of an export, 100 in the code
    MaxPublications  \* bound on publications

\* What importers hand to the writer: documents, languages and tagged words.
SentenceRecords == [doc : DOMAIN FileName, lang : STRING, words : Seq([text : DOMAIN Normal, tag : STRING])]

\* Rows of table parallel_pairs.
PairRecords ==
    [zh : Seq(DOMAIN Normal), en : Seq(DOMAIN Normal), unit : STRING, method : STRING, confidence : Nat,
     zhFile : STRING, enFile : STRING]

DocumentsOf(result) == {result[s].doc : s \in DOMAIN result}

\* An importer makes the documents of its sources: two results share none
\* (document_id is the key of table documents).
ASSUME CorporaAssumption ==
    \A c \in Corpora :
        /\ DOMAIN c = {"name", "languages", "segmenter", "units", "results", "pairs", "reference"}
        /\ c.results \in Seq(Seq(SentenceRecords))
        /\ c.pairs \in Seq(PairRecords)
        /\ \A r, t \in DOMAIN c.results : r # t => DocumentsOf(c.results[r]) \cap DocumentsOf(c.results[t]) = {}

IsList(terms) == terms \in Seq(ToSet(terms))

\* SORT_FIELDS: the match itself, its file, its row or a word beside it; a
\* blank key stands for none.
SortKey(k) == k.by \in {"", "C", "FILE", "ROW_ID"} \/ k.at \in (-5..5) \ {0}

\* Numbers of a request are integers; terms, lists of them and sort keys come
\* one after the other, and terms are words; the size of a page is chosen from
\* a list, save in the concordance, as are the slot of an n-gram and the
\* context of a parallel search.
ASSUME RequestsAssumption ==
    \A r \in Requests :
        /\ \A f \in {"page", "size", "sample", "seed", "context", "nth", "windowFrom", "windowTo",
                     "leftSpan", "rightSpan"} \cap DOMAIN r.query :
                r.query[f] \in Int
        /\ \A f \in {"terms", "list", "items", "sort", "zh", "en"} \cap DOMAIN r.query : IsList(r.query[f])
        /\ "terms" \in DOMAIN r.query => ToSet(r.query.terms) \subseteq DOMAIN Normal
        /\ "list" \in DOMAIN r.query => \A t \in ToSet(r.query.list) : IsList(t)
        /\ "items" \in DOMAIN r.query => \A i \in ToSet(r.query.items) : IsList(i.terms)
        /\ "slot" \in DOMAIN r.query => r.query.slot \in Nat
        /\ r.view = "kwic" /\ "sort" \in DOMAIN r.query => \A k \in ToSet(r.query.sort) : SortKey(k)
        /\ r.view # "kwic" /\ "size" \in DOMAIN r.query => r.query.size >= 1
        /\ r.view = "pairs" /\ "context" \in DOMAIN r.query => r.query.context \in Nat

ASSUME BoundsAssumption == ExportSize \in Nat \ {0} /\ MaxPublications \in Nat \ {0}

VARIABLES
    corpus,    \* the corpus that is published
    version,   \* how often it has been published
    visit,     \* the last page: its request, its answer and its corpus
    export     \* the export of that page

vars == <<corpus, version, visit, export>>

NoVisit == [view |-> "none"]
NoExport == [state |-> "none", streamed |-> FALSE, rows |-> <<>>, page |-> 1, versions |-> {}]

\* What the directories of a published corpus hold, with the index of the
\* corpus that keywords are compared with.
Indexed(c) == Extended(c, [index |-> Index(c.results)])
Artifacts(c) == Indexed([c EXCEPT !.reference = Indexed(@)])

TypeOK ==
    /\ corpus.name \in {c.name : c \in Corpora} /\ version \in 1..MaxPublications
    /\ visit # NoVisit => visit.version \in 1..version
    /\ visit.view \in {"kwic", "pairs"} /\ ~IsError(visit.answer) =>
            /\ visit.answer.page \in 1..visit.answer.pages
            /\ Len(visit.answer.hits) <= visit.answer.total
    /\ export.state \in {"none", "running", "done", "failed"}
    /\ export.versions \subseteq 1..version

Init ==
    /\ corpus \in {Artifacts(c) : c \in Corpora} /\ version = 1
    /\ visit = NoVisit /\ export = NoExport

Answered(tool, page) ==
    /\ visit = NoVisit
    /\ visit' = [query |-> page.query, answer |-> page.answer, view |-> tool, corpus |-> corpus, version |-> version]
    /\ UNCHANGED <<corpus, version, export>>

RequestsOf(tool) == {r.query : r \in {s \in Requests : s.view = tool}}

\* The views.  A refused form and an error of the query are answers, too.
KwicPage == \E r \in RequestsOf("kwic") : Answered("kwic", KwicView(corpus.index, corpus.languages, r))
WordListPage == \E r \in RequestsOf("words") : Answered("words", WordListView(corpus.index, corpus.languages, r))
ClusterPage == \E r \in RequestsOf("clusters") : Answered("clusters", ClusterView(corpus.index, corpus.languages, r))
NgramPage == \E r \in RequestsOf("ngrams") : Answered("ngrams", NgramView(corpus.index, corpus.languages, r))
KeywordPage == \E r \in RequestsOf("keywords") : Answered("keywords", KeywordView(corpus, corpus.reference, r))
WordcloudPage == \E r \in RequestsOf("cloud") : Answered("cloud", WordcloudView(corpus.index, corpus.languages, r))
CollocatePage == \E r \in RequestsOf("collocates") : Answered("collocates", CollocateView(corpus.index, corpus.languages, r))
PlotPage == \E r \in RequestsOf("plot") : Answered("plot", ConcordancePlotView(corpus.index, corpus.languages, r))
PairPage == \E r \in RequestsOf("pairs") : Answered("pairs", PairView(corpus.pairs, corpus.units, r))

\* A hit of the concordance opens its file.
FilePage ==
    /\ visit.view = "kwic" /\ ~IsError(visit.answer) /\ export.state = "none"
    /\ \E i \in DOMAIN visit.answer.hits : LET hit == visit.answer.hits[i] IN
        visit' = [visit EXCEPT !.view = "file", !.corpus = corpus, !.version = version, !.answer =
                    Extended(FileView(corpus.index, visit.query, hit.doc, hit.row),
                             [row |-> hit.row, from |-> visit.version])]
    /\ UNCHANGED <<corpus, version, export>>

-----------------------------------------------------------------------------
(* Export *)

\* Mutant: the sort keys are not kept.
ExportedQueryUnsorted(q) == [q EXCEPT !.size = ExportSize, !.sample = 0, !.seed = 0, !.sort = <<>>]

\* Sample and page are those of the screen; the export has its own pages.
ExportedQuery(q) == [q EXCEPT !.size = ExportSize, !.sample = 0, !.seed = 0]

\* What is compared of a hit: where it is.
HitsOf(hits) == [i \in DOMAIN hits |-> [row |-> hits[i].row, length |-> hits[i].length]]

StartExport ==
    /\ visit.view \in {"kwic", "pairs"} /\ ~IsError(visit.answer)
    /\ export.state = "none"
    /\ export' = [export EXCEPT !.state = "running"]
    /\ UNCHANGED <<corpus, version, visit>>

\* One round of the loop of _kwic_rows: the rows of a page are written, and
\* the loop ends behind the last page of that answer.
WithPage(result) ==
    IF IsError(result) THEN [export EXCEPT !.state = "failed"]
    ELSE LET last == export.page >= result.pages IN
         [export EXCEPT !.state = IF last THEN "done" ELSE "running",
                        !.rows = @ \o HitsOf(result.hits),
                        !.page = IF last THEN @ ELSE @ + 1,
                        !.versions = @ \cup {version}]

ExportKwicPage ==
    /\ visit.view = "kwic" /\ export.state = "running"
    /\ export' = WithPage(KwicSearch(corpus.index, [ExportedQuery(visit.query) EXCEPT !.page = export.page]))
    /\ UNCHANGED <<corpus, version, visit>>

\* _parallel_rows
ExportPairs ==
    /\ visit.view = "pairs" /\ export.state = "running"
    /\ LET result == PairExportRows(corpus.pairs, ExportedConditions(visit.query)) IN
       export' = IF IsError(result) THEN [export EXCEPT !.state = "failed"]
                 ELSE [export EXCEPT !.state = "done", !.rows = result.rows, !.versions = {version}]
    /\ UNCHANGED <<corpus, version, visit>>

\* parallel_export streams the rows of the conditions on the screen.
StreamPairs ==
    /\ visit.view = "pairs" /\ ~IsError(visit.answer) /\ export.state = "none"
    /\ export' = [export EXCEPT !.state = "done", !.streamed = TRUE, !.versions = {version},
                                !.rows = PairExportRows(corpus.pairs, visit.query).rows]
    /\ UNCHANGED <<corpus, version, visit>>

\* The writer's _publish replaces the index under running readers.
Publish ==
    /\ version < MaxPublications
    /\ corpus' \in {Artifacts(c) : c \in {d \in Corpora : d.name # corpus.name}} /\ version' = version + 1
    /\ UNCHANGED <<visit, export>>

Next ==
    \/ KwicPage \/ FilePage \/ WordListPage \/ ClusterPage \/ NgramPage \/ KeywordPage
    \/ WordcloudPage \/ CollocatePage \/ PlotPage \/ PairPage
    \/ StartExport \/ ExportKwicPage \/ ExportPairs \/ StreamPairs \/ Publish

Spec == Init /\ [][Next]_vars

-----------------------------------------------------------------------------
(* What the pages promise *)

\* A page as it has just been answered.
Shows(view) == /\ visit.view = view /\ ~IsError(visit.answer)
               /\ export = NoExport /\ version = visit.version

\* The hits of all pages, turned one after the other.
KwicPages == FlattenSeq([p \in 1..visit.answer.pages |-> KwicSearch(visit.corpus.index, [visit.query EXCEPT !.page = p]).hits])
PairPages == FlattenSeq([p \in 1..visit.answer.pages |-> PairSearch(visit.corpus.pairs, [visit.query EXCEPT !.page = p]).hits])

PlacesOf(hits) == [i \in DOMAIN hits |-> [position |-> hits[i].position, ordinal |-> hits[i].ordinal]]

\* Turning the pages of a concordance to the last shows every match once, in
\* whatever order it is sorted: the total over the pages, and every page of
\* it, are the same for all pages (search and search_advanced).
HitsOnce(all) ==
    LET q == visit.query
        shown == visit.answer.hits IN
    /\ Len(all) = visit.answer.total
    /\ IsInjective(all)
    /\ q.sample = 0 =>
            \A i \in DOMAIN shown : HitsOf(shown)[i] = all[(visit.answer.page - 1) * q.size + i]

KwicPagesPartition == Shows("kwic") => HitsOnce(HitsOf(KwicPages))

\* SQL and memory sort by file alike: no name has a letter outside ASCII that
\* casefold folds, and, when matches are counted, no two names differ in case.
FilesAlike(tokens, q) ==
    (\E i \in DOMAIN q.sort : q.sort[i].by = "FILE") =>
        \A d, e \in {tokens[g].word.doc : g \in DOMAIN tokens} :
            /\ FileRank[d] = FoldedRank[d]
            /\ q.order = "frequency" /\ FoldedRank[d] = FoldedRank[e] => FileName[d] = FileName[e]

\* SQL and memory sort by key C alike: matches of one word.
WordsAlike(tokens, q) ==
    Len(ResolvedTerms(tokens, q, q.terms)) = 1 \/ \A i \in DOMAIN q.sort : q.sort[i].by # "C"

\* The simple search, which sorts and counts in SQL, the advanced search,
\* which does so in memory, and the CQP search with the same words, again in
\* SQL, show the same hits in the same order.  (Between SQL and memory the
\* order differs by key C for phrases and by key FILE for names the two fold
\* or count differently, and only the advanced search sorts a sample without
\* keys.  CQP refuses a wildcard in quotes, and does not take a Chinese query
\* as one word.)
EnginesAgree ==
    Shows("kwic") /\ visit.query.mode = "simple" /\ visit.query.list = <<>> /\ visit.query.near = <<>> =>
        LET q == visit.query
            index == visit.corpus.index
            advanced == SearchAdvanced(index, q)
            cqp == SearchComplex(index, [q EXCEPT !.items = <<[kind |-> "quoted", terms |-> q.terms]>>])
        IN  /\ advanced.total = visit.answer.total
            /\ q.sample > 0 => ToSet(HitsOf(advanced.hits)) = ToSet(HitsOf(visit.answer.hits))
            /\ (IF q.sample > 0 THEN NormalizeSortKeys(q.sort) # <<>>
                ELSE WordsAlike(index.tokens, q) /\ FilesAlike(index.tokens, q)) =>
                    HitsOf(advanced.hits) = HitsOf(visit.answer.hits)
            /\ q.sample = 0 /\ q.whole /\ ~q.case /\ q.lang = "en" /\ ToSet(q.terms) \cap DOMAIN Pattern = {} =>
                    HitsOf(cqp.hits) = HitsOf(visit.answer.hits)

\* The number of hits with the same pattern (kpf_count) on a page is that of
\* the whole result, whatever the page and the width of the context.
PatternCountsAgree ==
    Shows("kwic") /\ visit.query.mode # "cqp" /\ visit.query.sample = 0 /\ visit.query.sort # <<>> =>
        LET q == visit.query
            tokens == visit.corpus.index.tokens
            keys == NormalizeSortKeys(q.sort)
            all == HitsOf(KwicPages)
            PatternOf(h) == HitPattern(tokens, DOMAIN tokens, [row |-> h.row, length |-> h.length], keys)
        IN  \A i \in DOMAIN visit.answer.hits :
                visit.answer.hits[i].kpf =
                    Cardinality({j \in DOMAIN all : PatternOf(all[j]) = PatternOf(visit.answer.hits[i])})

\* The file view cuts the text without gaps and overlaps, and the word from
\* which the file was opened is highlighted, by its own hit or by one that
\* overlaps it, unless the corpus was published in between.  (A Chinese query
\* that is itself a word is left out: the file view splits it, the concordance
\* does not.)
FileShowsTheHit ==
    Shows("file") /\ visit.answer.from = visit.version =>
        LET segments == visit.answer.segments
            tokens == visit.corpus.index.tokens
            place == StartOf(tokens[visit.answer.row].stream)
        IN  /\ segments[1].from = 0
            /\ Last(segments).to = TextLength(visit.answer.tokens)
            /\ \A i \in 2..Len(segments) : segments[i].from = segments[i - 1].to
            /\ visit.query.mode = "simple" /\ visit.query.lang = "en" /\ visit.query.list = <<>> =>
                \E i \in DOMAIN segments : segments[i].hit /\ segments[i].from <= place /\ place < segments[i].to

\* A plain concordance of one word.
WordQuery(term, lang) ==
    [terms |-> <<term>>, whole |-> TRUE, case |-> FALSE, page |-> 1, size |-> 100, context |-> 5,
     sample |-> 0, seed |-> 0, sort |-> <<>>, order |-> "value", tag |-> "", lang |-> lang]

\* A word has one frequency: in the word list, be it stored or counted, in
\* the word cloud, as the total of its concordance and in its plot, whose
\* cells count every hit once.  (Words that a query does not take as they
\* stand are left out of the last two: those it splits, unless it is Chinese,
\* and in the concordance those it reads as a wildcard.)
FrequenciesAgree ==
    Shows("words") /\ visit.query.display = "type" /\ ~visit.query.case /\ visit.query.tag = "" =>
        LET q == visit.query
            index == visit.corpus.index
            listing == [q EXCEPT !.minFrequency = 1, !.minRange = 1, !.filter = "", !.page = 1, !.by = "frequency",
                                 !.size = Higher(1, Cardinality(DOMAIN index.totals)),
                                 !.invert = FALSE, !.listMode = "none", !.listTerms = {}]
            Counts(rows, key) == {rows[j].frequency : j \in {k \in DOMAIN rows : rows[k].key = key}}
        IN  \A i \in DOMAIN visit.answer.rows :
                LET e == visit.answer.rows[i]
                    word == e.key[1]
                    concordance == SearchSimple(index, WordQuery(word, q.lang))
                    plot == ConcordancePlot(index, [terms |-> <<word>>, lang |-> q.lang, overlay |-> <<>>, bins |-> 3,
                                                    by |-> "doc_id", invert |-> FALSE, zero |-> FALSE])
                    cells == FlattenSeq([d \in DOMAIN plot.rows |-> plot.rows[d].cells])
                    Split == word \in DOMAIN Compound /\ q.lang # "zh"
                IN  /\ Counts(StaticWordList(index, listing).rows, e.key) = {e.frequency}
                    /\ Counts(DynamicWordList(index, listing).rows, e.key) = {e.frequency}
                    /\ Counts(Wordcloud(index, listing).rows, word) = {e.frequency}
                    /\ ~Split /\ word \notin DOMAIN Pattern /\ ~IsError(concordance) => concordance.total = e.frequency
                    /\ ~Split /\ ~QueryFails([terms |-> <<word>>, lang |-> q.lang]) =>
                            plot.total = e.frequency /\ FoldLeft(+, 0, cells) = e.frequency

\* The n-grams stored with the index, file by file, are the windows one
\* counts in its tokens: each with its frequency and its number of
\* documents; and an open slot adds up the n-grams that fill it.
GramsAgree ==
    Shows("ngrams") =>
        LET q == visit.query
            index == visit.corpus.index
            windows == Windows(index.tokens, q.lang, q.n, q.symbols)
            Gram(g) == WindowText(index.tokens, g, q.n)
            stored == {k \in DOMAIN index.ngrams : k[1] = q.lang /\ Len(k[2]) = q.n /\ (q.symbols \/ ~index.ngrams[k].symbol)}
            Fills(k, key) == \A i \in DOMAIN key \ {q.slot} : key[i] = k[2][i]
        IN  \A i \in DOMAIN visit.answer.rows : LET e == visit.answer.rows[i] IN
                IF q.slot = 0
                THEN \E t \in Tally(index.tokens, [g \in windows |-> Gram(g)]) :
                        t.key = e.key /\ t.frequency = e.frequency /\ t.range = e.range
                ELSE e.frequency = MapThenSumSet(LAMBDA k : index.ngrams[k].frequency, {k \in stored : Fills(k, e.key)})

\* Collocation is symmetric: a word stands left of the node as often as the
\* node stands right of it; and the contingency table of a collocate is one,
\* without negative cells, so that ContingencyTable never raises.
CollocatesMirror ==
    Shows("collocates") =>
        LET q == visit.query
            tokens == visit.corpus.index.tokens
        IN  \A i \in DOMAIN visit.answer.rows :
                LET e == visit.answer.rows[i]
                    nodes == NodeRows(tokens, q.lang, <<e.key>>)
                    mirrored == ContextPairs(tokens, nodes, 1, [q EXCEPT !.leftSpan = q.rightSpan, !.rightSpan = q.leftSpan])
                    back == {p \in mirrored : NormalAt(tokens, p[2]) = Folded(q.terms)[1]}
                IN  /\ \A c \in 1..4 : e.cells[c] >= 0
                    /\ e.left + e.right = e.frequency
                    /\ Len(q.terms) = 1 /\ q.tag = "" /\ q.terms[1] \notin Symbols /\ q.terms[1] \notin DOMAIN Compound =>
                            /\ Cardinality({p \in back : p[1] < p[2]}) = e.left
                            /\ Cardinality({p \in back : p[1] > p[2]}) = e.right

\* The pages of a parallel search show every nth occurrence once; excerpts
\* stay in their text, and the anchor that is marked in one is as long as the
\* term, whether the result is sorted or not.
PairsOnce(all) ==
    LET q == visit.query IN
    /\ Len(all) = visit.answer.total /\ Len(all) = CeilDiv(visit.answer.raw, q.nth)
    /\ IsInjective([i \in DOMAIN all |-> <<all[i].position, all[i].ordinal>>])
    /\ \A i \in DOMAIN all : \A j \in DOMAIN all[i].fragments :
            /\ all[i].fragments[j].to <= all[i].shown.length
            /\ all[i].fragments[j].hit /\ q.terms # <<>> =>
                /\ all[i].shown.anchor.to - all[i].shown.anchor.from \in
                        {EndOf(Len(q.terms)), EndOf(Len(q.terms)) - 1}
                /\ all[i].shown.from > 0 => all[i].shown.anchor.from > 0

PairPagesPartition == Shows("pairs") => PairsOnce(PairPages)

\* Pages of hits and of pairs partition the result.
PagesPartition == KwicPagesPartition /\ PairPagesPartition

\* Lists, plots, concordances and n-grams count the same tokens.
CountsAgree == FrequenciesAgree /\ GramsAgree

\* A finished export of which every page was read from the publication that
\* is on the screen.
Comparable == export.state = "done" /\ export.versions = {visit.version}

\* Such an export holds what the pages on the screen hold, in their order:
\* that of a concordance, the stream of parallel pairs, and the job of
\* parallel pairs if _normalize_query keeps all conditions of the search.
ExportIsTheSearch ==
    Comparable =>
        IF visit.view = "pairs"
        THEN export.streamed \/ visit.query = ExportedConditions(visit.query) =>
                export.rows = PlacesOf(PairPages)
        ELSE visit.query.sample = 0 =>
                export.rows = HitsOf(KwicPages)

=============================================================================
