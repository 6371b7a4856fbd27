------------------------------ MODULE Parallel ------------------------------
(***************************************************************************)
(* The parallel (ParaConc) search of apps/parallel over table              *)
(* parallel_pairs: conditions on both sides, one hit per occurrence of the *)
(* anchor term, thinning, sorting, paging, highlighting and the export of  *)
(* all rows.                                                               *)
(*                                                                         *)
(* A side of a pair is a sequence of surfaces; they have the width and the *)
(* distance of CorpusIndex, so that a span of characters is a record of    *)
(* two positions.  A term is a sequence of surfaces.                       *)
(***************************************************************************)
EXTENDS Search

CONSTANT MaxNth   \* the largest nth_entry, 1000 in the code

-----------------------------------------------------------------------------
(* Spans of a term in a text *)

\* _literal_spans: the occurrences found from left to right, none of which
\* overlaps the one before.  A surface inside a longer one is a prefix of it.
LiteralSpans(words, terms, case) ==
    LET Same(i, j) == Accepts([term |-> terms[j], whole |-> TRUE, case |-> case], words[i + j - 1])
        Within(i) == Accepts([term |-> terms[1], whole |-> FALSE, case |-> case], words[i])
        full == {[from |-> StartOf(i), to |-> EndOf(i + Len(terms) - 1)] :
                    i \in {k \in 1..(Len(words) - Len(terms) + 1) : \A j \in DOMAIN terms : Same(k, j)}}
        partial == IF Len(terms) # 1 THEN {}
                   ELSE {[from |-> StartOf(i), to |-> EndOf(i) - 1] :
                            i \in {k \in DOMAIN words : ~Same(k, 1) /\ Within(k)}}
    IN  IF terms = <<>> THEN <<>> ELSE Marked(full \cup partial)

\* Whole words begin and end where tokens do.
WholeWords(spans, words) ==
    At(spans, {k \in DOMAIN spans : \E i, j \in DOMAIN words : spans[k].from = StartOf(i) /\ spans[k].to = EndOf(j)})

\* _term_spans
TermSpans(words, terms, q) ==
    IF q.whole THEN WholeWords(LiteralSpans(words, terms, q.case), words) ELSE LiteralSpans(words, terms, q.case)

-----------------------------------------------------------------------------
(* Rows and occurrences *)

Text(pair, side) == IF side = "zh" THEN pair.zh ELSE pair.en

\* The conditions of _build_filter.
Includes(pair, side, terms, q) == terms = <<>> \/ TermSpans(Text(pair, side), terms, q) # <<>>
Lacks(pair, side, terms, q) == terms = <<>> \/ TermSpans(Text(pair, side), terms, q) = <<>>

Passes(pair, q) ==
    /\ pair.unit = q.unit
    /\ q.file # "" => q.file \in {pair.zhFile, pair.enFile}
    /\ pair.confidence >= q.confidence
    /\ Includes(pair, q.side, q.terms, q)
    /\ Includes(pair, "zh", q.zh, q) /\ Includes(pair, "en", q.en, q)
    /\ Lacks(pair, "zh", q.zhNot, q) /\ Lacks(pair, "en", q.enNot, q)

RowsOfPairs(pairs, q) ==
    At([i \in DOMAIN pairs |-> Extended(pairs[i], [position |-> i])], {i \in DOMAIN pairs : Passes(pairs[i], q)})

\* _anchor_condition: the term whose occurrences are listed, and its side.
Anchor(q) ==
    LET preferred == IF q.side = "zh" THEN q.zh ELSE q.en IN
    CASE q.terms # <<>> -> [side |-> q.side, terms |-> q.terms]
      [] q.terms = <<>> /\ preferred # <<>> -> [side |-> q.side, terms |-> preferred]
      [] q.terms = <<>> /\ preferred = <<>> /\ q.zh # <<>> -> [side |-> "zh", terms |-> q.zh]
      [] q.terms = <<>> /\ preferred = <<>> /\ q.zh = <<>> /\ q.en # <<>> -> [side |-> "en", terms |-> q.en]
      [] OTHER -> [side |-> q.side, terms |-> <<>>]

NoSpan == [from |-> 0, to |-> 0]

\* _expand_occurrences: a row counts once per occurrence, or once if there
\* is no anchor.
OccurrencesOf(row, q) ==
    LET spans == TermSpans(Text(row, Anchor(q).side), Anchor(q).terms, q) IN
    IF Anchor(q).terms = <<>> THEN <<[row |-> row, ordinal |-> 1, span |-> NoSpan]>>
    ELSE [i \in DOMAIN spans |-> [row |-> row, ordinal |-> i, span |-> spans[i]]]

Expanded(rows, q) == FlattenSeq([i \in DOMAIN rows |-> OccurrencesOf(rows[i], q)])

\* Every nth occurrence: the first, the one n further, and so on.
Thinned(occurrences, n) == [i \in 1..CeilDiv(Len(occurrences), n) |-> occurrences[(i - 1) * n + 1]]

\* _sort_context: the words left and right of the anchor.
SortWord(o, at, side) ==
    LET words == Text(o.row, side)
        left == Cardinality({i \in DOMAIN words : EndOf(i) <= o.span.from})
        right == Cardinality({i \in DOMAIN words : StartOf(i) < o.span.to})
        i == IF at < 0 THEN left + at + 1 ELSE right + at
    IN  IF o.span = NoSpan \/ i \notin DOMAIN words THEN 0 ELSE Rank[Normal[words[i]]]

\* The text of the anchor itself (CEN).
Center(o, side) ==
    LET words == Text(o.row, side) IN
    [i \in 1..3 |-> LET inside == {j \in DOMAIN words : StartOf(j) >= o.span.from /\ StartOf(j) < o.span.to} IN
        IF i > Cardinality(inside) THEN 0
        ELSE Rank[Normal[words[(CHOOSE j \in inside : \A k \in inside : j <= k) + i - 1]]]]

OccurrenceKey(o, q) ==
    LET side == Anchor(q).side
        Value(k) == IF k.by = "C" THEN Center(o, side) ELSE <<SortWord(o, k.at, side)>>
    IN  FlattenSeq([i \in DOMAIN q.sort |-> Value(q.sort[i])]) \o <<o.row.position, o.ordinal>>

SortedOccurrences(occurrences, q) ==
    IF q.sort = <<>> THEN occurrences
    ELSE InOrder(ToSet(occurrences), LAMBDA o, p : SeqLess(OccurrenceKey(o, q), OccurrenceKey(p, q)))

-----------------------------------------------------------------------------
(* What is shown *)

\* _context_slice: so many words around the anchor, with an ellipsis of one
\* character where the text is cut, and where the anchor is then.
ContextSlice(words, span, size) ==
    LET left == {i \in DOMAIN words : EndOf(i) <= span.from}
        right == {i \in DOMAIN words : StartOf(i) >= span.to}
        from == IF Cardinality(left) >= size THEN StartOf(Cardinality(left) - size + 1) ELSE 0
        to == IF Cardinality(right) >= size
              THEN EndOf(Len(words) - Cardinality(right) + size) ELSE TextLength(Len(words))
        prefix == IF from > 0 THEN 1 ELSE 0
        suffix == IF to < TextLength(Len(words)) THEN 1 ELSE 0
    IN  [from |-> from, to |-> to, length |-> prefix + to - from + suffix,
         anchor |-> [from |-> prefix + span.from - from, to |-> prefix + span.to - from]]

\* highlight_fragments: of the spans at one place the longest is marked.
Highlighted(words, phrases, q) ==
    LET spans == UNION {ToSet(TermSpans(words, t, q)) : t \in phrases}
        ordered == InOrder(spans, LAMBDA s, t : s.from < t.from \/ (s.from = t.from /\ s.to > t.to))
        marked == FoldLeft(LAMBDA done, s : IF done # <<>> /\ s.from < Last(done).to THEN done ELSE Append(done, s),
                           <<>>, ordered)
    IN  Segments([i \in DOMAIN marked |-> Extended(marked[i], [row |-> 0])], TextLength(Len(words)))

\* _row_to_hit: the side of the anchor is cut to its context and shows the
\* anchor only; the other side shows what its own conditions match.
RowToHit(o, q) ==
    LET side == Anchor(q).side
        other == IF side = "zh" THEN "en" ELSE "zh"
        Phrases(s) == {IF s = "zh" THEN q.zh ELSE q.en} \cup (IF s = q.side THEN {q.terms} ELSE {})
        slice == ContextSlice(Text(o.row, side), o.span, q.context)
        whole == [from |-> 0, to |-> TextLength(Len(Text(o.row, side))),
                  length |-> TextLength(Len(Text(o.row, side))), anchor |-> NoSpan]
    IN  [position |-> o.row.position, ordinal |-> o.ordinal,
         shown |-> IF o.span = NoSpan THEN whole ELSE slice,
         fragments |-> IF o.span = NoSpan THEN Highlighted(Text(o.row, side), Phrases(side), q)
                       ELSE Segments(<<Extended(slice.anchor, [row |-> 0])>>, slice.length),
         opposite |-> Highlighted(Text(o.row, other), Phrases(other), q)]

\* _alignment_quality_summary.  A side without words is a gap.
Quality(rows) ==
    LET Gap(r) == r.zh = <<>> \/ r.en = <<>>
        Count(Test(_)) == Cardinality({i \in DOMAIN rows : Test(rows[i])})
    IN  [total |-> Len(rows),
         verified |-> Count(LAMBDA r : r.method = "provided" /\ ~Gap(r)),
         ordered |-> Count(LAMBDA r : r.method = "provided_order" /\ ~Gap(r)),
         automatic |-> Count(LAMBDA r : r.method = "automatic"),
         review |-> Count(LAMBDA r : r.method = "automatic" /\ r.confidence < 85),
         gap |-> Count(Gap)]

-----------------------------------------------------------------------------
(* Search and export *)

ValidPairQuery(q) ==
    /\ q.nth \in 1..MaxNth
    /\ q.mode = "search" => q.terms # <<>> \/ q.zh # <<>> \/ q.en # <<>>

\* With and without sort keys the occurrences are thinned before they are
\* sorted and cut into pages.
PairSearch(pairs, q) ==
    LET rows == RowsOfPairs(pairs, q)
        raw == Expanded(rows, q)
        kept == SortedOccurrences(Thinned(raw, q.nth), q)
        shown == PageOf(kept, q.page, q.size)
    IN  IF ~ValidPairQuery(q) THEN QueryError
        ELSE [hits |-> [i \in DOMAIN shown |-> RowToHit(shown[i], q)],
              total |-> Len(kept), raw |-> Len(raw), quality |-> Quality(rows),
              page |-> EffectivePage(q.page, NumPages(Len(kept), q.size)), pages |-> NumPages(Len(kept), q.size)]

\* ParallelSearchForm and parallel_search.  The units a corpus is aligned in
\* depend on its type; the first is the default.
PairForm(r, units) ==
    Extended(r, [mode |-> "search", terms |-> <<>>, side |-> "zh", zh |-> <<>>, en |-> <<>>, zhNot |-> <<>>, enNot |-> <<>>,
                file |-> "", confidence |-> 0, unit |-> units[1], whole |-> FALSE, case |-> FALSE, sort |-> <<>>,
                context |-> 20, nth |-> 1, page |-> 1, size |-> 50])

PairView(pairs, units, r) ==
    LET q == PairForm(r, units) IN
    [query |-> q, answer |-> IF q.unit \notin ToSet(units) \/ q.page < 1 THEN QueryError ELSE PairSearch(pairs, q)]

\* What _normalize_query of the exports keeps of a search.
ExportedConditions(q) == [q EXCEPT !.mode = "search", !.file = "", !.confidence = 0, !.context = 20]

\* iter_export_rows: all occurrences of one reading of the table.
PairExportRows(pairs, q) ==
    LET kept == SortedOccurrences(Thinned(Expanded(RowsOfPairs(pairs, q), q), q.nth), q)
    IN  IF ~ValidPairQuery(q) THEN QueryError
        ELSE [rows |-> [i \in DOMAIN kept |-> [position |-> kept[i].row.position, ordinal |-> kept[i].ordinal]]]

=============================================================================
