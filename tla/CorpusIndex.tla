---------------------------- MODULE CorpusIndex ----------------------------
(***************************************************************************)
(* The tables of the SQLite index that ArtifactWriter builds from the      *)
(* results of the importers, as pure functions.                            *)
(*                                                                         *)
(* A result is the sequence of its sentences, a sentence has a document, a *)
(* language and a sequence of words, a word is a surface with a tag.       *)
(* Texts are abstract: every word is WordWidth characters long and one     *)
(* character separates it from the next, so that a span of characters can  *)
(* be compared with a span of words.                                       *)
(***************************************************************************)
EXTENDS Naturals, Sequences, SequencesExt

CONSTANTS
    Normal,    \* Normal[s]: the case-folded form of the surface s
    Symbols,   \* surfaces that consist of punctuation only
    GramSizes  \* lengths of the stored n-grams, 2..5 in the code

ASSUME NormalAssumption == \A s \in DOMAIN Normal : Normal[s] \in DOMAIN Normal /\ Normal[Normal[s]] = Normal[s]

\* Folding the case of a word leaves its punctuation, and adds none.
ASSUME SymbolsAssumption == \A s, t \in DOMAIN Normal : Normal[s] = Normal[t] => (s \in Symbols <=> t \in Symbols)

ASSUME GramSizesAssumption == GramSizes \subseteq Nat \ {0}

\* The elements of a finite set in a strict total order.
InOrder(S, Less(_, _)) ==
    LET places == {[at |-> Cardinality({y \in S : Less(y, x)}), element |-> x] : x \in S} IN
    [i \in 1..Cardinality(S) |-> (CHOOSE p \in places : p.at = i - 1).element]

\* The elements of a sequence at some of its places.
At(s, places) == LET order == InOrder(places, <) IN [i \in DOMAIN order |-> s[order[i]]]

\* A record with further fields, where it lacks them (@@ of module TLC, by a
\* definition that proofs can expand).
Extended(record, fields) ==
    [f \in DOMAIN record \cup DOMAIN fields |-> IF f \in DOMAIN record THEN record[f] ELSE fields[f]]

WordWidth == 2

\* _write_document_streams joins sentences by one character, like words.
StartOf(stream) == (WordWidth + 1) * (stream - 1)
EndOf(stream) == StartOf(stream) + WordWidth
TextLength(words) == IF words = 0 THEN 0 ELSE EndOf(words)

\* The rows of table tokens, by global position.  Importers emit the tokens
\* of a result sentence after sentence.
TokenRows(results) ==
    LET written == FlattenSeq([r \in DOMAIN results |->
            FlattenSeq([s \in DOMAIN results[r] |->
                [w \in DOMAIN results[r][s].words |->
                    [text |-> results[r][s].words[w].text,
                     tag |-> results[r][s].words[w].tag,
                     doc |-> results[r][s].doc,
                     lang |-> results[r][s].lang,
                     sentence |-> <<r, s>>,
                     ordinal |-> w]]])])
    IN  [g \in DOMAIN written |->
            [word |-> written[g], row |-> g,
             stream |-> Cardinality({h \in 1..g : /\ written[h].doc = written[g].doc
                                                  /\ written[h].lang = written[g].lang})]]

\* The row that follows row g by `offset` words in its stream, if any.
Beside(tokens, g, offset) ==
    {h \in DOMAIN tokens :
        /\ tokens[h].word.doc = tokens[g].word.doc
        /\ tokens[h].word.lang = tokens[g].word.lang
        /\ tokens[h].stream = tokens[g].stream + offset}

StreamOf(tokens, doc, lang) ==
    {g \in DOMAIN tokens : tokens[g].word.doc = doc /\ tokens[g].word.lang = lang}

NormalAt(tokens, g) == Normal[tokens[g].word.text]

\* Table word_totals; word_frequencies also groups by tag.
Counted(tokens, rows) ==
    [frequency |-> Cardinality(rows),
     range |-> Cardinality({tokens[g].word.doc : g \in rows}),
     symbol |-> \A g \in rows : tokens[g].word.text \in Symbols]

\* Mutant: words are counted by their surface.
WordTotalsBySurface(tokens) ==
    [key \in {<<tokens[g].word.lang, NormalAt(tokens, g)>> : g \in DOMAIN tokens} |->
        Counted(tokens, {g \in DOMAIN tokens :
            tokens[g].word.lang = key[1] /\ tokens[g].word.text = key[2]})]

WordTotals(tokens) ==
    [key \in {<<tokens[g].word.lang, NormalAt(tokens, g)>> : g \in DOMAIN tokens} |->
        Counted(tokens, {g \in DOMAIN tokens :
            tokens[g].word.lang = key[1] /\ NormalAt(tokens, g) = key[2]})]

WordFrequencies(tokens) ==
    [key \in {<<tokens[g].word.lang, NormalAt(tokens, g), tokens[g].word.tag>> :
                g \in DOMAIN tokens} |->
        Counted(tokens, {g \in DOMAIN tokens :
            /\ tokens[g].word.lang = key[1]
            /\ NormalAt(tokens, g) = key[2]
            /\ tokens[g].word.tag = key[3]})]

\* The n-grams of one result: windows of words inside a sentence.
GramAt(result, at) ==
    <<result[at.sentence].lang,
      [i \in 1..at.size |-> Normal[result[at.sentence].words[at.first + i - 1].text]]>>

GramWindows(result) ==
    UNION {[sentence : {s}, size : {n}, first : 1..(Len(result[s].words) - n + 1)] :
            s \in DOMAIN result, n \in {m \in GramSizes : \E s \in DOMAIN result : m <= Len(result[s].words)}}

ResultGrams(result) ==
    LET windows == GramWindows(result) IN
    [key \in {GramAt(result, at) : at \in windows} |->
        LET here == {at \in windows : GramAt(result, at) = key} IN
        [frequency |-> Cardinality(here),
         range |-> Cardinality({result[at.sentence].doc : at \in here}),
         symbol |-> \E at \in here : \E i \in 1..at.size :
                        result[at.sentence].words[at.first + i - 1].text \in Symbols]]

\* ON CONFLICT ... DO UPDATE adds what an earlier result has inserted.
AddGrams(table, grams) ==
    [key \in DOMAIN table \cup DOMAIN grams |->
        IF key \notin DOMAIN table THEN grams[key]
        ELSE IF key \notin DOMAIN grams THEN table[key]
        ELSE [frequency |-> table[key].frequency + grams[key].frequency,
              range |-> table[key].range + grams[key].range,
              symbol |-> table[key].symbol \/ grams[key].symbol]]

EmptyTable == [key \in {} |-> [frequency |-> 0, range |-> 0, symbol |-> FALSE]]

NgramTable(results) ==
    FoldLeft(AddGrams, EmptyTable, [r \in DOMAIN results |-> ResultGrams(results[r])])

\* Counts of documentation.json, shown on the page of the corpus.
Documentation(results, tokens) ==
    [tokens |-> Len(tokens),
     types |-> Cardinality(DOMAIN WordTotals(tokens)),
     sentences |-> FoldLeft(+, 0, [r \in DOMAIN results |-> Len(results[r])])]

Index(results) ==
    LET tokens == TokenRows(results) IN
    [tokens |-> tokens,
     totals |-> WordTotals(tokens),
     frequencies |-> WordFrequencies(tokens),
     ngrams |-> NgramTable(results),
     documentation |-> Documentation(results, tokens)]

=============================================================================
