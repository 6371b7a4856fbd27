--------------------------- MODULE MCCorpusPages ---------------------------
(* Small corpora and requests for CorpusPages. *)
EXTENDS CorpusPages

Surfaces == {"a", "A", "ab", "b", "c", "d", ",", "x", "y", "xy", "p"}

MCNormal == [s \in Surfaces |-> IF s = "A" THEN "a" ELSE s]
MCSymbols == {","}
MCRank == [s \in Surfaces |-> CASE s = "," -> 1 [] s \in {"a", "A"} -> 2 [] s = "ab" -> 3 [] s = "b" -> 4
                                [] s = "c" -> 5 [] s = "d" -> 6 [] s = "p" -> 7
                                [] s = "x" -> 8 [] s = "xy" -> 9 [] s = "y" -> 10]
MCEndRank == [s \in Surfaces |-> CASE s = "," -> 1 [] s \in {"a", "A"} -> 2 [] s = "b" -> 3 [] s = "ab" -> 4
                                   [] s = "c" -> 5 [] s = "d" -> 6 [] s = "p" -> 7
                                   [] s = "x" -> 8 [] s = "y" -> 9 [] s = "xy" -> 10]
MCLemma == [s \in Surfaces |-> IF s = "ab" THEN "b" ELSE s]
\* File names: two differ in case, and a capital letter that is not in ASCII
\* comes before the last name as it stands, and behind it when folded.
MCFileName == <<"e", "E", "d", "E acute", "a grave">>
MCFileRank == <<2, 2, 1, 3, 4>>
MCFoldedRank == <<2, 2, 1, 5, 4>>
MCPattern == [p \in {"p"} |-> {"a", "ab"}]
MCCompound == [s \in {"xy"} |-> <<"x", "y">>]
MCInside == {<<s, s>> : s \in Surfaces} \cup {<<"a", "ab">>, <<"b", "ab">>, <<"x", "xy">>, <<"y", "xy">>}
MCAcross == {<<"zh", "xy", <<"x", "y">>>>}
MCHan == {"x", "y", "xy"}

\* Sentences
Noun(s) == [text |-> s, tag |-> "n"]
Verb(s) == [text |-> s, tag |-> "v"]
Sentence(doc, lang, words) == [doc |-> doc, lang |-> lang, words |-> words]

\* Pairs of one kind of method per row.
Pair(zh, en, method, confidence) ==
    [zh |-> zh, en |-> en, unit |-> "sentence", method |-> method, confidence |-> confidence,
     zhFile |-> "f", enFile |-> IF method = "provided" THEN "e" ELSE "g"]

SomePairs ==
    <<Pair(<<"x", "y", "x">>, <<"a", "b">>, "provided", 100),
      Pair(<<"xy">>, <<"A", "b", "a", "ab">>, "automatic", 70),
      Pair(<<"x">>, <<>>, "automatic", 90)>>

OtherPairs ==
    <<Pair(<<"x", "x", "x", "y">>, <<"ab", "a", "a">>, "provided_order", 100),
      Pair(<<"y", "x", "y", "x">>, <<"b", "a", "b", "b">>, "provided", 100)>>

MCReference ==
    [languages |-> <<"en", "zh">>, segmenter |-> [en |-> "s", zh |-> "t"],
     results |-> <<<<Sentence(1, "en", <<Noun("b"), Noun("b"), Noun("a")>>), Sentence(1, "zh", <<Noun("x")>>)>>>>]

\* A document of two sentences, and one in two languages.
Corpus(name, doc, other, s, t, u, v, pairs) ==
    [name |-> name, languages |-> <<"en", "zh">>, segmenter |-> [en |-> "s", zh |-> "s"], units |-> <<"sentence">>,
     results |-> <<<<Sentence(doc, "en", s), Sentence(doc, "en", t)>>, <<Sentence(other, "en", u), Sentence(other, "zh", v)>>>>,
     pairs |-> pairs, reference |-> MCReference]

MCCorpora ==
    {Corpus("long", 1, 3, <<Noun("a"), Noun("c"), Verb("b"), Noun("A"), Noun("d")>>, <<Noun("a"), Verb("b"), Noun("c"), Noun("d")>>,
            <<Noun("ab"), Noun("d"), Noun("c"), Noun("a"), Verb("b"), Noun("d")>>,
            <<Noun("x"), Verb("y"), Noun("x")>>, SomePairs),
     Corpus("folded", 1, 2, <<Noun("A"), Verb("b"), Noun("c")>>, <<Noun("b")>>,
            <<Noun("A"), Noun("a"), Verb("a"), Noun("d")>>, <<Noun("xy"), Noun("x"), Verb("y")>>, OtherPairs),
     Corpus("short", 4, 5, <<Verb("b"), Noun(","), Noun("ab")>>, <<Noun("a"), Verb("b")>>,
            <<Noun("a")>>, <<Noun("x")>>, <<>>)}

\* Requests: what the form of the tool is given.
R1 == [by |-> "WORD", at |-> 1]
L1 == [by |-> "WORD", at |-> -1]
R2 == [by |-> "WORD", at |-> 2]
ByFile == [by |-> "FILE", at |-> 0]
ByWord == [by |-> "C", at |-> 0]
A == [terms |-> <<"a">>, size |-> 2, context |-> 2]
CqpItem(kind, terms) == [kind |-> kind, terms |-> terms]

KwicQueries ==
    {A @@ [sort |-> k, order |-> o, page |-> p] :
        k \in {<<>>, <<L1>>, <<R2, ByFile>>, <<ByFile>>, <<ByWord, R1>>}, o \in {"value", "frequency"}, p \in {1, 2}}
    \cup {[terms |-> <<"p">>, size |-> 2, sort |-> k] : k \in {<<>>, <<R1>>}}
    \cup {[terms |-> <<"a", "b">>, context |-> 0, sort |-> <<R1, ByFile>>, size |-> 1, page |-> p] : p \in {1, 9}}
    \cup {[terms |-> t] : t \in {<<"a", "a">>, <<"xy">>, <<"xy", "x">>, <<"x", "y">>, <<>>}}
    \cup {A @@ [whole |-> FALSE], A @@ [case |-> TRUE], A @@ [tag |-> "n"], A @@ [lang |-> "zh"],
          A @@ [sort |-> <<R1, L1, R2, ByFile>>]}
    \cup {A @@ [sample |-> n, seed |-> 1, sort |-> k] : n \in {1, 3}, k \in {<<>>, <<R1>>}}
    \cup {A @@ [list |-> l, near |-> n, logic |-> o, exclude |-> x, windowFrom |-> -1, windowTo |-> 1] :
            l \in {<<>>, <<<<"b">>, <<"ab">>>>}, n \in {<<>>, <<"b">>, <<"xy">>, <<"a", "b">>}, o \in {"and", "or"}, x \in BOOLEAN}
    \cup {[mode |-> "full_regex", size |-> 2, terms |-> t, prefix |-> w, sort |-> k] :
            t \in {<<"a", "b">>, <<"p">>}, w \in BOOLEAN, k \in {<<>>, <<L1>>}}
    \cup {[mode |-> "cqp", items |-> i, sort |-> <<R1>>] :
            i \in {<<CqpItem("pos", <<"v">>)>>, <<CqpItem("malformed", <<>>)>>,
                   <<CqpItem("bare", <<"a">>), CqpItem("any", <<>>)>>, <<CqpItem("function", <<"a">>)>>}}

WordLists ==
    {[size |-> 2, by |-> k, page |-> p, lang |-> g] : k \in {"frequency", "range", "term", "end"}, p \in {1, 2}, g \in {"en", "zh"}}
    \cup {[display |-> d, case |-> c, symbols |-> TRUE] : d \in {"type", "type_pos", "headword"}, c \in BOOLEAN}
    \cup {[listMode |-> m, listTerms |-> {"A"}, invert |-> TRUE] : m \in {"stop", "allow"}}
    \cup {[listMode |-> "stop"], [tag |-> "n", minFrequency |-> 2], [filter |-> "b", minRange |-> 2]}

ClusterLists ==
    {[terms |-> <<"a">>, left |-> l, by |-> k, n |-> n, minFrequency |-> 1] :
        l \in BOOLEAN, k \in {"frequency", "probability", "term"}, n \in {2, 3}}
    \cup {[terms |-> <<"xy">>, lang |-> g] : g \in {"en", "zh"}}
    \cup {[terms |-> <<"a", "b", "a">>, n |-> 2]}

NgramLists ==
    {[slot |-> s, n |-> n, symbols |-> y, by |-> k, minFrequency |-> 1] :
        s \in 0..2, n \in {2, 3}, y \in BOOLEAN, k \in {"frequency", "range"}}
    \cup {[slot |-> 3], [filter |-> "b"], [filter |-> "xy", lang |-> "zh", minFrequency |-> 1]}

Collocations ==
    {[terms |-> t, leftSpan |-> l, rightSpan |-> 1, by |-> k, minFrequency |-> 1] :
        t \in {<<"a">>, <<"b">>, <<"a", "b">>}, l \in {0, 2}, k \in {"log_dice", "mi", "log_ratio", "left"}}
    \cup {[terms |-> <<"a">>, leftSpan |-> 0, rightSpan |-> 0], [terms |-> <<"a">>, tag |-> "n"], [terms |-> <<"x">>]}

Plots == {[terms |-> <<"a">>, by |-> k, zero |-> z, overlay |-> <<"b">>, bins |-> 3] : k \in {"doc_id", "filename", "dispersion"}, z \in BOOLEAN}
Keyness == {[by |-> k, negative |-> n, minFrequency |-> 1, lang |-> g] :
                k \in {"log_ratio", "frequency", "term"}, n \in BOOLEAN, g \in {"en", "zh"}}

X == [terms |-> <<"x">>, size |-> 2]

PairQueries ==
    {X @@ [nth |-> n, sort |-> k, page |-> p, whole |-> w, context |-> 1] :
        n \in {1, 2, 3}, k \in {<<>>, <<R1>>, <<L1, ByWord>>}, p \in {1, 2}, w \in BOOLEAN}
    \cup {[en |-> <<"a">>, zhNot |-> <<"y">>], X @@ [terms |-> <<"x", "x">>], [unit |-> "paragraph"],
          [side |-> "en", terms |-> <<"a">>, sort |-> <<R1>>], X @@ [file |-> "e"], X @@ [confidence |-> 80],
          [mode |-> "browse"], [terms |-> <<>>]}

Tool(view, queries) == {[view |-> view, query |-> q] : q \in queries}

MCRequests ==
    UNION {Tool("kwic", KwicQueries), Tool("words", WordLists), Tool("clusters", ClusterLists),
           Tool("ngrams", NgramLists), Tool("collocates", Collocations), Tool("plot", Plots),
           Tool("keywords", Keyness), Tool("cloud", {[minFrequency |-> 1], [size |-> 1, listTerms |-> {"A"}]}),
           Tool("pairs", PairQueries)}

=============================================================================
