-------------------------- MODULE CorpusOrderProofs --------------------------
(***************************************************************************)
(* What follows from the order of hits, which CorpusPagesProofs knows: how *)
(* the answers count.  A hit comes with the number of hits of its pattern  *)
(* in the whole result.  Collocates are sorted by scores, and what stands  *)
(* near a node is counted from both ends of the window, so that            *)
(* collocation is symmetric.  A file view that a hit is opened in is cut   *)
(* at what its query marks, and the hit is marked.                         *)
(*                                                                         *)
(* And all counts agree: a word has one frequency in word list, cloud,     *)
(* concordance and plot, and the n-grams that are stored file by file are  *)
(* those that one counts in the table of words.                            *)
(***************************************************************************)
EXTENDS CorpusPagesProofs

-----------------------------------------------------------------------------
(* The pattern of a match *)

\* Sets of which one is counted by the other have one size.
LEMMA CountedAlike ==
    ASSUME NEW S, IsFiniteSet(S), NEW T, NEW f \in [S -> T],
           \A x, y \in S : f[x] = f[y] => x = y, \A y \in T : \E x \in S : f[x] = y
    PROVE  Cardinality(S) = Cardinality(T)
<1>1. f \in Bijection(S, T)  BY Zenon DEF Bijection, Injection, Surjection, IsInjective
<1> QED BY <1>1, FS_Bijection, Zenon DEF ExistsBijection

\* The pattern of a match in the whole table.
WholePattern(tokens, keys, m) == HitPattern(tokens, DOMAIN tokens, m, keys)

\* What is loaded has all that the pattern of a match depends on.
PatternLoadedFor(tokens, loaded, keys, m) == HitPattern(tokens, loaded, m, keys) = WholePattern(tokens, keys, m)

\* A match has the same pattern in whatever is loaded around it.
LEMMA PatternLoaded ==
    ASSUME NEW tokens, NEW matches, NEW m \in matches, m.length \in Nat, NEW radius \in Nat, radius >= 5,
           NEW keys, \A i \in DOMAIN keys : ChosenKey(keys[i])
    PROVE  PatternLoadedFor(tokens, Context(tokens, matches, radius), keys, m)
<1> DEFINE loaded == Context(tokens, matches, radius)
           Value(k) == SortValue(tokens, loaded, m, k, FALSE)
           WholeValue(k) == SortValue(tokens, DOMAIN tokens, m, k, FALSE)
           doc == tokens[m.row].word.doc
<1>1. \A i \in DOMAIN keys : LoadedFor(tokens, loaded, m, keys[i], FALSE)  BY SameValueLoaded, Zenon
<1>2. \A i \in DOMAIN keys : Value(keys[i]) = WholeValue(keys[i])  BY <1>1, Zenon DEF LoadedFor
<1>3. HitPattern(tokens, loaded, m, keys) =
          IF keys = <<>> THEN <<<<m.row>>>>
          ELSE [i \in DOMAIN keys |-> IF keys[i].by = "FILE" THEN <<doc>> ELSE Value(keys[i])]
  BY Zenon DEF HitPattern
<1>4. WholePattern(tokens, keys, m) =
          IF keys = <<>> THEN <<<<m.row>>>>
          ELSE [i \in DOMAIN keys |-> IF keys[i].by = "FILE" THEN <<doc>> ELSE WholeValue(keys[i])]
  BY Zenon DEF HitPattern, WholePattern
<1> HIDE DEF Value, WholeValue, doc, loaded
<1>5. [i \in DOMAIN keys |-> IF keys[i].by = "FILE" THEN <<doc>> ELSE Value(keys[i])] =
      [i \in DOMAIN keys |-> IF keys[i].by = "FILE" THEN <<doc>> ELSE WholeValue(keys[i])]
  BY <1>2
<1> QED BY <1>3, <1>4, <1>5, Zenon DEF PatternLoadedFor, loaded

\* Matches that begin in one row and are as long as each other ...
InOnePlace(m, n) == m.row = n.row /\ m.length = n.length

\* ... have one pattern.
LEMMA PatternOfPlace ==
    ASSUME NEW tokens, NEW keys, NEW m, NEW n, InOnePlace(m, n)
    PROVE  WholePattern(tokens, keys, m) = WholePattern(tokens, keys, n)
<1> DEFINE Words(row, length) ==
              [i \in 1..length |-> Rank[NormalAt(tokens, CHOOSE g \in Beside(tokens, row, i - 1) : TRUE)]]
           Beyond(row, length, k) == RankOf(tokens, Beside(tokens, row, SortOffset(k, length)) \cap DOMAIN tokens)
           Value(row, length, k) ==
              CASE k.by = "ROW_ID" -> <<row>>
                [] k.by = "FILE" -> <<FilePlace(tokens[row].word.doc, FALSE)>>
                [] k.by = "C" -> Words(row, length)
                [] OTHER -> Beyond(row, length, k)
           PatternOf(row, length) ==
              IF keys = <<>> THEN <<<<row>>>>
              ELSE [i \in DOMAIN keys |->
                      IF keys[i].by = "FILE" THEN <<tokens[row].word.doc>> ELSE Value(row, length, keys[i])]
<1>1. \A a : Keyword(tokens, a) = Words(a.row, a.length)  BY Zenon DEF Keyword
<1>2. \A a, k : RankOf(tokens, TokenAt(tokens, DOMAIN tokens, a, SortOffset(k, a.length))) = Beyond(a.row, a.length, k)
  BY Zenon DEF TokenAt
<1>3. \A a, k : SortValue(tokens, DOMAIN tokens, a, k, FALSE) = Value(a.row, a.length, k)
  <2> SUFFICES ASSUME NEW a, NEW k PROVE SortValue(tokens, DOMAIN tokens, a, k, FALSE) = Value(a.row, a.length, k)
    BY Zenon
  <2> DEFINE V(w, b) == CASE k.by = "ROW_ID" -> <<a.row>>
                          [] k.by = "FILE" -> <<FilePlace(tokens[a.row].word.doc, FALSE)>>
                          [] k.by = "C" -> w
                          [] OTHER -> b
  <2>1. SortValue(tokens, DOMAIN tokens, a, k, FALSE) =
          V(Keyword(tokens, a), RankOf(tokens, TokenAt(tokens, DOMAIN tokens, a, SortOffset(k, a.length))))
    BY Zenon DEF SortValue
  <2>2. Value(a.row, a.length, k) = V(Words(a.row, a.length), Beyond(a.row, a.length, k))  BY Zenon
  <2> HIDE DEF V, Words, Beyond, Value
  <2> QED BY <1>1, <1>2, <2>1, <2>2, Zenon
<1> HIDE DEF Value
<1>4. \A a : WholePattern(tokens, keys, a) = PatternOf(a.row, a.length)
  <2> SUFFICES ASSUME NEW a PROVE WholePattern(tokens, keys, a) = PatternOf(a.row, a.length)
    BY Zenon
  <2> DEFINE A(k) == SortValue(tokens, DOMAIN tokens, a, k, FALSE)
             B(k) == Value(a.row, a.length, k)
             doc == tokens[a.row].word.doc
  <2>1. WholePattern(tokens, keys, a) =
          IF keys = <<>> THEN <<<<a.row>>>>
          ELSE [i \in DOMAIN keys |-> IF keys[i].by = "FILE" THEN <<doc>> ELSE A(keys[i])]
    BY Zenon DEF HitPattern, WholePattern
  <2>2. PatternOf(a.row, a.length) =
          IF keys = <<>> THEN <<<<a.row>>>>
          ELSE [i \in DOMAIN keys |-> IF keys[i].by = "FILE" THEN <<doc>> ELSE B(keys[i])]
    BY Zenon
  <2>3. \A k : A(k) = B(k)  BY <1>3, Zenon
  <2> HIDE DEF A, B, doc, PatternOf
  <2>4. [i \in DOMAIN keys |-> IF keys[i].by = "FILE" THEN <<doc>> ELSE A(keys[i])] =
        [i \in DOMAIN keys |-> IF keys[i].by = "FILE" THEN <<doc>> ELSE B(keys[i])]
    BY <2>3
  <2> QED BY <2>1, <2>2, <2>4, Zenon
<1> HIDE DEF PatternOf
<1> QED BY <1>4, Zenon DEF InOnePlace

\* The matches that share the pattern of a match.
SharePattern(tokens, keys, matches, m) == {n \in matches : WholePattern(tokens, keys, n) = WholePattern(tokens, keys, m)}

\* As many records of matches have a pattern as matches have it.
RecordsCount(matches, tokens, keys, loaded, m) ==
    Cardinality({p \in {[match |-> n, values |-> HitPattern(tokens, loaded, n, keys)] : n \in matches} :
                    p.values = WholePattern(tokens, keys, m)}) =
    Cardinality(SharePattern(tokens, keys, matches, m))

\* They do if the patterns were read in what has all they depend on.
LEMMA RecordsCounted ==
    ASSUME NEW matches, IsFiniteSet(matches), NEW tokens, NEW keys, NEW loaded,
           \A n \in matches : PatternLoadedFor(tokens, loaded, keys, n), NEW m
    PROVE  RecordsCount(matches, tokens, keys, loaded, m)
<1> DEFINE H(n) == HitPattern(tokens, loaded, n, keys)
           W(n) == WholePattern(tokens, keys, n)
           R(n) == [match |-> n, values |-> H(n)]
           sharing == SharePattern(tokens, keys, matches, m)
           counted == {p \in {R(n) : n \in matches} : p.values = W(m)}
           f == [n \in sharing |-> R(n)]
<1>1. \A n \in matches : H(n) = W(n)  BY Zenon DEF PatternLoadedFor
<1>2. sharing = {n \in matches : W(n) = W(m)}  BY Zenon DEF SharePattern
<1> HIDE DEF H, W, sharing
<1>3. \A n : R(n).match = n /\ R(n).values = H(n)  OBVIOUS
<1> HIDE DEF R
<1>4. sharing \in SUBSET matches /\ \A n \in matches : n \in sharing <=> W(n) = W(m)  BY <1>2, Zenon
<1>5. \A n \in sharing : R(n) \in counted  BY <1>1, <1>3, <1>4, Zenon
<1>6. \A p \in counted : \E n \in sharing : R(n) = p
  <2> SUFFICES ASSUME NEW p \in counted PROVE \E n \in sharing : R(n) = p
    BY Zenon
  <2>1. PICK n \in matches : R(n) = p  BY Zenon
  <2>2. p.values = W(m)  BY Zenon
  <2> HIDE DEF counted
  <2> QED BY <2>1, <1>1, <1>3, <1>4, <2>2, Zenon
<1> HIDE DEF counted
<1>7. \A n \in sharing : f[n] = R(n)  BY Zenon
<1>8. f \in [sharing -> counted]  BY <1>5 DEF f
<1> HIDE DEF f
<1>9. IsFiniteSet(sharing)  BY <1>4, FS_Subset, Zenon
<1>10. /\ \A x, y \in sharing : f[x] = f[y] => x = y
       /\ \A p \in counted : \E n \in sharing : f[n] = p
  <2>1. \A x \in sharing : f[x].match = x  BY <1>3, <1>7, Zenon
  <2> QED BY <2>1, <1>6, <1>7, Zenon
<1>11. Cardinality(sharing) = Cardinality(counted)  BY <1>8, <1>9, <1>10, CountedAlike, Zenon
<1> QED BY <1>11, Zenon DEF RecordsCount, counted, sharing, R, W, H

\* An answer shows these matches, each with the number of matches that share its pattern.
CountsPatterns(answer, tokens, keys, shown, counted) ==
    /\ DOMAIN answer.hits = DOMAIN shown
    /\ \A i \in DOMAIN shown :
            /\ answer.hits[i].row = shown[i].row /\ answer.hits[i].length = shown[i].length
            /\ answer.hits[i].kpf = Cardinality(SharePattern(tokens, keys, counted, shown[i]))

Lengthy(matches) == \A m \in matches : m.length \in Nat

\* What the searches share counts the patterns in what it is given to count (_hit_pattern), whatever
\* it loads to show and to count.
LEMMA PageAnswerCounts ==
    ASSUME NEW tokens, NEW q, q.context \in Int, NEW keys, \A i \in DOMAIN keys : ChosenKey(keys[i]),
           NEW shown, Lengthy(ToSet(shown)), NEW total, NEW available, NEW counted, IsFiniteSet(counted), Lengthy(counted)
    PROVE  CountsPatterns(PageAnswer(tokens, q, keys, shown, total, available, counted), tokens, keys, shown, counted)
<1> DEFINE radius == LoadedRadius(q)
           five == 5
           loaded == Context(tokens, ToSet(shown), radius)
           counting == Context(tokens, counted, five)
           snippets == Snippets(tokens, shown, q.context)
           patterns == {[match |-> m, values |-> HitPattern(tokens, counting, m, keys)] : m \in counted}
           Alike(m) == LET values == HitPattern(tokens, loaded, m, keys) IN
                       Cardinality({p \in patterns : p.values = values})
           hits == [i \in DOMAIN shown |-> BuildHit(tokens, loaded, shown[i], snippets, Alike(shown[i]))]
           size == IF q.sample > 0 THEN Higher(1, total) ELSE q.size
           page == IF q.sample > 0 THEN 1 ELSE EffectivePage(q.page, NumPages(total, size))
           pages == NumPages(total, size)
           answer == PageAnswer(tokens, q, keys, shown, total, available, counted)
<1>1. answer = [hits |-> hits, total |-> total, available |-> available, page |-> page, pages |-> pages]
  BY Zenon DEF PageAnswer
<1>2. radius \in Nat /\ radius >= 5 /\ five \in Nat /\ five >= 5  BY DEF LoadedRadius, Higher
<1> HIDE DEF radius, five
<1>3. \A m \in ToSet(shown) : PatternLoadedFor(tokens, loaded, keys, m)
  BY <1>2, PatternLoaded, Zenon DEF Lengthy
<1>4. \A m \in counted : PatternLoadedFor(tokens, counting, keys, m)  BY <1>2, PatternLoaded, Zenon DEF Lengthy
<1> HIDE DEF loaded, counting
<1>5. \A i \in DOMAIN shown : Alike(shown[i]) = Cardinality(SharePattern(tokens, keys, counted, shown[i]))
  <2> SUFFICES ASSUME NEW i \in DOMAIN shown
               PROVE  Alike(shown[i]) = Cardinality(SharePattern(tokens, keys, counted, shown[i]))
    BY Zenon
  <2>1. shown[i] \in ToSet(shown)  BY DEF ToSet
  <2> DEFINE Count(v) == Cardinality({p \in patterns : p.values = v})
  <2>2. Alike(shown[i]) = Count(HitPattern(tokens, loaded, shown[i], keys))  BY Zenon
  <2>3. Count(WholePattern(tokens, keys, shown[i])) = Cardinality(SharePattern(tokens, keys, counted, shown[i]))
    <3>1. RecordsCount(counted, tokens, keys, counting, shown[i])  BY <1>4, RecordsCounted, Zenon
    <3> QED BY <3>1, Zenon DEF RecordsCount
  <2> HIDE DEF Count, Alike
  <2> QED BY <1>3, <2>1, <2>2, <2>3, Zenon DEF PatternLoadedFor
<1> HIDE DEF Alike, patterns, snippets
<1>6. /\ DOMAIN hits = DOMAIN shown
      /\ \A i \in DOMAIN shown : hits[i] = BuildHit(tokens, loaded, shown[i], snippets, Alike(shown[i]))
  BY Zenon
<1> HIDE DEF hits, page, pages, answer
<1>7. answer.hits = hits  BY <1>1
<1>8. \A i \in DOMAIN shown : /\ hits[i].row = shown[i].row /\ hits[i].length = shown[i].length
                              /\ hits[i].kpf = Alike(shown[i])
  <2> SUFFICES ASSUME NEW i \in DOMAIN shown
               PROVE  /\ hits[i].row = shown[i].row /\ hits[i].length = shown[i].length
                      /\ hits[i].kpf = Alike(shown[i])
    BY Zenon
  <2>1. hits[i] = BuildHit(tokens, loaded, shown[i], snippets, Alike(shown[i]))  BY <1>6, Zenon
  <2> QED BY <2>1 DEF BuildHit
<1> QED BY <1>6, <1>7, <1>5, <1>8, Zenon DEF CountsPatterns, answer

-----------------------------------------------------------------------------
(* Counts of patterns *)

\* No key to sort by is blank.
LEMMA KeysChosen ==
    ASSUME NEW q, KwicQuery(q)
    PROVE  \A i \in DOMAIN NormalizeSortKeys(q.sort) : ChosenKey(NormalizeSortKeys(q.sort)[i])
<1> DEFINE keys == NormalizeSortKeys(q.sort)
<1>1. IsList(q.sort) /\ \A k \in ToSet(q.sort) : SortKey(k)  BY Zenon DEF KwicQuery, SoundLists
<1> SUFFICES ASSUME NEW i \in DOMAIN keys PROVE ChosenKey(keys[i])
  BY Zenon
<1>2. PICK j \in DOMAIN q.sort : keys[i] = q.sort[j] /\ q.sort[j].by # ""  BY <1>1, KeysAreChosen, Zenon
<1> HIDE DEF keys
<1> QED BY <1>2, <1>1, ElementOfList, Zenon DEF SortKey, ChosenKey

\* Matches that are placed have lengths.
LEMMA PlacedLengthy ==
    ASSUME NEW tokens, NEW matches, WellPlaced(tokens, matches)
    PROVE  IsFiniteSet(matches) /\ Lengthy(matches)
  BY Zenon DEF WellPlaced, Along, Lengthy

\* What a page of them shows are matches.
LEMMA PageOfMatches ==
    ASSUME NEW matches, NEW ordered, Arranges(ordered, matches), NEW q, KwicQuery(q), ValidOptions(q)
    PROVE  /\ ToSet(PageOf(ordered, q.page, q.size)) \in SUBSET matches
           /\ \A i \in DOMAIN PageOf(ordered, q.page, q.size) :
                PageOf(ordered, q.page, q.size)[i] \in ToSet(PageOf(ordered, q.page, q.size))
<1> DEFINE shown == PageOf(ordered, q.page, q.size)
<1>1. q.page \in Nat \ {0} /\ q.size \in Nat \ {0}
  <2>1. q.page \in Int /\ q.size \in Int /\ q.page >= 1 /\ q.size >= 1  BY Zenon DEF ValidOptions, KwicQuery
  <2> QED BY <2>1
<1>2. shown \in Seq(matches)  BY <1>1, PageIsPart, Zenon DEF Arranges
<1> HIDE DEF shown
<1>3. DOMAIN shown = 1..Len(shown) /\ \A i \in 1..Len(shown) : shown[i] \in matches
  BY <1>2, LenProperties, ElementOfSeq, Zenon
<1>4. ToSet(shown) \in SUBSET matches /\ \A i \in DOMAIN shown : shown[i] \in ToSet(shown)
  BY <1>3, Zenon DEF ToSet
<1> QED BY <1>4, Zenon DEF shown

\* Without keys a pattern is a row: a match that is alone in its row shares it with none.
LEMMA AloneInItsRow ==
    ASSUME NEW tokens, NEW matches, \A m, n \in matches : m.row = n.row => m = n, NEW x \in matches
    PROVE  SharePattern(tokens, <<>>, matches, x) = {x}
<1>1. \A m : WholePattern(tokens, <<>>, m) = <<<<m.row>>>>  BY Zenon DEF WholePattern, HitPattern
<1>2. \A m \in matches : WholePattern(tokens, <<>>, m) = WholePattern(tokens, <<>>, x) <=> m = x
  <2> SUFFICES ASSUME NEW m \in matches, WholePattern(tokens, <<>>, m) = WholePattern(tokens, <<>>, x) PROVE m = x
    BY Zenon
  <2>1. <<<<m.row>>>> = <<<<x.row>>>>  BY <1>1, Zenon
  <2>2. m.row = x.row  BY <2>1
  <2> QED BY <2>2, Zenon
<1> QED BY <1>2, Zenon DEF SharePattern

\* A count of patterns in the matches of a page is one in all of them if each is alone in its row.
LEMMA CountedOnPage ==
    ASSUME NEW answer, NEW tokens, NEW shown, NEW matches, \A m, n \in matches : m.row = n.row => m = n,
           ToSet(shown) \in SUBSET matches, \A i \in DOMAIN shown : shown[i] \in ToSet(shown),
           CountsPatterns(answer, tokens, <<>>, shown, ToSet(shown))
    PROVE  CountsPatterns(answer, tokens, <<>>, shown, matches)
<1> DEFINE page == ToSet(shown)
           CountOnPage(m) == Cardinality(SharePattern(tokens, <<>>, page, m))
           CountOfAll(m) == Cardinality(SharePattern(tokens, <<>>, matches, m))
<1>1. \A i \in DOMAIN shown : shown[i] \in page /\ shown[i] \in matches  BY Zenon
<1>2. \A m, n \in page : m.row = n.row => m = n  BY Zenon
<1>3. \A i \in DOMAIN shown : SharePattern(tokens, <<>>, page, shown[i]) = {shown[i]}
  <2> HIDE DEF page
  <2> QED BY <1>1, <1>2, AloneInItsRow, Zenon
<1>4. \A i \in DOMAIN shown : CountOnPage(shown[i]) = CountOfAll(shown[i])  BY <1>3, <1>1, AloneInItsRow, Zenon
<1>5. /\ DOMAIN answer.hits = DOMAIN shown
      /\ \A i \in DOMAIN shown :
          /\ answer.hits[i].row = shown[i].row /\ answer.hits[i].length = shown[i].length
          /\ answer.hits[i].kpf = CountOnPage(shown[i])
  BY Zenon DEF CountsPatterns
<1> HIDE DEF CountOnPage
<1> QED BY <1>5, <1>4, Zenon DEF CountsPatterns

\* A search that counts patterns and is not refused.
CountsFor(q) == KwicQuery(q) /\ ValidOptions(q) /\ ~Unsound(q) /\ q.sample = 0 /\ q.mode # "cqp"

\* Its answer counts them in all matches.
CountsAll(index, q, answer) ==
    CountsPatterns(answer, index.tokens, NormalizeSortKeys(q.sort), PageOf(SearchOrder(index, q), q.page, q.size),
                   Found(index, q))

\* What a page shows of the matches in order.
LEMMA ShownMatches ==
    ASSUME NEW index, Tokens(index.tokens), NEW q, CountsFor(q), NEW shown,
           shown = PageOf(SearchOrder(index, q), q.page, q.size)
    PROVE  /\ WellPlaced(index.tokens, Found(index, q)) /\ IsFiniteSet(Found(index, q)) /\ Lengthy(Found(index, q))
           /\ ToSet(shown) \in SUBSET Found(index, q) /\ IsFiniteSet(ToSet(shown)) /\ Lengthy(ToSet(shown))
           /\ \A i \in DOMAIN shown : shown[i] \in ToSet(shown)
<1>1. KwicQuery(q) /\ ValidOptions(q)  BY Zenon DEF CountsFor
<1>2. Arranges(SearchOrder(index, q), Found(index, q))  BY <1>1, SearchArranged, Zenon
<1>3. ToSet(shown) \in SUBSET Found(index, q) /\ \A i \in DOMAIN shown : shown[i] \in ToSet(shown)
  BY <1>1, <1>2, PageOfMatches, Zenon
<1> QED BY <1>1, FoundArePlaced, PlacedLengthy, <1>3, FS_Subset, Zenon DEF Lengthy

\* The searches in memory count the patterns of all matches.
LEMMA MemoryCounts ==
    ASSUME NEW index, Tokens(index.tokens), NEW q, CountsFor(q), InMemory(q)
    PROVE  CountsAll(index, q, InMemoryPage(index, q, Found(index, q)))
<1> DEFINE tokens == index.tokens
           found == Found(index, q)
           keys == NormalizeSortKeys(q.sort)
           kept == IF q.sample > 0 THEN Sample(found, q) ELSE found
           Ordered(matches) == Sorted(tokens, matches, Context(tokens, matches, 5), keys, q.order, FALSE)
           Cut(matches) == IF q.sample > 0 THEN Ordered(matches) ELSE PageOf(Ordered(matches), q.page, q.size)
           Answer(matches) ==
              PageAnswer(tokens, q, keys, Cut(matches), Len(Ordered(matches)), Cardinality(found), matches)
           shown == PageOf(SearchOrder(index, q), q.page, q.size)
<1>1. ~(q.sample > 0) /\ q.context \in Int  BY DEF CountsFor, KwicQuery
<1>2. InMemoryPage(index, q, found) = Answer(kept)
  <2> HIDE DEF found
  <2> QED BY Zenon DEF InMemoryPage
<1>3. kept = found
  <2> HIDE DEF found
  <2> QED BY <1>1, Zenon
<1>4. SearchOrder(index, q) = Ordered(found)  BY Zenon DEF SearchOrder
<1>5. Answer(found) = PageAnswer(tokens, q, keys, shown, Len(Ordered(found)), Cardinality(found), found)
  <2>1. shown = Cut(found)
    <3> HIDE DEF Ordered
    <3> QED BY <1>1, <1>4, Zenon
  <2> HIDE DEF Cut, shown, found, Ordered
  <2> QED BY <2>1, Zenon
<1>6. \A i \in DOMAIN keys : ChosenKey(keys[i])  BY KeysChosen, Zenon DEF CountsFor
<1>7. IsFiniteSet(found) /\ Lengthy(found) /\ Lengthy(ToSet(shown))  BY ShownMatches, Zenon
<1> HIDE DEF kept, Answer, Ordered, keys, shown, found
<1>8. CountsPatterns(PageAnswer(tokens, q, keys, shown, Len(Ordered(found)), Cardinality(found), found), tokens, keys, shown, found)
  BY <1>1, <1>6, <1>7, PageAnswerCounts, Zenon
<1> QED BY <1>2, <1>3, <1>5, <1>8, Zenon DEF CountsAll, keys, shown, found

\* So does the simple search; without keys it counts those on the page, each of which is alone in its row.
LEMMA SimpleCounts ==
    ASSUME NEW index, Tokens(index.tokens), NEW q, CountsFor(q), ~InMemory(q)
    PROVE  CountsAll(index, q, SearchSimple(index, q))
<1> DEFINE tokens == index.tokens
           matchers == CompileQuery(q.terms, q)
           found == Matches(tokens, q.lang, ResolvedTerms(tokens, q, q.terms), q.tag)
           keys == NormalizeSortKeys(q.sort)
           sampled == Sample(found, q)
           ordered == Sorted(tokens, found, DOMAIN tokens, keys, q.order, TRUE)
           shown == IF q.sample = 0 THEN PageOf(ordered, q.page, q.size)
                    ELSE IF keys = <<>> THEN SampleOrder(sampled, q)
                    ELSE Sorted(tokens, sampled, Context(tokens, sampled, 5), keys, q.order, FALSE)
           total == IF q.sample > 0 THEN Len(shown) ELSE Cardinality(found)
           counted == IF keys # <<>> /\ q.sample = 0 THEN found ELSE ToSet(shown)
           answer == PageAnswer(tokens, q, keys, shown, total, Cardinality(found), counted)
<1>1. KwicQuery(q) /\ ValidOptions(q) /\ ~Unsound(q) /\ q.sample = 0 /\ q.mode # "cqp"  BY Zenon DEF CountsFor
<1>2. SearchSimple(index, q) = IF ~ValidOptions(q) \/ matchers = <<>> THEN QueryError ELSE answer
  BY Zenon DEF SearchSimple
<1>3. matchers # <<>>  BY <1>1, Zenon DEF Unsound, InMemory
<1>4. SearchSimple(index, q) = answer
  <2> HIDE DEF answer, matchers
  <2> QED BY <1>1, <1>2, <1>3, Zenon
<1>5. Found(index, q) = found  BY <1>1, Zenon DEF Found, InMemory
<1>6. SearchOrder(index, q) = ordered  BY <1>5, Zenon DEF SearchOrder
<1>7. shown = PageOf(SearchOrder(index, q), q.page, q.size)
  <2> HIDE DEF ordered, sampled
  <2> QED BY <1>1, <1>6, Zenon
<1>8. \A i \in DOMAIN keys : ChosenKey(keys[i])  BY <1>1, KeysChosen, Zenon
<1>9. \A m, n \in found : m.row = n.row => m = n
  <2>1. WellPlaced(tokens, PlainMatches(index, q)) /\ \A m \in PlainMatches(index, q) : m.length = Len(ResolvedTerms(tokens, q, q.terms))
    BY <1>1, PlainArePlaced, Zenon
  <2>2. PlainMatches(index, q) = found  BY Zenon DEF PlainMatches
  <2> HIDE DEF found
  <2> QED BY <2>1, <2>2, Zenon DEF WellPlaced
<1> HIDE DEF found, ordered, shown, sampled
<1>10. /\ IsFiniteSet(found) /\ Lengthy(found)
       /\ ToSet(shown) \in SUBSET found /\ IsFiniteSet(ToSet(shown)) /\ Lengthy(ToSet(shown))
       /\ \A i \in DOMAIN shown : shown[i] \in ToSet(shown)
  BY <1>5, <1>7, ShownMatches, Zenon
<1>11. IsFiniteSet(counted) /\ Lengthy(counted)
  <2> HIDE DEF keys
  <2> QED BY <1>10, Zenon
<1> HIDE DEF counted, total, keys
<1>12. CountsPatterns(answer, tokens, keys, shown, counted)
  BY <1>8, <1>1, <1>10, <1>11, PageAnswerCounts, Zenon DEF KwicQuery
<1> HIDE DEF answer
<1>13. CountsPatterns(answer, tokens, keys, shown, found)
  <2>1. CASE keys # <<>>  BY <1>12, <1>1, <2>1, Zenon DEF counted
  <2>2. CASE keys = <<>>  BY <2>2, <1>9, <1>10, <1>12, CountedOnPage, Zenon DEF counted
  <2> QED BY <2>1, <2>2, Zenon
<1> QED BY <1>4, <1>5, <1>7, <1>13, Zenon DEF CountsAll, keys

\* Whichever search answers counts the patterns of all matches (kwic_search).
LEMMA SearchCounts ==
    ASSUME NEW index, Tokens(index.tokens), NEW q, CountsFor(q)
    PROVE  CountsAll(index, q, KwicSearch(index, q))
<1>1. KwicQuery(q) /\ ValidOptions(q) /\ ~Unsound(q) /\ q.sample = 0 /\ q.mode # "cqp"  BY Zenon DEF CountsFor
<1>2. CASE q.mode = "full_regex"
  <2>1. Found(index, q) = RegexFound(index, q)  BY <1>1, <1>2, Zenon DEF Found
  <2>2. KwicSearch(index, q) = InMemoryPage(index, q, Found(index, q))
    BY <1>1, <1>2, <2>1, Zenon DEF KwicSearch, Unsound, SearchFullRegex, RegexFound
  <2> QED BY <2>2, <1>2, MemoryCounts, Zenon DEF InMemory
<1>3. CASE q.mode = "simple" /\ (q.list # <<>> \/ q.near # <<>>)
  <2>1. q.mode # "full_regex"  BY <1>3
  <2> DEFINE queries == Queries(q)
             found == AdvancedMatches(index, q, queries)
  <2>2. SearchAdvanced(index, q) =
          IF \/ queries = {} \/ ~ValidOptions(q) \/ q.windowFrom > q.windowTo
             \/ ~NearWords(q) \/ \E t \in queries : CompileQuery(t, q) = <<>>
          THEN QueryError ELSE InMemoryPage(index, q, found)
    BY Zenon DEF SearchAdvanced, Queries
  <2>3. ~(queries = {} \/ q.windowFrom > q.windowTo \/ ~NearWords(q) \/ \E t \in queries : CompileQuery(t, q) = <<>>)
    <3> HIDE DEF queries
    <3> QED BY <1>1, <1>3, <2>1, Zenon DEF Unsound, queries
  <2>4. Found(index, q) = found  BY <1>1, <1>3, <2>1, Zenon DEF Found
  <2> HIDE DEF found, queries
  <2>5. KwicSearch(index, q) = InMemoryPage(index, q, Found(index, q))
    BY <1>1, <1>3, <2>1, <2>2, <2>3, <2>4, Zenon DEF KwicSearch
  <2> QED BY <2>5, <1>3, MemoryCounts, Zenon DEF InMemory
<1>4. CASE q.mode # "full_regex" /\ ~(q.mode = "simple" /\ (q.list # <<>> \/ q.near # <<>>))
  BY <1>1, <1>4, SimpleCounts, Zenon DEF KwicSearch, InMemory
<1> QED BY <1>2, <1>3, <1>4, Zenon

\* Of the hits of matches in order, as many have the pattern of a match as matches share it.
HitsShare(tokens, keys, matches, ordered, m) ==
    Cardinality({j \in DOMAIN HitsOf(ordered) :
                    WholePattern(tokens, keys, HitsOf(ordered)[j]) = WholePattern(tokens, keys, m)}) =
    Cardinality(SharePattern(tokens, keys, matches, m))

\* They do if the order has every match once.
LEMMA HitsCounted ==
    ASSUME NEW tokens, NEW keys, NEW matches, NEW ordered, Arranges(ordered, matches), NEW m
    PROVE  HitsShare(tokens, keys, matches, ordered, m)
<1> DEFINE n == Len(ordered)
           W(h) == WholePattern(tokens, keys, h)
           places == {j \in 1..n : W(ordered[j]) = W(m)}
           sharing == SharePattern(tokens, keys, matches, m)
           f == [j \in places |-> ordered[j]]
<1>1. ordered \in Seq(matches)  BY Zenon DEF Arranges
<1>2. n \in Nat /\ DOMAIN ordered = 1..n  BY <1>1, LenProperties, Zenon
<1>3. /\ \A j \in 1..n : ordered[j] \in matches
      /\ \A i, j \in 1..n : ordered[i] = ordered[j] => i = j
      /\ \A x \in matches : \E i \in 1..n : ordered[i] = x
  BY <1>1, ElementOfSeq, Zenon DEF Arranges
<1> DEFINE Hit(j) == [row |-> ordered[j].row, length |-> ordered[j].length]
           hits == [j \in DOMAIN ordered |-> Hit(j)]
<1>4. HitsOf(ordered) = hits  BY Zenon DEF HitsOf
<1>5. \A j : Hit(j).row = ordered[j].row /\ Hit(j).length = ordered[j].length  OBVIOUS
<1> HIDE DEF Hit
<1>6. \A j : W(Hit(j)) = W(ordered[j])  BY <1>5, PatternOfPlace, Zenon DEF InOnePlace
<1> HIDE DEF W, n
<1>7. {j \in DOMAIN hits : W(hits[j]) = W(m)} = places
  <2>1. DOMAIN hits = 1..n /\ \A j \in 1..n : hits[j] = Hit(j)  BY <1>2, Zenon
  <2> HIDE DEF hits
  <2> QED BY <1>6, <2>1, Zenon
<1>8. sharing = {x \in matches : W(x) = W(m)}  BY Zenon DEF SharePattern, W
<1>9. places \in SUBSET (1..n) /\ IsFiniteSet(places)
  <2>1. IsFiniteSet(1..n)  BY <1>2, FS_Interval
  <2> QED BY <2>1, FS_Subset, Zenon
<1>10. \A j \in places : ordered[j] \in sharing  BY <1>3, <1>8, Zenon
<1>11. \A x \in sharing : \E j \in places : ordered[j] = x  BY <1>3, <1>8, Zenon
<1> HIDE DEF places, sharing
<1>12. f \in [places -> sharing] /\ \A j \in places : f[j] = ordered[j]  BY <1>10, Zenon
<1> HIDE DEF f
<1>13. \A i, j \in places : f[i] = f[j] => i = j  BY <1>3, <1>9, <1>12, Zenon
<1>14. \A x \in sharing : \E j \in places : f[j] = x  BY <1>11, <1>12, Zenon
<1>15. Cardinality(places) = Cardinality(sharing)  BY <1>9, <1>12, <1>13, <1>14, CountedAlike, Zenon
<1> HIDE DEF hits
<1> QED BY <1>4, <1>7, <1>15, Zenon DEF HitsShare, W, sharing

\* What a page says of a pattern is what all pages show of it.
LEMMA PatternsOnPages ==
    ASSUME PagesInvariant
    PROVE  PatternCountsAgree
<1> SUFFICES ASSUME Shows("kwic"), visit.query.mode # "cqp", visit.query.sample = 0, visit.query.sort # <<>>
             PROVE  PatternCountsAgree
  BY Zenon DEF PatternCountsAgree
<1> DEFINE q == visit.query
           index == visit.corpus.index
           answer == visit.answer
           keys == NormalizeSortKeys(q.sort)
           ordered == SearchOrder(index, q)
           shown == PageOf(ordered, q.page, q.size)
           all == HitsOf(KwicPages)
           PatternAt(h) == HitPattern(index.tokens, DOMAIN index.tokens, [row |-> h.row, length |-> h.length], keys)
           W(h) == WholePattern(index.tokens, keys, h)
<1>1. visit.view = "kwic" /\ ~IsError(answer)  BY Zenon DEF Shows
<1>2. /\ Tokens(index.tokens) /\ KwicQuery(q) /\ ValidOptions(q) /\ ~Unsound(q)
      /\ answer = KwicSearch(index, q)
  BY <1>1, ShownConcordance, Zenon DEF Exportable
<1>3. CountsFor(q)  BY <1>2, Zenon DEF CountsFor
<1>4. KwicPages = TurnedHits(index, q, answer.pages)  BY Zenon DEF KwicPages, TurnedHits
<1>5. Shown(index, q) = ordered  BY Zenon DEF Shown
<1> HIDE DEF q, index, answer
<1>6. all = HitsOf(ordered)  BY <1>1, <1>2, <1>4, <1>5, TurnedAreShown, Zenon
<1>7. CountsPatterns(answer, index.tokens, keys, shown, Found(index, q))
  BY <1>2, <1>3, SearchCounts, Zenon DEF CountsAll
<1>8. Arranges(ordered, Found(index, q))  BY <1>2, SearchArranged, Zenon
<1>9. \A h : PatternAt(h) = W(h)
  <2> SUFFICES ASSUME NEW h PROVE PatternAt(h) = W(h)
    BY Zenon
  <2> DEFINE place == [row |-> h.row, length |-> h.length]
  <2>1. place.row = h.row /\ place.length = h.length  OBVIOUS
  <2>2. PatternAt(h) = W(place)  BY Zenon DEF WholePattern
  <2> HIDE DEF place, PatternAt
  <2> QED BY <2>2, <2>1, PatternOfPlace, Zenon DEF InOnePlace
<1>10. \A m, n : InOnePlace(m, n) => W(m) = W(n)  BY PatternOfPlace, Zenon
<1> HIDE DEF PatternAt, ordered, shown, all, keys
<1>11. \A i \in DOMAIN answer.hits :
          answer.hits[i].kpf = Cardinality({j \in DOMAIN all : PatternAt(all[j]) = PatternAt(answer.hits[i])})
  <2> SUFFICES ASSUME NEW i \in DOMAIN answer.hits
               PROVE  answer.hits[i].kpf =
                          Cardinality({j \in DOMAIN all : PatternAt(all[j]) = PatternAt(answer.hits[i])})
    BY Zenon
  <2> DEFINE hit == answer.hits[i]
  <2>1. /\ hit.row = shown[i].row /\ hit.length = shown[i].length
        /\ hit.kpf = Cardinality(SharePattern(index.tokens, keys, Found(index, q), shown[i]))
    BY <1>7, Zenon DEF CountsPatterns
  <2> HIDE DEF hit
  <2>2. W(hit) = W(shown[i])
    <3> HIDE DEF W
    <3> QED BY <1>10, <2>1, Zenon DEF InOnePlace
  <2>3. Cardinality({j \in DOMAIN HitsOf(ordered) : W(HitsOf(ordered)[j]) = W(shown[i])}) =
        Cardinality(SharePattern(index.tokens, keys, Found(index, q), shown[i]))
    <3>1. HitsShare(index.tokens, keys, Found(index, q), ordered, shown[i])  BY <1>8, HitsCounted, Zenon
    <3> QED BY <3>1, Zenon DEF HitsShare
  <2> HIDE DEF W
  <2> QED BY <2>1, <2>3, <1>6, <1>9, <2>2, Zenon DEF hit
<1> QED BY <1>11, Zenon DEF PatternCountsAgree, PatternAt, all, keys, answer, q, index

\* The number of hits with the pattern of a hit (kpf_count) is always that of
\* the whole result, on whatever page the hit is shown, however wide its
\* context is, and whether SQL or memory sorted it (search, search_advanced
\* and _search_full_regex).
THEOREM PatternCountsAlwaysAgree == Spec => []PatternCountsAgree
<1>1. PagesInvariant => PatternCountsAgree  BY PatternsOnPages, Zenon
<1> QED BY <1>1, PagesAreInvariant, PTL

-----------------------------------------------------------------------------
(* Scores as fractions, and lists in the order of a score *)

\* To multiply by a positive number keeps what is less.
LEMMA TimesKeepsOrder ==
    ASSUME NEW x \in Int, NEW y \in Int, NEW k \in Nat \ {0}
    PROVE  /\ x * k \in Int /\ y * k \in Int
           /\ x < y <=> x * k < y * k
           /\ x <= y <=> x * k <= y * k
<1>1. x * k \in Int /\ y * k \in Int  OBVIOUS
<1>2. x < y => x * k < y * k
  <2>1. SUFFICES ASSUME x < y PROVE x * k < y * k
    OBVIOUS
  <2>2. PICK n \in Nat \ {0} : y = x + n  BY <2>1
  <2> QED BY <1>1, <2>2
<1>3. y < x => y * k < x * k
  <2>1. SUFFICES ASSUME y < x PROVE y * k < x * k
    OBVIOUS
  <2>2. PICK n \in Nat \ {0} : x = y + n  BY <2>1
  <2> QED BY <1>1, <2>2
<1> DEFINE p == x * k
           r == y * k
<1> HIDE DEF p, r
<1> QED BY <1>1, <1>2, <1>3 DEF p, r

\* Of three fractions a/b, c/d and e/f, the first is at most the last if the
\* second is between them.
Chained(a, b, c, d, e, f) ==
    a * d <= c * b /\ c * f <= e * d =>
        a * f <= e * b /\ (a * d < c * b \/ c * f < e * d => a * f < e * b)

\* So are all fractions with positive denominators.
LEMMA FractionsChain ==
    ASSUME NEW a \in Int, NEW b \in Nat \ {0}, NEW c \in Int, NEW d \in Nat \ {0}, NEW e \in Int, NEW f \in Nat \ {0}
    PROVE  Chained(a, b, c, d, e, f)
<1> SUFFICES ASSUME a * d <= c * b, c * f <= e * d
             PROVE  a * f <= e * b /\ (a * d < c * b \/ c * f < e * d => a * f < e * b)
  BY Zenon DEF Chained
<1> DEFINE ad == a * d
           cb == c * b
           cf == c * f
           ed == e * d
           af == a * f
           eb == e * b
<1>1. ad \in Int /\ cb \in Int /\ cf \in Int /\ ed \in Int /\ af \in Int /\ eb \in Int /\ ad <= cb /\ cf <= ed
  OBVIOUS
<1>2. ad * f = af * d  OBVIOUS
<1>3. cb * f = cf * b  OBVIOUS
<1>4. ed * b = eb * d  OBVIOUS
<1> HIDE DEF ad, cb, cf, ed, af, eb
<1>5. /\ cf * b \in Int /\ ed * b \in Int /\ cf * b <= ed * b
      /\ cf < ed => cf * b < ed * b
  BY <1>1, TimesKeepsOrder, Zenon
<1> DEFINE p == af * d
           q == cf * b
           r == eb * d
<1>6. p \in Int /\ q \in Int /\ r \in Int /\ p <= q /\ q <= r /\ (ad < cb => p < q) /\ (cf < ed => q < r)
  BY <1>2, <1>3, <1>4, <1>1, TimesKeepsOrder, <1>5, Zenon
<1>7. (af < eb <=> p < r) /\ (af <= eb <=> p <= r)  BY <1>1, TimesKeepsOrder, Zenon
<1> HIDE DEF p, q, r
<1>8. af <= eb /\ (ad < cb \/ cf < ed => af < eb)  BY <1>6, <1>7
<1> QED BY <1>8 DEF ad, cb, cf, ed, af, eb

\* A fraction of an integer and a positive number.
Fraction(f) == f[1] \in Int /\ f[2] \in Nat \ {0}

\* Fractions are ordered.
LEMMA FractionsOrdered ==
    ASSUME NEW f, Fraction(f), NEW g, Fraction(g), NEW h, Fraction(h)
    PROVE  /\ ~FractionLess(f, f)
           /\ FractionLess(f, g) => ~FractionLess(g, f)
           /\ ~FractionLess(g, f) /\ ~FractionLess(h, g) =>
                /\ ~FractionLess(h, f)
                /\ FractionLess(f, g) \/ FractionLess(g, h) => FractionLess(f, h)
<1> DEFINE fg == f[1] * g[2]
           gf == g[1] * f[2]
           gh == g[1] * h[2]
           hg == h[1] * g[2]
           fh == f[1] * h[2]
           hf == h[1] * f[2]
<1>1. /\ f[1] \in Int /\ f[2] \in Nat \ {0} /\ g[1] \in Int /\ g[2] \in Nat \ {0}
      /\ h[1] \in Int /\ h[2] \in Nat \ {0}
  BY Zenon DEF Fraction
<1>2. fg \in Int /\ gf \in Int /\ gh \in Int /\ hg \in Int /\ fh \in Int /\ hf \in Int  BY <1>1
<1>3. /\ FractionLess(f, g) <=> fg < gf
      /\ FractionLess(g, f) <=> gf < fg
      /\ FractionLess(g, h) <=> gh < hg
      /\ FractionLess(h, g) <=> hg < gh
      /\ FractionLess(f, h) <=> fh < hf
      /\ FractionLess(h, f) <=> hf < fh
  BY Zenon DEF FractionLess
<1>4. fg <= gf /\ gh <= hg => fh <= hf /\ (fg < gf \/ gh < hg => fh < hf)
  <2>1. Chained(f[1], f[2], g[1], g[2], h[1], h[2])  BY <1>1, FractionsChain, Zenon
  <2> QED BY <2>1, Zenon DEF Chained
<1>5. ~FractionLess(f, f)
  <2>1. ~(f[1] * f[2] < f[1] * f[2])  BY <1>1
  <2> QED BY <2>1, Zenon DEF FractionLess
<1> HIDE DEF fg, gf, gh, hg, fh, hf
<1>6. (~(gf < fg) <=> fg <= gf) /\ (~(hg < gh) <=> gh <= hg) /\ (~(hf < fh) <=> fh <= hf) /\ (fg < gf => ~(gf < fg))
  BY <1>2
<1> QED BY <1>3, <1>4, <1>5, <1>6, Zenon

\* By score, the highest first, then by key.
ScoreLess(score, key, y, x) ==
    \/ FractionLess(score[x], score[y])
    \/ ~FractionLess(score[y], score[x]) /\ SeqLess(key[y], key[x])

BeforeByScore(S, score, key) == [x \in S |-> {y \in S : ScoreLess(score, key, y, x)}]

\* What a finite set is scored by: no two elements have the same key.
ScoredBy(S, score, key) ==
    /\ IsFiniteSet(S)
    /\ \A x \in S : Fraction(score[x]) /\ key[x] \in Seq(Int)
    /\ \A x, y \in S : key[x] = key[y] => x = y

\* The order by scores is a strict total order.
LEMMA ScoresOrder ==
    ASSUME NEW S, NEW score, NEW key, ScoredBy(S, score, key)
    PROVE  Orders(S, BeforeByScore(S, score, key))
<1> DEFINE before == BeforeByScore(S, score, key)
<1>1. /\ IsFiniteSet(S)
      /\ \A x \in S : Fraction(score[x]) /\ key[x] \in Seq(Int)
      /\ \A x, y \in S : key[x] = key[y] => x = y
  BY Zenon DEF ScoredBy
<1>2. before \in [S -> SUBSET S]  BY DEF BeforeByScore
<1>3. \A x, y \in S : y \in before[x] <=> ScoreLess(score, key, y, x)  BY Zenon DEF BeforeByScore
<1> HIDE DEF before
<1>4. \A x \in S : x \notin before[x]
  <2> TAKE x \in S
  <2> QED BY <1>1, FractionsOrdered, SeqLessIrreflexive, <1>3, Zenon DEF ScoreLess
<1>5. \A x, y \in S : y \in before[x] => before[y] \subseteq before[x]
  <2> SUFFICES ASSUME NEW x \in S, NEW y \in S, y \in before[x], NEW z \in before[y] PROVE z \in before[x]
    BY Zenon
  <2>1. z \in S  BY <1>2
  <2>2. ScoreLess(score, key, y, x) /\ ScoreLess(score, key, z, y)  BY <2>1, <1>3, Zenon
  <2>3. Fraction(score[x]) /\ Fraction(score[y]) /\ Fraction(score[z])  BY <2>1, <1>1, Zenon
  <2>4. ~FractionLess(score[y], score[x]) /\ ~FractionLess(score[z], score[y])
    BY <2>3, FractionsOrdered, <2>2, Zenon DEF ScoreLess
  <2>5. SeqLess(key[z], key[y]) /\ SeqLess(key[y], key[x]) => SeqLess(key[z], key[x])
    BY <2>1, <1>1, SeqLessTransitive, Zenon
  <2>6. ScoreLess(score, key, z, x)  BY <2>2, <2>3, <2>4, FractionsOrdered, <2>5, Zenon DEF ScoreLess
  <2> QED BY <2>1, <2>6, <1>3, Zenon
<1>6. \A x, y \in S : x = y \/ x \in before[y] \/ y \in before[x]
  <2> TAKE x, y \in S
  <2> QED BY <1>1, SeqLessTotal, <1>3, Zenon DEF ScoreLess
<1> QED BY <1>1, <1>2, <1>4, <1>5, <1>6, Zenon DEF Orders, before

\* The cells of a contingency table are not negative (ContingencyTable.from_marginals).
LEMMA CellsCount ==
    ASSUME NEW observed \in Nat, NEW opportunities \in Nat, NEW frequency \in Nat, NEW size \in Nat
    PROVE  \A c \in 1..4 : Contingency(observed, opportunities, frequency, size)[c] \in Nat
<1> DEFINE both == Lower(Lower(observed, opportunities), frequency)
           all == Higher(size, opportunities + frequency - both)
<1>1. both \in Nat /\ both <= opportunities /\ both <= frequency  BY DEF Lower
<1>2. all \in Int /\ all >= opportunities + frequency - both
  <2> HIDE DEF both
  <2> QED BY <1>1 DEF Higher
<1>3. Contingency(observed, opportunities, frequency, size) =
          <<both, opportunities - both, frequency - both, all - opportunities - frequency + both>>
  BY Zenon DEF Contingency
<1> HIDE DEF both, all
<1> QED BY <1>1, <1>3, <1>2

\* The measures of association are fractions with a positive denominator.
LEMMA MeasureIsFraction ==
    ASSUME NEW cells, \A c \in 1..4 : cells[c] \in Nat, NEW by
    PROVE  Fraction(Measure(cells, by))
<1> DEFINE row1 == cells[1] + cells[2]
           row2 == cells[3] + cells[4]
           column1 == cells[1] + cells[3]
           half == IF cells[3] = 0 THEN 1 ELSE 2 * cells[3]
           Quotient(a, b) == IF b = 0 THEN <<0, 1>> ELSE <<a, b>>
<1>1. row1 \in Nat /\ row2 \in Nat /\ column1 \in Nat /\ half \in Nat /\ cells[1] \in Nat  OBVIOUS
<1>2. \A a, b \in Nat : Fraction(Quotient(a, b))  BY DEF Fraction
<1>3. Measure(cells, by) =
        CASE by \in {"dice", "log_dice"} -> Quotient(2 * cells[1], row1 + column1)
          [] by \in {"mu", "mi"} -> Quotient(cells[1] * (row1 + row2), row1 * column1)
          [] by = "mi2" -> Quotient(cells[1] * cells[1] * (row1 + row2), row1 * column1)
          [] by \in {"rrf", "log_ratio"} -> Quotient(2 * row2 * cells[1], row1 * half)
          [] OTHER -> Quotient(cells[1], Higher(row1, column1))
  BY Zenon DEF Measure
<1> HIDE DEF Quotient, row1, row2, column1, half
<1>4. \A x, y \in Nat : x * y \in Nat /\ x + y \in Nat /\ 2 * x \in Nat  OBVIOUS
<1>5. row1 + column1 \in Nat /\ row1 + row2 \in Nat /\ row1 * column1 \in Nat /\ row1 * half \in Nat /\ 2 * cells[1] \in Nat
  BY <1>1, <1>4, Zenon
<1>6. cells[1] * (row1 + row2) \in Nat /\ cells[1] * cells[1] * (row1 + row2) \in Nat /\ 2 * row2 * cells[1] \in Nat
  BY <1>1, <1>4, <1>5, Zenon
<1> QED BY <1>1, <1>2, <1>5, <1>6, <1>3, Zenon DEF Higher

-----------------------------------------------------------------------------
(* The entries of collocates *)

\* The pairs of a node and a word in its window, of the query of collocates.
CollocatePairs(tokens, q) ==
    LET terms == NodeTerms(tokens, q) IN ContextPairs(tokens, NodeRows(tokens, q.lang, terms), Len(terms), q)

\* Those of one word.
NearPairs(tokens, pairs, s) == {p \in pairs : NormalAt(tokens, p[2]) = s}

CollocateEntry(tokens, q, pairs, s) ==
    LET corpusRows == RowsOf(tokens, q.lang, q.tag, q.symbols)
        near == NearPairs(tokens, pairs, s)
        frequency == Cardinality({g \in corpusRows : NormalAt(tokens, g) = s})
    IN  [key |-> s, frequency |-> Cardinality(near),
         left |-> Cardinality({p \in near : p[2] < p[1]}),
         right |-> Cardinality({p \in near : p[2] > p[1]}),
         range |-> Cardinality({tokens[p[2]].word.doc : p \in near}),
         corpus |-> frequency,
         cells |-> Contingency(Cardinality(near), Cardinality(pairs), frequency, Cardinality(corpusRows))]

\* The collocates that are listed.
CollocateEntries(tokens, q) ==
    LET pairs == CollocatePairs(tokens, q) IN
    {e \in {CollocateEntry(tokens, q, pairs, NormalAt(tokens, p[2])) : p \in pairs} : Enough(e, q)}

\* What they are sorted by.
CollocateKey(q, e) ==
    CASE q.by = "term" -> <<Rank[e.key], 0 - e.frequency>>
      [] q.by = "left" -> <<0 - e.left, 0 - e.frequency, Rank[e.key]>>
      [] q.by = "right" -> <<0 - e.right, 0 - e.frequency, Rank[e.key]>>
      [] q.by = "range" -> <<0 - e.range, 0 - e.frequency, Rank[e.key]>>
      [] OTHER -> <<0 - e.frequency, Rank[e.key]>>

ByNumber(q) == q.by \in {"term", "left", "right", "range", "frequency"}

\* The pairs of nodes and the words around them are finitely many.
LEMMA ContextPairsFinite ==
    ASSUME NEW tokens, Tokens(tokens), NEW nodes, nodes \subseteq DOMAIN tokens, NEW length, NEW q
    PROVE  /\ IsFiniteSet(DOMAIN tokens)
           /\ IsFiniteSet(ContextPairs(tokens, nodes, length, q))
           /\ ContextPairs(tokens, nodes, length, q) \subseteq nodes \X RowsOf(tokens, q.lang, q.tag, q.symbols)
<1> DEFINE rows == RowsOf(tokens, q.lang, q.tag, q.symbols)
           pairs == ContextPairs(tokens, nodes, length, q)
<1>1. IsFiniteSet(DOMAIN tokens)  BY TokensFinite, Zenon
<1>2. rows \subseteq DOMAIN tokens  BY Zenon DEF RowsOf
<1>3. pairs \subseteq nodes \X rows  BY Zenon DEF ContextPairs
<1> HIDE DEF rows, pairs
<1>4. pairs \in SUBSET (nodes \X rows)  BY <1>3, Zenon
<1>5. IsFiniteSet(pairs)  BY <1>1, <1>2, FS_Product, <1>4, FS_Subset, Zenon
<1> QED BY <1>1, <1>3, <1>5, Zenon DEF rows, pairs

\* An entry counts.
EntryCounts(e) ==
    /\ e.frequency \in Nat /\ e.left \in Nat /\ e.right \in Nat /\ e.range \in Nat
    /\ \A c \in 1..4 : e.cells[c] \in Nat

EntryOf(e, s) == EntryCounts(e) /\ e.key = s

\* The entry of every word counts.
LEMMA EntryTyped ==
    ASSUME NEW tokens, Tokens(tokens), NEW q, NEW pairs, IsFiniteSet(pairs), NEW s
    PROVE  EntryOf(CollocateEntry(tokens, q, pairs, s), s)
<1> DEFINE rows == RowsOf(tokens, q.lang, q.tag, q.symbols)
           near == NearPairs(tokens, pairs, s)
           same == {g \in rows : NormalAt(tokens, g) = s}
           lefts == {p \in near : p[2] < p[1]}
           rights == {p \in near : p[2] > p[1]}
           docs == {tokens[p[2]].word.doc : p \in near}
           cells == Contingency(Cardinality(near), Cardinality(pairs), Cardinality(same), Cardinality(rows))
           e == [key |-> s, frequency |-> Cardinality(near), left |-> Cardinality(lefts),
                 right |-> Cardinality(rights), range |-> Cardinality(docs),
                 corpus |-> Cardinality(same), cells |-> cells]
<1>1. CollocateEntry(tokens, q, pairs, s) = e  BY Zenon DEF CollocateEntry
<1>2. rows \in SUBSET DOMAIN tokens /\ same \in SUBSET DOMAIN tokens  BY Zenon DEF RowsOf
<1>3. near \in SUBSET pairs  BY Zenon DEF NearPairs
<1>4. IsFiniteSet(near)
  <2> HIDE DEF near
  <2> QED BY <1>3, FS_Subset, Zenon
<1>5. lefts \in SUBSET near /\ rights \in SUBSET near  BY Zenon
<1>6. IsFiniteSet(docs)
  <2> DEFINE f == [p \in near |-> tokens[p[2]].word.doc]
  <2>1. Image(docs, f, near)  BY Zenon DEF Image
  <2> HIDE DEF f, docs, near
  <2> QED BY <2>1, <1>4, ImageFinite, Zenon
<1>7. e.key = s /\ e.frequency = Cardinality(near) /\ e.left = Cardinality(lefts) /\ e.right = Cardinality(rights)
      /\ e.range = Cardinality(docs) /\ e.cells = cells
  <2> HIDE DEF near, lefts, rights, docs, cells, same
  <2> QED OBVIOUS
<1> HIDE DEF e, rows, near, same, lefts, rights, docs
<1>8. IsFiniteSet(rows) /\ IsFiniteSet(same) /\ IsFiniteSet(lefts) /\ IsFiniteSet(rights)
  BY TokensFinite, <1>2, <1>4, <1>5, FS_Subset, Zenon
<1>9. /\ Cardinality(rows) \in Nat /\ Cardinality(same) \in Nat /\ Cardinality(near) \in Nat
      /\ Cardinality(lefts) \in Nat /\ Cardinality(rights) \in Nat /\ Cardinality(docs) \in Nat
      /\ Cardinality(pairs) \in Nat
  BY <1>4, <1>6, <1>8, FS_CardinalityType, Zenon
<1>10. \A c \in 1..4 : cells[c] \in Nat  BY <1>9, CellsCount, Zenon
<1> HIDE DEF cells
<1> QED BY <1>1, <1>7, <1>9, <1>10, Zenon DEF EntryOf, EntryCounts

\* An entry of a word in the window of a node.
WordEntry(tokens, q, e) ==
    /\ EntryCounts(e) /\ Rank[e.key] \in Int
    /\ \E p \in CollocatePairs(tokens, q) :
            /\ e.key = NormalAt(tokens, p[2])
            /\ p \in NodeRows(tokens, q.lang, NodeTerms(tokens, q)) \X RowsOf(tokens, q.lang, q.tag, q.symbols)
    /\ e = CollocateEntry(tokens, q, CollocatePairs(tokens, q), e.key)
    /\ \E t \in DOMAIN Normal : e.key = Normal[t]

\* Every entry is that of a word in the window of a node.
LEMMA EntriesOfWords ==
    ASSUME NEW tokens, Tokens(tokens), NEW q, NEW e \in CollocateEntries(tokens, q)
    PROVE  WordEntry(tokens, q, e)
<1> DEFINE pairs == CollocatePairs(tokens, q)
           terms == NodeTerms(tokens, q)
           nodes == NodeRows(tokens, q.lang, terms)
           rows == RowsOf(tokens, q.lang, q.tag, q.symbols)
<1>1. nodes \subseteq DOMAIN tokens /\ rows \subseteq DOMAIN tokens  BY Zenon DEF NodeRows, RowsOf
<1>2. pairs = ContextPairs(tokens, nodes, Len(terms), q)  BY Zenon DEF CollocatePairs
<1>3. PICK p \in pairs : e = CollocateEntry(tokens, q, pairs, NormalAt(tokens, p[2]))
  BY Zenon DEF CollocateEntries
<1> HIDE DEF pairs, nodes, terms, rows
<1>4. IsFiniteSet(pairs) /\ pairs \subseteq nodes \X rows  BY <1>1, <1>2, ContextPairsFinite, Zenon DEF rows
<1>5. EntryCounts(e) /\ e.key = NormalAt(tokens, p[2])
  <2>1. EntryOf(CollocateEntry(tokens, q, pairs, NormalAt(tokens, p[2])), NormalAt(tokens, p[2]))
    BY <1>4, EntryTyped, Zenon
  <2> QED BY <2>1, <1>3, Zenon DEF EntryOf
<1>6. p \in nodes \X rows  BY <1>4, Zenon
<1>7. p[2] \in DOMAIN tokens  BY <1>1, <1>6
<1>8. Rank[e.key] \in Int  BY <1>5, <1>7, RankTyped, Zenon
<1>9. tokens[p[2]].word.text \in DOMAIN Normal
  <2>1. tokens[p[2]].word \in WordRecords  BY <1>7, StreamsIncrease, Zenon
  <2> QED BY <2>1 DEF WordRecords
<1>10. e.key = Normal[tokens[p[2]].word.text]  BY <1>5, Zenon DEF NormalAt
<1> QED BY <1>5, <1>6, <1>8, <1>9, <1>3, <1>10, Zenon DEF WordEntry, pairs, nodes, terms, rows

\* The entries are finitely many.
LEMMA EntriesFinite ==
    ASSUME NEW tokens, Tokens(tokens), NEW q
    PROVE  IsFiniteSet(CollocateEntries(tokens, q))
<1> DEFINE pairs == CollocatePairs(tokens, q)
           f == [p \in pairs |-> CollocateEntry(tokens, q, pairs, NormalAt(tokens, p[2]))]
           all == {CollocateEntry(tokens, q, pairs, NormalAt(tokens, p[2])) : p \in pairs}
<1>1. Image(all, f, pairs)  BY Zenon DEF Image
<1>2. CollocateEntries(tokens, q) \in SUBSET all  BY Zenon DEF CollocateEntries
<1>3. IsFiniteSet(pairs)  BY ContextPairsFinite, Zenon DEF CollocatePairs, NodeRows
<1> HIDE DEF f, all, pairs
<1> QED BY <1>2, <1>1, <1>3, ImageFinite, FS_Subset, Zenon

\* What an entry is sorted by is a sequence of numbers.
LEMMA EntryKeyTyped ==
    ASSUME NEW e, EntryCounts(e), Rank[e.key] \in Int, NEW q
    PROVE  CollocateKey(q, e) \in Seq(Int)
<1> DEFINE rank == Rank[e.key]
           a == 0 - e.frequency
           b == 0 - e.left
           c == 0 - e.right
           d == 0 - e.range
<1>1. rank \in Int /\ a \in Int /\ b \in Int /\ c \in Int /\ d \in Int  BY DEF EntryCounts
<1> HIDE DEF rank, a, b, c, d
<1>2. /\ <<rank, a>> \in Seq(Int) /\ <<b, a, rank>> \in Seq(Int) /\ <<c, a, rank>> \in Seq(Int)
      /\ <<d, a, rank>> \in Seq(Int) /\ <<a, rank>> \in Seq(Int)
  BY <1>1
<1>3. \/ CollocateKey(q, e) = <<rank, a>> \/ CollocateKey(q, e) = <<b, a, rank>>
      \/ CollocateKey(q, e) = <<c, a, rank>> \/ CollocateKey(q, e) = <<d, a, rank>>
      \/ CollocateKey(q, e) = <<a, rank>>
  BY Zenon DEF CollocateKey, rank, a, b, c, d
<1> QED BY <1>2, <1>3, Zenon

\* Where it holds the place of the word.
RankAt(q) == IF q.by = "term" THEN 1 ELSE IF q.by \in {"left", "right", "range"} THEN 3 ELSE 2

\* There it holds it.
LEMMA EntryKeyRank ==
    ASSUME NEW q, NEW e
    PROVE  CollocateKey(q, e)[RankAt(q)] = Rank[e.key]
<1>1. CASE q.by = "term"  BY <1>1 DEF CollocateKey, RankAt
<1>2. CASE q.by = "left"  BY <1>2 DEF CollocateKey, RankAt
<1>3. CASE q.by = "right"  BY <1>3 DEF CollocateKey, RankAt
<1>4. CASE q.by = "range"  BY <1>4 DEF CollocateKey, RankAt
<1>5. CASE q.by \notin {"term", "left", "right", "range"}  BY <1>5 DEF CollocateKey, RankAt
<1> QED BY <1>1, <1>2, <1>3, <1>4, <1>5, Zenon

\* A collocate is listed before another (collocates).
CollocateLess(q, d, e) ==
    LET f == Measure(d.cells, q.by)
        g == Measure(e.cells, q.by)
    IN  IF ByNumber(q) THEN SeqLess(CollocateKey(q, d), CollocateKey(q, e))
        ELSE FractionLess(g, f) \/ (~FractionLess(f, g) /\ SeqLess(CollocateKey(q, d), CollocateKey(q, e)))

CollocateOrder(tokens, q) == InOrder(CollocateEntries(tokens, q), LAMBDA d, e : CollocateLess(q, d, e))

\* The entries in order are the entries.
LEMMA EntriesInOrder ==
    ASSUME NEW tokens, Tokens(tokens), NEW q
    PROVE  CollocateOrder(tokens, q) \in Seq(CollocateEntries(tokens, q))
<1> DEFINE kept == CollocateEntries(tokens, q)
           score == [e \in kept |-> IF ByNumber(q) THEN <<0, 1>> ELSE Measure(e.cells, q.by)]
           key == [e \in kept |-> CollocateKey(q, e)]
           before == BeforeByScore(kept, score, key)
           Less(d, e) == CollocateLess(q, d, e)
           ordered == InOrder(kept, Less)
<1>1. IsFiniteSet(kept)  BY EntriesFinite, Zenon
<1>0. \A e \in kept : WordEntry(tokens, q, e)  BY EntriesOfWords, Zenon
<1>2. \A e \in kept : EntryCounts(e) /\ Rank[e.key] \in Int  BY <1>0, Zenon DEF WordEntry
<1>3. \A d, e \in kept : CollocateKey(q, d) = CollocateKey(q, e) => d = e
  <2> SUFFICES ASSUME NEW d \in kept, NEW e \in kept, CollocateKey(q, d) = CollocateKey(q, e) PROVE d = e
    BY Zenon
  <2>1. Rank[d.key] = Rank[e.key]  BY EntryKeyRank, Zenon
  <2>2. PICK s \in DOMAIN Normal : d.key = Normal[s]  BY <1>0, Zenon DEF WordEntry
  <2>3. PICK t \in DOMAIN Normal : e.key = Normal[t]  BY <1>0, Zenon DEF WordEntry
  <2>4. /\ d = CollocateEntry(tokens, q, CollocatePairs(tokens, q), d.key)
        /\ e = CollocateEntry(tokens, q, CollocatePairs(tokens, q), e.key)
    BY <1>0, Zenon DEF WordEntry
  <2> QED BY <2>1, <2>2, <2>3, PlacesAssumption, <2>4, Zenon
<1> HIDE DEF kept
<1>4. \A e \in kept : score[e] = (IF ByNumber(q) THEN <<0, 1>> ELSE Measure(e.cells, q.by)) /\ key[e] = CollocateKey(q, e)
  BY Zenon
<1>5. ScoredBy(kept, score, key)
  <2>1. Fraction(<<0, 1>>)  BY DEF Fraction
  <2> DEFINE none == <<0, 1>>
  <2>2. \A e \in kept : score[e] = none \/ score[e] = Measure(e.cells, q.by)  BY <1>4, Zenon
  <2>3. Fraction(none)  BY <2>1, Zenon
  <2> HIDE DEF score, key, none
  <2>4. \A e \in kept : Fraction(score[e])  BY <1>2, MeasureIsFraction, <2>2, <2>3, Zenon DEF EntryCounts
  <2>5. \A d, e \in kept : key[d] = key[e] => d = e
    <3> SUFFICES ASSUME NEW d \in kept, NEW e \in kept, key[d] = key[e] PROVE d = e
      BY Zenon
    <3> QED BY <1>4, <1>3, Zenon
  <2> QED BY <1>1, <2>4, <1>2, EntryKeyTyped, <1>4, <2>5, Zenon DEF ScoredBy
<1>6. \A d, e \in kept : Less(d, e) <=> ScoreLess(score, key, d, e)
  <2> SUFFICES ASSUME NEW d \in kept, NEW e \in kept PROVE CollocateLess(q, d, e) <=> ScoreLess(score, key, d, e)
    BY Zenon
  <2>1. key[d] = CollocateKey(q, d) /\ key[e] = CollocateKey(q, e)  BY <1>4, Zenon
  <2>2. CASE ByNumber(q)
    <3> DEFINE none == <<0, 1>>
    <3>1. score[d] = none /\ score[e] = none  BY <2>2, <1>4, Zenon
    <3>2. ~FractionLess(none, none)  BY DEF FractionLess
    <3> HIDE DEF none, score, key
    <3> QED BY <2>1, <2>2, <3>1, <3>2, Zenon DEF ScoreLess, CollocateLess
  <2>3. CASE ~ByNumber(q)
    <3> HIDE DEF score, key
    <3> QED BY <2>1, <2>3, <1>4, Zenon DEF CollocateLess, ScoreLess
  <2> QED BY <2>2, <2>3, Zenon
<1>7. \A x \in kept : before[x] = {y \in kept : ScoreLess(score, key, y, x)}  BY Zenon DEF BeforeByScore
<1>8. ordered = Ranked(kept, before)
  <2> DEFINE A(x) == [at |-> Cardinality({y \in kept : Less(y, x)}), element |-> x]
             B(x) == [at |-> Cardinality(before[x]), element |-> x]
             Value(all) == [i \in 1..Cardinality(kept) |-> (CHOOSE p \in all : p.at = i - 1).element]
  <2>1. ordered = Value({A(x) : x \in kept})  BY Zenon DEF InOrder
  <2>2. Ranked(kept, before) = Value({B(x) : x \in kept})  BY Zenon DEF Ranked
  <2>3. \A x \in kept : A(x) = B(x)
    <3> TAKE x \in kept
    <3> HIDE DEF before, Less, score, key
    <3> QED BY <1>6, <1>7, Zenon
  <2> HIDE DEF A, B, Value, before, ordered
  <2>4. {A(x) : x \in kept} = {B(x) : x \in kept}  BY <2>3
  <2> QED BY <2>1, <2>2, <2>4, Zenon
<1>9. ordered \in Seq(kept)
  <2> HIDE DEF score, key, ordered
  <2> QED BY <1>5, ScoresOrder, RankedEnumerates, <1>1, <1>8, EnumeratedArranged, Zenon DEF Arranges
<1> QED BY <1>9, Zenon DEF kept, CollocateOrder

\* A page of the collocates lists entries (collocates).
LEMMA EntriesListed ==
    ASSUME NEW index, Tokens(index.tokens), NEW q, CollocateQuery(q), q.page >= 1, ~IsError(Collocates(index, q))
    PROVE  /\ ~QueryFails(q)
           /\ \A i \in DOMAIN Collocates(index, q).rows : Collocates(index, q).rows[i] \in CollocateEntries(index.tokens, q)
<1> DEFINE tokens == index.tokens
           ordered == CollocateOrder(tokens, q)
           nodes == NodeRows(tokens, q.lang, NodeTerms(tokens, q))
           counts == [nodes |-> Cardinality(nodes), context |-> Cardinality(CollocatePairs(tokens, q)),
                      corpus |-> Cardinality(RowsOf(tokens, q.lang, q.tag, q.symbols))]
           listed == Listed(ordered, q)
           rows == PageOf(ordered, q.page, q.size)
<1>1. Collocates(index, q) = IF QueryFails(q) \/ (q.leftSpan = 0 /\ q.rightSpan = 0) THEN QueryError
                             ELSE Extended(listed, counts)
  BY Zenon DEF Collocates, CollocateOrder, CollocateEntries, CollocatePairs, CollocateEntry, NearPairs, CollocateKey,
               CollocateLess, ByNumber
<1>2. IsError(QueryError)  BY DEF IsError, QueryError
<1>3. ordered \in Seq(CollocateEntries(tokens, q))  BY EntriesInOrder, Zenon
<1>4. listed.rows = rows /\ "rows" \in DOMAIN listed
  <2> HIDE DEF ordered
  <2> QED BY DEF Listed
<1> HIDE DEF ordered, counts, listed
<1>5. Extended(listed, counts).rows = rows  BY <1>4 DEF Extended
<1>6. q.page \in Nat \ {0} /\ q.size \in Nat \ {0}  BY DEF CollocateQuery
<1>7. rows \in Seq(CollocateEntries(tokens, q))  BY <1>3, <1>6, PageIsPart, Zenon
<1> HIDE DEF rows
<1>8. \A i \in DOMAIN rows : rows[i] \in CollocateEntries(tokens, q)  BY <1>7
<1> QED BY <1>5, <1>1, <1>2, <1>8, Zenon

-----------------------------------------------------------------------------
(* What stands on both sides of a node *)

\* A pair is in one set when the swapped pair is in the other.
Swapped(S, T, D) ==
    /\ S \subseteq D \X D /\ T \subseteq D \X D
    /\ \A g, h \in D : <<g, h>> \in S <=> <<h, g>> \in T

\* Swapping pairs does not change how many there are.
LEMMA SwappedAlike ==
    ASSUME NEW S, IsFiniteSet(S), NEW T, NEW D, Swapped(S, T, D)
    PROVE  Cardinality(S) = Cardinality(T)
<1> DEFINE f == [p \in S |-> <<p[2], p[1]>>]
<1>1. /\ S \subseteq D \X D /\ T \subseteq D \X D
      /\ \A g, h \in D : <<g, h>> \in S <=> <<h, g>> \in T
  BY Zenon DEF Swapped
<1>2. \A p \in S : p[1] \in D /\ p[2] \in D /\ p = <<p[1], p[2]>>  BY <1>1
<1>3. \A p \in S : f[p] = <<p[2], p[1]>>  BY Zenon
<1>4. f \in [S -> T]  BY <1>1, <1>2
<1> HIDE DEF f
<1>5. \A p, r \in S : f[p] = f[r] => p = r
  <2> TAKE p, r \in S
  <2>1. f[p] = f[r] => p[1] = r[1] /\ p[2] = r[2]  BY <1>3
  <2> QED BY <1>2, <2>1, Zenon
<1>6. \A t \in T : \E p \in S : f[p] = t
  <2> TAKE t \in T
  <2>1. t[1] \in D /\ t[2] \in D /\ t = <<t[1], t[2]>>  BY <1>1
  <2>2. <<t[2], t[1]>> \in S  BY <1>1, <2>1, Zenon
  <2>3. f[<<t[2], t[1]>>] = <<t[1], t[2]>>  BY <1>3, <2>2
  <2> QED BY <2>1, <2>2, <2>3, Zenon
<1> QED BY <1>4, <1>5, <1>6, CountedAlike, Zenon

\* Of a query something is left when it is taken apart (token_matches).
LEMMA TokenizedHasWords ==
    ASSUME NEW terms, IsList(terms), terms # <<>>
    PROVE  Tokenized(terms) # <<>>
<1> DEFINE n == Len(terms)
           seqs == Taken(terms)
<1>1. n \in Nat \ {0} /\ DOMAIN terms = 1..n  BY TakenTyped, EmptySeq, Zenon DEF IsList
<1>2. PICK Y : seqs \in [1..n -> Seq(Y)]  BY TakenTyped, Zenon
<1>3. Tokenized(terms) = FlattenSeq(seqs)  BY Zenon DEF Tokenized, Taken
<1>4. n \in 1..n  BY <1>1
<1>5. seqs[n] # <<>>
  <2>1. seqs[n] = IF terms[n] \in DOMAIN Compound THEN Compound[terms[n]] ELSE <<terms[n]>>
    BY <1>1, <1>4, Zenon DEF Taken
  <2>2. \A t : <<t>> # <<>>  OBVIOUS
  <2> QED BY <2>1, <2>2, PlacesAssumption, Zenon
<1> HIDE DEF seqs, n
<1>6. PICK g \in [1..n -> Seq(Y)] : Flattens(g, seqs)  BY <1>1, <1>2, FlattenFunction, Zenon
<1>7. Len(seqs) = n  BY <1>1, <1>2, LenOfFunction
<1>8. FlattenSeq(seqs) = g[n]  BY <1>1, <1>6, <1>7, FlattenIs, Zenon
<1>9. g[n] = IF n = 1 THEN seqs[n] ELSE g[n - 1] \o seqs[n]  BY <1>4, <1>6, <1>7, Zenon DEF Flattens
<1>10. seqs[n] \in Seq(Y) /\ (n # 1 => g[n - 1] \in Seq(Y))  BY <1>1, <1>2, <1>6
<1>11. \A s, t \in Seq(Y) : t # <<>> => s \o t # <<>>  OBVIOUS
<1> QED BY <1>3, <1>5, <1>8, <1>9, <1>10, <1>11, Zenon

\* The words of a query of collocates are at least one.
LEMMA NodeHasTerms ==
    ASSUME NEW tokens, NEW q, CollocateQuery(q), ~QueryFails(q)
    PROVE  Len(NodeTerms(tokens, q)) \in Nat \ {0}
<1>1. \A X : \A s \in Seq(X) : s # <<>> => Len(Folded(s)) \in Nat \ {0}
  <2> SUFFICES ASSUME NEW X, NEW s \in Seq(X), s # <<>> PROVE Len(Folded(s)) \in Nat \ {0}
    BY Zenon
  <2>1. Len(s) \in Nat \ {0} /\ DOMAIN s = 1..Len(s)  BY EmptySeq, LenProperties
  <2>2. Folded(s) = [i \in 1..Len(s) |-> Normal[s[i]]]  BY <2>1, Zenon DEF Folded
  <2> QED BY <2>1, <2>2
<1>2. Len(Folded(q.terms)) \in Nat \ {0}  BY <1>1, Zenon DEF CollocateQuery, IsList, QueryFails
<1>3. Len(Folded(Tokenized(q.terms))) \in Nat \ {0}
  BY <1>1, TokenizedIsSequence, TokenizedHasWords, Zenon DEF CollocateQuery, QueryFails
<1> QED BY <1>2, <1>3, Zenon DEF NodeTerms

\* The shares of an entry: what stands left and right of the node.
EntryShares(e, near) ==
    /\ e.frequency = Cardinality(near)
    /\ e.left = Cardinality({p \in near : p[2] < p[1]})
    /\ e.right = Cardinality({p \in near : p[2] > p[1]})

\* An entry is made of them.
LEMMA EntrySharesPairs ==
    ASSUME NEW tokens, NEW q, NEW pairs, NEW s
    PROVE  EntryShares(CollocateEntry(tokens, q, pairs, s), NearPairs(tokens, pairs, s))
<1> DEFINE near == NearPairs(tokens, pairs, s)
           n == Cardinality(near)
           l == Cardinality({p \in near : p[2] < p[1]})
           r == Cardinality({p \in near : p[2] > p[1]})
           docs == Cardinality({tokens[p[2]].word.doc : p \in near})
           same == Cardinality({g \in RowsOf(tokens, q.lang, q.tag, q.symbols) : NormalAt(tokens, g) = s})
           cells == Contingency(n, Cardinality(pairs), same, Cardinality(RowsOf(tokens, q.lang, q.tag, q.symbols)))
           e == [key |-> s, frequency |-> n, left |-> l, right |-> r, range |-> docs, corpus |-> same, cells |-> cells]
<1>1. e.frequency = n /\ e.left = l /\ e.right = r
  <2> HIDE DEF n, l, r, docs, same, cells
  <2> QED OBVIOUS
<1> HIDE DEF e
<1> QED BY <1>1, Zenon DEF EntryShares, CollocateEntry

\* What stands left of the node and what stands right of it is what stands near it.
LEMMA SharesAddUp ==
    ASSUME NEW near, IsFiniteSet(near), NEW e, EntryShares(e, near),
           \A p \in near : p[1] \in Int /\ p[2] \in Int /\ p[1] # p[2]
    PROVE  e.left + e.right = e.frequency
<1> DEFINE lefts == {p \in near : p[2] < p[1]}
           rights == {p \in near : p[2] > p[1]}
<1>1. lefts \cup rights = near /\ lefts \cap rights = {}  OBVIOUS
<1>2. lefts \in SUBSET near /\ rights \in SUBSET near  BY Zenon
<1>3. e.frequency = Cardinality(near) /\ e.left = Cardinality(lefts) /\ e.right = Cardinality(rights)
  BY Zenon DEF EntryShares
<1> HIDE DEF lefts, rights
<1>4. IsFiniteSet(lefts) /\ IsFiniteSet(rights)  BY <1>2, FS_Subset, Zenon
<1>5. Cardinality(near) = Cardinality(lefts) + Cardinality(rights) - Cardinality({})
  BY <1>1, <1>4, FS_Union, Zenon
<1>6. Cardinality({}) = 0  BY FS_EmptySet, Zenon
<1>7. Cardinality(lefts) \in Nat /\ Cardinality(rights) \in Nat  BY <1>4, FS_CardinalityType, Zenon
<1> QED BY <1>3, <1>5, <1>6, <1>7

-----------------------------------------------------------------------------
(* The window, seen from both ends *)

\* The word is in the window of the node.
InWindow(q, length, g, h) == h \in (g - q.leftSpan)..(g - 1) \cup (g + length)..(g + length + q.rightSpan - 1)

\* What it is for a word to be near a node.
NearMeans(tokens, nodes, length, q, g, h) ==
    <<g, h>> \in ContextPairs(tokens, nodes, length, q) <=>
        /\ g \in nodes /\ h \in RowsOf(tokens, q.lang, q.tag, q.symbols)
        /\ tokens[g].word.sentence = tokens[h].word.sentence
        /\ InWindow(q, length, g, h)

\* The context pairs are the nodes and the words that are near them.
LEMMA PairIsNear ==
    ASSUME NEW tokens, NEW nodes, NEW length, NEW q, NEW g, NEW h
    PROVE  NearMeans(tokens, nodes, length, q, g, h)
<1> DEFINE rows == RowsOf(tokens, q.lang, q.tag, q.symbols)
           Near(a, b) == tokens[a].word.sentence = tokens[b].word.sentence /\ InWindow(q, length, a, b)
<1> HIDE DEF Near, rows
<1>1. <<g, h>> \in {p \in nodes \X rows : Near(p[1], p[2])} <=> g \in nodes /\ h \in rows /\ Near(g, h)
  OBVIOUS
<1> QED BY <1>1, Zenon DEF Near, rows, NearMeans, ContextPairs, InWindow

\* No word is in its own window.
LEMMA NearIsApart ==
    ASSUME NEW tokens, Tokens(tokens), NEW nodes, nodes \subseteq DOMAIN tokens, NEW length \in Nat \ {0},
           NEW q, CollocateQuery(q), NEW p \in ContextPairs(tokens, nodes, length, q)
    PROVE  p[1] \in Int /\ p[2] \in Int /\ p[1] # p[2]
<1>1. DOMAIN tokens \subseteq Nat
  <2>1. PICK n \in Nat : DOMAIN tokens = 1..n  BY Zenon DEF Tokens
  <2> QED BY <2>1
<1>2. p \in nodes \X RowsOf(tokens, q.lang, q.tag, q.symbols)  BY ContextPairsFinite, Zenon
<1>3. RowsOf(tokens, q.lang, q.tag, q.symbols) \subseteq DOMAIN tokens  BY Zenon DEF RowsOf
<1>4. p[1] \in Nat /\ p[2] \in Nat /\ p = <<p[1], p[2]>>  BY <1>1, <1>2, <1>3
<1>5. InWindow(q, length, p[1], p[2])
  <2>1. NearMeans(tokens, nodes, length, q, p[1], p[2])  BY PairIsNear, Zenon
  <2> QED BY <1>4, <2>1, Zenon DEF NearMeans
<1> DEFINE a == p[1]
           b == p[2]
           l == q.leftSpan
           r == q.rightSpan
<1>6. /\ a \in Nat /\ b \in Nat /\ l \in Int /\ r \in Int
      /\ b \in (a - l)..(a - 1) \cup (a + length)..(a + length + r - 1)
  BY <1>4, <1>5, Zenon DEF InWindow, CollocateQuery
<1> HIDE DEF a, b, l, r
<1>7. a \in Int /\ b \in Int /\ a # b  BY <1>6
<1> QED BY <1>7, Zenon DEF a, b

\* The window seen from the other word.
Turned(q) == [q EXCEPT !.leftSpan = q.rightSpan, !.rightSpan = q.leftSpan]

\* A word is in the window of the node when the node is in the turned window of the word.
LEMMA WindowTurns ==
    ASSUME NEW q, CollocateQuery(q), NEW g \in Nat, NEW h \in Nat
    PROVE  /\ InWindow(q, 1, g, h) <=> InWindow(Turned(q), 1, h, g)
           /\ Turned(q).lang = q.lang /\ Turned(q).tag = q.tag /\ Turned(q).symbols = q.symbols
<1> DEFINE l == q.leftSpan
           r == q.rightSpan
<1>1. {"leftSpan", "rightSpan", "lang", "tag", "symbols"} \subseteq DOMAIN q /\ l \in Int /\ r \in Int
  BY DEF CollocateQuery, CollocateFields
<1>2. /\ Turned(q).leftSpan = r /\ Turned(q).rightSpan = l
      /\ Turned(q).lang = q.lang /\ Turned(q).tag = q.tag /\ Turned(q).symbols = q.symbols
  BY <1>1 DEF Turned
<1>3. InWindow(q, 1, g, h) <=> h \in (g - l)..(g - 1) \cup (g + 1)..(g + 1 + r - 1)  BY Zenon DEF InWindow
<1> HIDE DEF l, r
<1>4. h \in (g - l)..(g - 1) \cup (g + 1)..(g + 1 + r - 1) <=> g \in (h - r)..(h - 1) \cup (h + 1)..(h + 1 + l - 1)
  BY <1>1
<1> QED BY <1>2, <1>3, <1>4, Zenon DEF InWindow

\* The places of one word.
PlaceMeans(tokens, lang, word, g) ==
    g \in NodeRows(tokens, lang, <<word>>) <=>
        g \in DOMAIN tokens /\ tokens[g].word.lang = lang /\ NormalAt(tokens, g) = word

\* A query of one word finds the places of that word.
LEMMA NodeOfOne ==
    ASSUME NEW tokens, DOMAIN tokens \subseteq Nat, NEW lang, NEW word, NEW g
    PROVE  PlaceMeans(tokens, lang, word, g)
<1> DEFINE terms == <<word>>
           Here(i) == /\ g + i - 1 \in DOMAIN tokens
                      /\ tokens[g + i - 1].word.sentence = tokens[g].word.sentence
                      /\ NormalAt(tokens, g + i - 1) = terms[i]
<1>1. g \in NodeRows(tokens, lang, terms) <=>
          g \in DOMAIN tokens /\ tokens[g].word.lang = lang /\ \A i \in DOMAIN terms : Here(i)
  BY Zenon DEF NodeRows
<1>2. DOMAIN terms = {1} /\ terms[1] = word  OBVIOUS
<1>3. g \in DOMAIN tokens => g + 1 - 1 = g  OBVIOUS
<1> HIDE DEF terms
<1>4. g \in DOMAIN tokens => (Here(1) <=> NormalAt(tokens, g) = word)
  <2> SUFFICES ASSUME g \in DOMAIN tokens PROVE Here(1) <=> NormalAt(tokens, g) = word
    BY Zenon
  <2> DEFINE k == g + 1 - 1
  <2>1. k = g  BY <1>3, Zenon
  <2>2. Here(1) <=> /\ k \in DOMAIN tokens
                    /\ tokens[k].word.sentence = tokens[g].word.sentence
                    /\ NormalAt(tokens, k) = terms[1]
    BY Zenon
  <2> HIDE DEF k, Here
  <2> QED BY <1>2, <2>1, <2>2, Zenon
<1> HIDE DEF Here
<1> QED BY <1>1, <1>4, <1>2, Zenon DEF terms, PlaceMeans

\* Words that are the same when folded are both punctuation, or neither is.
LEMMA SymbolsAlike ==
    ASSUME NEW tokens, Tokens(tokens), NEW g \in DOMAIN tokens, NEW t \in DOMAIN Normal, NormalAt(tokens, g) = Normal[t]
    PROVE  Symbolic(tokens, g) <=> t \in Symbols
<1>1. tokens[g].word \in WordRecords  BY StreamsIncrease, Zenon
<1>2. tokens[g].word.text \in DOMAIN Normal  BY <1>1 DEF WordRecords
<1> QED BY <1>2, SymbolsAssumption, Zenon DEF NormalAt, Symbolic

\* The words beside the node are those that are counted.
PlainRow(tokens, q, g) == g \in DOMAIN tokens /\ tokens[g].word.lang = q.lang

\* A query of one word that is no punctuation, whatever its collocates are tagged.
OneWord(q, t) ==
    /\ t \in DOMAIN Normal /\ t \notin Symbols /\ t \notin DOMAIN Compound
    /\ q.terms = <<t>> /\ q.tag = ""

\* One word that the segmenter leaves alone is a query as it stands.
LEMMA TokenizedWord ==
    ASSUME NEW t, t \notin DOMAIN Compound
    PROVE  Tokenized(<<t>>) = <<t>>
<1> DEFINE seqs == [i \in DOMAIN <<t>> |-> IF <<t>>[i] \in DOMAIN Compound THEN Compound[<<t>>[i]] ELSE <<<<t>>[i]>>]
<1>1. seqs = [i \in 1..1 |-> <<t>>]  OBVIOUS
<1>2. Tokenized(<<t>>) = FlattenSeq(seqs)  BY Zenon DEF Tokenized
<1> HIDE DEF seqs
<1> QED BY <1>1, <1>2, FlattenOne, Zenon

\* Such a query looks for that word.
LEMMA NodeOfOneWord ==
    ASSUME NEW tokens, NEW q, NEW t, OneWord(q, t)
    PROVE  NodeTerms(tokens, q) = <<Normal[t]>> /\ Folded(q.terms)[1] = Normal[t]
<1>1. q.terms = <<t>> /\ t \notin DOMAIN Compound  BY Zenon DEF OneWord
<1>2. Tokenized(q.terms) = q.terms  BY <1>1, TokenizedWord, Zenon
<1>3. Folded(q.terms) = <<Normal[t]>>
  <2>1. Folded(<<t>>) = <<Normal[t]>>  BY DEF Folded
  <2> QED BY <2>1, <1>1, Zenon
<1>4. <<Normal[t]>>[1] = Normal[t]  OBVIOUS
<1> QED BY <1>3, <1>2, <1>4, Zenon DEF NodeTerms

\* A word s is near a node of the query when the node is near it in the turned window.
LEMMA NearTurns ==
    ASSUME NEW tokens, Tokens(tokens), NEW q, CollocateQuery(q), NEW t, OneWord(q, t),
           NEW u \in DOMAIN Normal, q.symbols \/ u \notin Symbols
    PROVE  Swapped({p \in CollocatePairs(tokens, q) : NormalAt(tokens, p[2]) = Normal[u]},
                   {p \in ContextPairs(tokens, NodeRows(tokens, q.lang, <<Normal[u]>>), 1, Turned(q)) :
                        NormalAt(tokens, p[2]) = Normal[t]},
                   DOMAIN tokens)
<1> DEFINE D == DOMAIN tokens
           nodes == NodeRows(tokens, q.lang, <<Normal[t]>>)
           words == NodeRows(tokens, q.lang, <<Normal[u]>>)
           pairs == ContextPairs(tokens, nodes, 1, q)
           turned == ContextPairs(tokens, words, 1, Turned(q))
           S == {p \in pairs : NormalAt(tokens, p[2]) = Normal[u]}
           T == {p \in turned : NormalAt(tokens, p[2]) = Normal[t]}
           Same(g, h) == tokens[g].word.sentence = tokens[h].word.sentence
<1>1. D \subseteq Nat
  <2>1. PICK n \in Nat : D = 1..n  BY Zenon DEF Tokens
  <2> HIDE DEF D
  <2> QED BY <2>1
<1>2. CollocatePairs(tokens, q) = pairs
  <2>1. Len(<<Normal[t]>>) = 1  OBVIOUS
  <2> QED BY NodeOfOneWord, <2>1, Zenon DEF CollocatePairs
<1>3. nodes \subseteq D /\ words \subseteq D /\ \A r : RowsOf(tokens, r.lang, r.tag, r.symbols) \subseteq D
  BY Zenon DEF NodeRows, RowsOf
<1>4. pairs \subseteq D \X D /\ turned \subseteq D \X D
  <2>1. /\ pairs \subseteq nodes \X RowsOf(tokens, q.lang, q.tag, q.symbols)
        /\ turned \subseteq words \X RowsOf(tokens, Turned(q).lang, Turned(q).tag, Turned(q).symbols)
    BY <1>3, ContextPairsFinite, Zenon
  <2>2. /\ RowsOf(tokens, q.lang, q.tag, q.symbols) \subseteq D
        /\ RowsOf(tokens, Turned(q).lang, Turned(q).tag, Turned(q).symbols) \subseteq D
    BY <1>3, Zenon
  <2> DEFINE R1 == RowsOf(tokens, q.lang, q.tag, q.symbols)
             R2 == RowsOf(tokens, Turned(q).lang, Turned(q).tag, Turned(q).symbols)
  <2> HIDE DEF D, nodes, words, pairs, turned, R1, R2
  <2>3. nodes \X R1 \subseteq D \X D /\ words \X R2 \subseteq D \X D  BY <1>3, <2>2 DEF R1, R2
  <2> QED BY <2>1, <2>3, Zenon DEF R1, R2
<1>5. \A g \in D : /\ g \in nodes <=> PlainRow(tokens, q, g) /\ NormalAt(tokens, g) = Normal[t]
                   /\ g \in words <=> PlainRow(tokens, q, g) /\ NormalAt(tokens, g) = Normal[u]
  <2> SUFFICES ASSUME NEW g \in D
               PROVE  /\ g \in nodes <=> PlainRow(tokens, q, g) /\ NormalAt(tokens, g) = Normal[t]
                      /\ g \in words <=> PlainRow(tokens, q, g) /\ NormalAt(tokens, g) = Normal[u]
    BY Zenon
  <2>1. PlaceMeans(tokens, q.lang, Normal[t], g) /\ PlaceMeans(tokens, q.lang, Normal[u], g)
    BY <1>1, NodeOfOne, Zenon
  <2> QED BY <2>1, Zenon DEF PlainRow, PlaceMeans
<1>6. t \in DOMAIN Normal /\ t \notin Symbols /\ q.tag = ""  BY Zenon DEF OneWord
<1>7. \A g \in D : NormalAt(tokens, g) = Normal[t] \/ NormalAt(tokens, g) = Normal[u] =>
          (g \in RowsOf(tokens, q.lang, q.tag, q.symbols) <=> PlainRow(tokens, q, g))
  <2> SUFFICES ASSUME NEW g \in D, NormalAt(tokens, g) = Normal[t] \/ NormalAt(tokens, g) = Normal[u]
               PROVE  g \in RowsOf(tokens, q.lang, q.tag, q.symbols) <=> PlainRow(tokens, q, g)
    BY Zenon
  <2>1. q.symbols \/ ~Symbolic(tokens, g)  BY <1>6, SymbolsAlike, Zenon
  <2> QED BY <1>6, <2>1, Zenon DEF RowsOf, PlainRow
<1>8. \A g, h \in D : /\ InWindow(q, 1, g, h) <=> InWindow(Turned(q), 1, h, g)
                      /\ Turned(q).lang = q.lang /\ Turned(q).tag = q.tag /\ Turned(q).symbols = q.symbols
  <2> SUFFICES ASSUME NEW g \in D, NEW h \in D
               PROVE  /\ InWindow(q, 1, g, h) <=> InWindow(Turned(q), 1, h, g)
                      /\ Turned(q).lang = q.lang /\ Turned(q).tag = q.tag /\ Turned(q).symbols = q.symbols
    BY Zenon
  <2>1. g \in Nat /\ h \in Nat  BY <1>1
  <2> QED BY <2>1, WindowTurns, Zenon
<1>9. \A g, h \in D : <<g, h>> \in S <=> <<h, g>> \in T
  <2> SUFFICES ASSUME NEW g \in D, NEW h \in D PROVE <<g, h>> \in S <=> <<h, g>> \in T
    BY Zenon
  <2>1. <<g, h>> \in S <=> <<g, h>> \in pairs /\ NormalAt(tokens, h) = Normal[u]
    <3> HIDE DEF pairs
    <3> QED OBVIOUS
  <2>2. <<h, g>> \in T <=> <<h, g>> \in turned /\ NormalAt(tokens, g) = Normal[t]
    <3> HIDE DEF turned
    <3> QED OBVIOUS
  <2>3. <<g, h>> \in pairs <=> /\ g \in nodes /\ h \in RowsOf(tokens, q.lang, q.tag, q.symbols)
                               /\ Same(g, h) /\ InWindow(q, 1, g, h)
    <3> HIDE DEF nodes
    <3> QED BY PairIsNear, Zenon DEF NearMeans
  <2>4. <<h, g>> \in turned <=> /\ h \in words /\ g \in RowsOf(tokens, Turned(q).lang, Turned(q).tag, Turned(q).symbols)
                                /\ Same(h, g) /\ InWindow(Turned(q), 1, h, g)
    <3> HIDE DEF words
    <3> QED BY PairIsNear, Zenon DEF NearMeans
  <2>5. <<h, g>> \in turned <=> /\ h \in words /\ g \in RowsOf(tokens, q.lang, q.tag, q.symbols)
                                /\ Same(h, g) /\ InWindow(q, 1, g, h)
    BY <2>4, <1>8, Zenon
  <2>6. Same(g, h) <=> Same(h, g)  BY Zenon
  <2> HIDE DEF S, T, pairs, turned, nodes, words, Same
  <2> QED BY <2>1, <2>2, <2>3, <2>5, <2>6, <1>5, <1>7, Zenon
<1>10. S \subseteq D \X D /\ T \subseteq D \X D
  <2> HIDE DEF pairs, turned, D
  <2> QED BY <1>4
<1> HIDE DEF S, T, D, pairs, turned
<1>11. Swapped(S, T, D)  BY <1>9, <1>10, Zenon DEF Swapped
<1> QED BY <1>2, <1>11, Zenon DEF S, T, D, turned, pairs

-----------------------------------------------------------------------------
(* Collocation is symmetric *)

\* What stands left of the one stands right of the other.
LEMMA SwappedSides ==
    ASSUME NEW S, NEW T, NEW D, D \subseteq Nat, Swapped(S, T, D)
    PROVE  /\ Swapped({p \in S : p[2] < p[1]}, {p \in T : p[1] < p[2]}, D)
           /\ Swapped({p \in S : p[2] > p[1]}, {p \in T : p[1] > p[2]}, D)
<1> DEFINE SL == {p \in S : p[2] < p[1]}
           TL == {p \in T : p[1] < p[2]}
           SR == {p \in S : p[2] > p[1]}
           TR == {p \in T : p[1] > p[2]}
<1>1. /\ S \subseteq D \X D /\ T \subseteq D \X D
      /\ \A g, h \in D : <<g, h>> \in S <=> <<h, g>> \in T
  BY Zenon DEF Swapped
<1>2. \A g, h \in D : /\ <<g, h>> \in SL <=> <<g, h>> \in S /\ h < g
                      /\ <<h, g>> \in TL <=> <<h, g>> \in T /\ h < g
                      /\ <<g, h>> \in SR <=> <<g, h>> \in S /\ h > g
                      /\ <<h, g>> \in TR <=> <<h, g>> \in T /\ h > g
  OBVIOUS
<1> HIDE DEF SL, TL, SR, TR
<1> QED BY <1>1, <1>2, Zenon DEF SL, TL, SR, TR, Swapped

\* The pairs of the mirrored query: a node near a word s, seen from s.
MirrorPairs(tokens, q, s) ==
    LET nodes == NodeRows(tokens, q.lang, <<s>>)
        mirrored == ContextPairs(tokens, nodes, 1, [q EXCEPT !.leftSpan = q.rightSpan, !.rightSpan = q.leftSpan])
    IN  {p \in mirrored : NormalAt(tokens, p[2]) = Folded(q.terms)[1]}

\* An entry that is mirrored.
MirrorsEntry(tokens, q, e) ==
    LET back == MirrorPairs(tokens, q, e.key) IN
    /\ \A c \in 1..4 : e.cells[c] >= 0
    /\ e.left + e.right = e.frequency
    /\ Len(q.terms) = 1 /\ q.tag = "" /\ q.terms[1] \notin Symbols /\ q.terms[1] \notin DOMAIN Compound =>
            /\ Cardinality({p \in back : p[1] < p[2]}) = e.left
            /\ Cardinality({p \in back : p[1] > p[2]}) = e.right

\* The pairs of the words that are near the nodes of a query.
LEMMA NearPairsApart ==
    ASSUME NEW tokens, Tokens(tokens), NEW q, CollocateQuery(q), ~QueryFails(q), NEW s
    PROVE  /\ IsFiniteSet(NearPairs(tokens, CollocatePairs(tokens, q), s))
           /\ \A p \in NearPairs(tokens, CollocatePairs(tokens, q), s) : p[1] \in Int /\ p[2] \in Int /\ p[1] # p[2]
<1> DEFINE pairs == CollocatePairs(tokens, q)
           terms == NodeTerms(tokens, q)
           nodes == NodeRows(tokens, q.lang, terms)
           near == NearPairs(tokens, pairs, s)
<1>1. nodes \subseteq DOMAIN tokens  BY Zenon DEF NodeRows
<1>2. pairs = ContextPairs(tokens, nodes, Len(terms), q)  BY Zenon DEF CollocatePairs
<1>3. Len(terms) \in Nat \ {0}  BY NodeHasTerms, Zenon
<1>4. near \in SUBSET pairs  BY Zenon DEF NearPairs
<1> HIDE DEF near, pairs, nodes, terms
<1>5. \A p \in pairs : p[1] \in Int /\ p[2] \in Int /\ p[1] # p[2]
  <2> SUFFICES ASSUME NEW p \in ContextPairs(tokens, nodes, Len(terms), q)
               PROVE  p[1] \in Int /\ p[2] \in Int /\ p[1] # p[2]
    BY <1>2, Zenon
  <2> QED BY <1>1, <1>3, NearIsApart, Zenon
<1> QED BY <1>4, <1>1, <1>2, ContextPairsFinite, FS_Subset, <1>5, Zenon DEF near, pairs

\* The word of an entry is punctuation only where punctuation is counted.
LEMMA EntryWord ==
    ASSUME NEW tokens, Tokens(tokens), NEW q, NEW e, WordEntry(tokens, q, e)
    PROVE  \E u \in DOMAIN Normal : e.key = Normal[u] /\ (q.symbols \/ u \notin Symbols)
<1>1. PICK p \in CollocatePairs(tokens, q) :
          /\ e.key = NormalAt(tokens, p[2])
          /\ p \in NodeRows(tokens, q.lang, NodeTerms(tokens, q)) \X RowsOf(tokens, q.lang, q.tag, q.symbols)
  BY Zenon DEF WordEntry
<1>2. p[2] \in RowsOf(tokens, q.lang, q.tag, q.symbols)  BY <1>1
<1>3. p[2] \in DOMAIN tokens /\ (q.symbols \/ ~Symbolic(tokens, p[2]))  BY <1>2, Zenon DEF RowsOf
<1>4. tokens[p[2]].word \in WordRecords  BY <1>3, StreamsIncrease, Zenon
<1>5. tokens[p[2]].word.text \in DOMAIN Normal  BY <1>4 DEF WordRecords
<1> QED BY <1>1, <1>3, <1>5, Zenon DEF NormalAt, Symbolic

\* Every entry of a query of collocates is mirrored.
LEMMA EntryMirrors ==
    ASSUME NEW tokens, Tokens(tokens), NEW q, CollocateQuery(q), ~QueryFails(q), NEW e, WordEntry(tokens, q, e)
    PROVE  MirrorsEntry(tokens, q, e)
<1> DEFINE pairs == CollocatePairs(tokens, q)
           near == NearPairs(tokens, pairs, e.key)
           back == MirrorPairs(tokens, q, e.key)
           t == q.terms[1]
<1>1. EntryCounts(e) /\ e = CollocateEntry(tokens, q, pairs, e.key)  BY Zenon DEF WordEntry
<1>2. EntryShares(e, near)  BY EntrySharesPairs, <1>1, Zenon
<1>3. IsFiniteSet(near) /\ \A p \in near : p[1] \in Int /\ p[2] \in Int /\ p[1] # p[2]
  BY NearPairsApart, Zenon
<1>4. \A c \in 1..4 : e.cells[c] >= 0
  <2>1. \A c \in 1..4 : e.cells[c] \in Nat  BY <1>1, Zenon DEF EntryCounts
  <2> QED BY <2>1
<1>5. e.left + e.right = e.frequency
  <2> HIDE DEF near
  <2> QED BY <1>2, <1>3, SharesAddUp, Zenon
<1>6. ASSUME Len(q.terms) = 1, q.tag = "", t \notin Symbols, t \notin DOMAIN Compound
      PROVE  /\ Cardinality({p \in back : p[1] < p[2]}) = e.left
             /\ Cardinality({p \in back : p[1] > p[2]}) = e.right
  <2>1. q.terms = <<t>> /\ t \in DOMAIN Normal
    <3>1. q.terms \in Seq(ToSet(q.terms)) /\ ToSet(q.terms) \subseteq DOMAIN Normal
      BY Zenon DEF CollocateQuery, IsList
    <3> DEFINE X == ToSet(q.terms)
               s == q.terms
    <3>2. s \in Seq(X) /\ Len(s) = 1  BY <3>1, <1>6, Zenon
    <3> HIDE DEF X, s
    <3>3. s = <<s[1]>> /\ s[1] \in X  BY <3>2
    <3> QED BY <3>1, <3>3, Zenon DEF X, s
  <2>2. OneWord(q, t)  BY <2>1, <1>6, Zenon DEF OneWord
  <2>3. PICK u \in DOMAIN Normal : e.key = Normal[u] /\ (q.symbols \/ u \notin Symbols)  BY EntryWord, Zenon
  <2> DEFINE S == {p \in pairs : NormalAt(tokens, p[2]) = Normal[u]}
             T == {p \in ContextPairs(tokens, NodeRows(tokens, q.lang, <<Normal[u]>>), 1, Turned(q)) :
                      NormalAt(tokens, p[2]) = Normal[t]}
  <2>4. Swapped(S, T, DOMAIN tokens)  BY <2>2, <2>3, NearTurns, Zenon
  <2>5. S = near  BY <2>3, Zenon DEF NearPairs
  <2>6. T = back  BY <2>2, NodeOfOneWord, <2>3, Zenon DEF MirrorPairs, Turned
  <2> HIDE DEF S, T, near, back
  <2>7. DOMAIN tokens \subseteq Nat
    <3>1. PICK n \in Nat : DOMAIN tokens = 1..n  BY Zenon DEF Tokens
    <3> QED BY <3>1
  <2> DEFINE SL == {p \in near : p[2] < p[1]}
             TL == {p \in back : p[1] < p[2]}
             SR == {p \in near : p[2] > p[1]}
             TR == {p \in back : p[1] > p[2]}
  <2>8. Swapped(SL, TL, DOMAIN tokens) /\ Swapped(SR, TR, DOMAIN tokens)
    BY <2>7, <2>4, <2>5, <2>6, SwappedSides, Zenon
  <2>9. e.left = Cardinality(SL) /\ e.right = Cardinality(SR)  BY <1>2, Zenon DEF EntryShares
  <2>10. SL \in SUBSET near /\ SR \in SUBSET near  BY Zenon
  <2> HIDE DEF SL, TL, SR, TR
  <2>11. Cardinality(SL) = Cardinality(TL) /\ Cardinality(SR) = Cardinality(TR)
    BY <2>8, <1>3, <2>10, FS_Subset, SwappedAlike, Zenon
  <2> QED BY <2>9, <2>11, Zenon DEF TL, TR
<1> HIDE DEF back
<1> QED BY <1>4, <1>5, <1>6, Zenon DEF MirrorsEntry, back

\* The page of collocates shows mirrored entries.
LEMMA ShownMirror ==
    ASSUME PagesInvariant
    PROVE  CollocatesMirror
<1> SUFFICES ASSUME Shows("collocates") PROVE CollocatesMirror
  BY Zenon DEF CollocatesMirror
<1> DEFINE q == visit.query
           tokens == visit.corpus.index.tokens
           rows == visit.answer.rows
<1>1. visit.view = "collocates" /\ ~IsError(visit.answer)  BY Zenon DEF Shows
<1>2. visit # NoVisit
  <2>1. NoVisit.view # "collocates"  BY DEF NoVisit
  <2> QED BY <1>1, <2>1, Zenon
<1>3. ShownPage(visit)  BY <1>2, Zenon DEF PagesInvariant
<1>4. PICK c \in Corpora : visit.corpus = Artifacts(c)  BY <1>3, Zenon DEF ShownPage
<1>5. Tokens(tokens)  BY <1>4, ArtifactsFields, Zenon
<1>6. CollocateQuery(q) /\ visit.answer = Collocates(visit.corpus.index, q) /\ q.page >= 1
  BY <1>1, <1>3, Zenon DEF ShownPage
<1>7. ~QueryFails(q) /\ \A i \in DOMAIN rows : rows[i] \in CollocateEntries(tokens, q)
  BY <1>5, <1>6, <1>1, EntriesListed, Zenon
<1> HIDE DEF q, tokens, rows
<1>8. \A i \in DOMAIN rows : MirrorsEntry(tokens, q, rows[i])
  <2> TAKE i \in DOMAIN rows
  <2> QED BY <1>5, <1>6, <1>7, EntriesOfWords, EntryMirrors, Zenon
<1> QED BY <1>8, Zenon DEF CollocatesMirror, MirrorsEntry, MirrorPairs, q, tokens, rows

\* Collocation is always symmetric: a word stands left of the node as often
\* as the node stands right of it, what stands on both sides adds up to the
\* frequency, and no cell of a contingency table is negative (collocates).
THEOREM CollocatesAlwaysMirror == Spec => []CollocatesMirror
<1>1. PagesInvariant => CollocatesMirror  BY ShownMirror, Zenon
<1> QED BY <1>1, PagesAreInvariant, PTL

-----------------------------------------------------------------------------
(* Marking spans in a text *)

\* Spans that were marked do not overlap.
Apart(s) == \A i \in 2..Len(s) : s[i - 1].to <= s[i].from

\* A marked span covers the place where a span begins.
Covers(s, x) == \E i \in 1..Len(s) : s[i].from <= x.from /\ x.from < s[i].to

\* Spans of more than no characters.
TextSpans(spans) == Spans(spans) /\ \A s \in spans : s.from < s.to

\* What has been marked after k of the spans.
MarkedSoFar(d, ordered, k) ==
    /\ Apart(d)
    /\ d # <<>> => \E j \in 1..k : d[Len(d)] = ordered[j]
    /\ \A j \in 1..k : Covers(d, ordered[j])

\* Marking one more span keeps the marked ones apart, and all places covered.
LEMMA MarkOneMore ==
    ASSUME NEW S, NEW n \in Nat, NEW ordered \in [1..n -> S], \A x \in S : x.from \in Int /\ x.to \in Int /\ x.from < x.to,
           \A i, j \in 1..n : i < j => ordered[i].from <= ordered[j].from,
           NEW k \in 1..n, NEW d \in Seq(S), MarkedSoFar(d, ordered, k - 1)
    PROVE  MarkedSoFar(MarkNext(d, ordered[k]), ordered, k)
<1> DEFINE x == ordered[k]
           m == Len(d)
           l == d[m]
<1>1. /\ Apart(d)
      /\ d # <<>> => \E j \in 1..(k - 1) : l = ordered[j]
      /\ \A j \in 1..(k - 1) : Covers(d, ordered[j])
  BY Zenon DEF MarkedSoFar
<1>2. m \in Nat /\ (d # <<>> => m # 0) /\ Last(d) = l /\ x \in S  BY EmptySeq, LenProperties DEF Last
<1>3. \A j \in 1..(k - 1) : j \in 1..k /\ j \in 1..n /\ j < k  OBVIOUS
<1>4. k \in 1..k  OBVIOUS
<1>4a. \A j \in 1..k : j = k \/ j \in 1..(k - 1)  OBVIOUS
<1>5. CASE d # <<>> /\ x.from < l.to
  <2>1. PICK j \in 1..(k - 1) : l = ordered[j]  BY <1>1, <1>5, Zenon
  <2>2. m \in 1..m  BY <1>2, <1>5
  <2>3. \A i \in 1..k : Covers(d, ordered[i])  BY <1>1, <1>4a, <1>5, <1>3, <2>1, <2>2, Zenon DEF Covers
  <2> HIDE DEF x, l
  <2> QED BY <1>2, <1>5, <1>1, <1>3, <2>1, <2>3, Zenon DEF x, MarkNext, MarkedSoFar, l, m
<1>6. CASE ~(d # <<>> /\ x.from < l.to)
  <2> DEFINE e == Append(d, x)
  <2>1. MarkNext(d, x) = e  BY <1>2, <1>6, Zenon DEF MarkNext
  <2>2. Len(e) = m + 1 /\ e[m + 1] = x /\ \A i \in 1..m : e[i] = d[i]
    <3> HIDE DEF x
    <3> QED BY <1>2
  <2>3. e # <<>>
    <3> HIDE DEF e
    <3> QED BY <1>2, <2>2, EmptySeq
  <2>4. \A i \in 1..m : d[i] \in S  BY ElementOfSeq, Zenon
  <2> HIDE DEF e
  <2>5. Apart(e)
    <3> SUFFICES ASSUME NEW i \in 2..Len(e) PROVE e[i - 1].to <= e[i].from
      BY Zenon DEF Apart
    <3>1. CASE i <= m
      <4>1. i \in 2..m /\ i \in 1..m /\ i - 1 \in 1..m  BY <1>2, <2>2, <3>1
      <4> QED BY <2>2, <4>1, <1>1, Zenon DEF Apart, m
    <3>2. CASE ~(i <= m)
      <4>1. i = m + 1 /\ i - 1 = m /\ m \in 1..m  BY <1>2, <2>2, <3>2
      <4>2. d # <<>>
        <5> SUFFICES ASSUME d = <<>> PROVE FALSE
          BY Zenon
        <5> QED BY <4>1, EmptySeq
      <4> DEFINE a == x.from
                 b == l.to
      <4>3. a \in Int /\ b \in Int /\ ~(a < b)  BY <1>2, <1>6, <4>2, <2>4, <4>1, Zenon
      <4> HIDE DEF a, b
      <4>4. b <= a  BY <4>3
      <4> QED BY <4>4, <2>2, <4>1, Zenon DEF a, b
    <3> QED BY <3>1, <3>2, Zenon
  <2>6. \A i \in 1..m : i \in 1..Len(e)  BY <1>2, <2>2
  <2>7. m + 1 \in 1..Len(e)  BY <1>2, <2>2
  <2>8. Covers(e, x)
    <3> DEFINE a == x.from
    <3>1. a \in Int /\ a < x.to  BY <1>2, Zenon
    <3> HIDE DEF a
    <3>2. a <= a  BY <3>1
    <3> QED BY <2>2, <2>7, <3>1, <3>2, Zenon DEF Covers, a
  <2>9. \A j \in 1..k : Covers(e, ordered[j])  BY <1>4a, <2>8, <1>1, <2>2, <2>6, Zenon DEF Covers, m
  <2> QED BY <2>1, <1>4, <2>3, <2>5, <2>2, <2>9, Zenon DEF x, MarkedSoFar
<1> QED BY <1>5, <1>6, Zenon

\* Marked spans do not overlap, and cover the beginning of every span.
LEMMA MarkedCover ==
    ASSUME NEW spans, TextSpans(spans)
    PROVE  /\ Marked(spans) \in Seq(spans) /\ Apart(Marked(spans))
           /\ \A s \in spans : Covers(Marked(spans), s)
<1> DEFINE n == Cardinality(spans)
           ordered == InText(spans)
           key == Ends(spans)
<1>1. Spans(spans) /\ \A s \in spans : s.from \in Int /\ s.to \in Int /\ s.from < s.to
  BY Zenon DEF TextSpans, Spans
<1>2. IsFiniteSet(spans) /\ n \in Nat  BY <1>1, FS_CardinalityType, Zenon DEF Spans
<1>3. /\ ordered \in [1..n -> spans]
      /\ \A s \in spans : \E i \in 1..n : ordered[i] = s
      /\ \A i, j \in 1..n : i < j => ordered[i] \in BeforeByKey(spans, key)[ordered[j]]
  BY <1>1, SpansInOrder, Zenon DEF Enumerates
<1> HIDE DEF ordered, n
<1>4. \A i, j \in 1..n : i < j => ordered[i].from <= ordered[j].from
  <2> SUFFICES ASSUME NEW i \in 1..n, NEW j \in 1..n, i < j PROVE ordered[i].from <= ordered[j].from
    BY Zenon
  <2> DEFINE x == ordered[i]
             y == ordered[j]
  <2>1. x \in spans /\ y \in spans /\ x \in BeforeByKey(spans, key)[y]  BY <1>3, Zenon
  <2> DEFINE a == x.from
             b == x.to
             c == y.from
             d == y.to
  <2>2. a \in Int /\ b \in Int /\ c \in Int /\ d \in Int  BY <1>1, <2>1, Zenon
  <2>3. SeqLess(<<a, b>>, <<c, d>>)  BY <2>1, Zenon DEF BeforeByKey, Ends
  <2> HIDE DEF a, b, c, d, key
  <2>4. a <= c  BY <2>2, <2>3, PairLess
  <2> QED BY <2>4, Zenon DEF a, c
<1>5. PICK h \in [0..n -> Seq(spans)] : MarksInSteps(h, spans)
  BY <1>2, <1>3, MarkedSteps, Zenon DEF n, ordered
<1>6. h[0] = <<>> /\ h[n] = Marked(spans) /\ \A k \in 1..n : h[k] = MarkNext(h[k - 1], ordered[k])
  BY <1>5, Zenon DEF MarksInSteps, n, ordered
<1> DEFINE Good(k) == MarkedSoFar(h[k], ordered, k)
           T == {k \in 0..n : ~Good(k)}
<1>7. T = {}
  <2> SUFFICES ASSUME T # {} PROVE FALSE
    BY Zenon
  <2>1. T \subseteq Nat  BY <1>2
  <2>2. PICK k \in T : \A j \in T : k <= j
    <3> HIDE DEF T
    <3> QED BY <2>1, LeastNumber, Zenon
  <2>3. k \in 0..n /\ ~Good(k)  BY Zenon
  <2>4. CASE k = 0
    <3>1. \A j \in 1..0 : FALSE  OBVIOUS
    <3>2. Apart(<<>>)  BY DEF Apart
    <3> QED BY <1>6, <2>3, <2>4, <3>1, <3>2, Zenon DEF MarkedSoFar
  <2>5. CASE k # 0
    <3>1. k \in 1..n /\ k - 1 \in 0..n /\ ~(k <= k - 1)
      <4>1. k \in 0..n  BY <2>3, Zenon
      <4> HIDE DEF T, Good
      <4> QED BY <1>2, <2>5, <4>1
    <3>2. Good(k - 1)
      <4> HIDE DEF Good
      <4>1. k - 1 \notin T
        <5> HIDE DEF T
        <5> QED BY <2>2, <3>1, Zenon
      <4> QED BY <3>1, <4>1, Zenon
    <3>3. h[k - 1] \in Seq(spans)  BY <1>5, <3>1, Zenon
    <3>4. MarkedSoFar(MarkNext(h[k - 1], ordered[k]), ordered, k)
      <4> HIDE DEF T
      <4> QED BY <1>1, <1>2, <1>3, <1>4, <3>1, <3>2, <3>3, MarkOneMore, Zenon
    <3> QED BY <2>3, <1>6, <3>1, <3>4, Zenon
  <2> QED BY <2>4, <2>5, Zenon
<1>8. n \in 0..n  BY <1>2
<1>9. MarkedSoFar(h[n], ordered, n) /\ h[n] \in Seq(spans)  BY <1>5, <1>7, <1>8, Zenon
<1> QED BY <1>3, <1>6, <1>9, Zenon DEF MarkedSoFar

-----------------------------------------------------------------------------
(* Segments of a text *)

\* Segments from a to b, without gaps and overlaps.
Tiles(s, a, b) ==
    /\ s # <<>> /\ s[1].from = a /\ s[Len(s)].to = b
    /\ \A i \in 2..Len(s) : s[i].from = s[i - 1].to

\* A sequence has an element.
Holds(s, x) == \E i \in 1..Len(s) : s[i] = x

\* A sequence that is not empty has a first and a last element.
LEMMA FirstAndLast ==
    ASSUME NEW X, NEW s \in Seq(X), s # <<>>
    PROVE  Len(s) \in Nat \ {0} /\ 1 \in 1..Len(s) /\ Len(s) \in 1..Len(s) /\ DOMAIN s = 1..Len(s)
  BY EmptySeq, LenProperties

\* One segment.
LEMMA OneTile ==
    ASSUME NEW x
    PROVE  Tiles(<<x>>, x.from, x.to) /\ Holds(<<x>>, x)
<1> DEFINE s == <<x>>
<1>1. Len(s) = 1 /\ s[1] = x /\ s # <<>>  OBVIOUS
<1> HIDE DEF s
<1>2. \A i \in 2..Len(s) : FALSE  BY <1>1
<1>3. 1 \in 1..Len(s)  BY <1>1
<1> QED BY <1>1, <1>2, <1>3, Zenon DEF Tiles, Holds, s

\* What lies behind each other without a gap does so when it is joined.
LEMMA JoinedTiles ==
    ASSUME NEW X, NEW s \in Seq(X), NEW t \in Seq(X), NEW a, NEW b, NEW c, Tiles(s, a, b), Tiles(t, b, c)
    PROVE  /\ Tiles(s \o t, a, c) /\ s \o t \in Seq(X)
           /\ \A x : Holds(s, x) \/ Holds(t, x) => Holds(s \o t, x)
<1> DEFINE u == s \o t
           k == Len(s)
           n == Len(t)
<1>1. k \in Nat \ {0} /\ n \in Nat \ {0}  BY FirstAndLast, Zenon DEF Tiles
<1>2. Len(u) = k + n /\ u \in Seq(X) /\ \A i \in 1..(k + n) : u[i] = IF i <= k THEN s[i] ELSE t[i - k]
  BY ConcatProperties, Zenon
<1>3. /\ s[1].from = a /\ s[k].to = b /\ \A i \in 2..k : s[i].from = s[i - 1].to
      /\ t[1].from = b /\ t[n].to = c /\ \A i \in 2..n : t[i].from = t[i - 1].to
  BY Zenon DEF Tiles
<1> HIDE DEF u, k, n
<1>4. /\ \A i \in 1..k : i \in 1..Len(u) /\ u[i] = s[i]
      /\ \A i \in 1..n : k + i \in 1..Len(u) /\ u[k + i] = t[i]
  <2>1. \A i \in 1..k : i \in 1..(k + n) /\ i <= k  BY <1>1
  <2>2. \A i \in 1..n : k + i \in 1..(k + n) /\ ~(k + i <= k) /\ k + i - k = i  BY <1>1
  <2>3. \A i \in 1..n : u[k + i] = t[i]
    <3> TAKE i \in 1..n
    <3> DEFINE j == k + i
    <3>1. j \in 1..(k + n) /\ ~(j <= k) /\ j - k = i  BY <1>1
    <3> HIDE DEF j
    <3> QED BY <1>2, <3>1, Zenon DEF j
  <2> QED BY <1>2, <2>1, <2>2, <2>3, Zenon
<1>5. Tiles(u, a, c)
  <2>1. u # <<>>  BY <1>1, <1>2, EmptySeq
  <2>2. u[1].from = a /\ u[Len(u)].to = c
    <3>1. 1 \in 1..k /\ n \in 1..n /\ Len(u) = k + n  BY <1>1, <1>2
    <3> QED BY <1>3, <1>4, <3>1, Zenon
  <2>3. ASSUME NEW i \in 2..Len(u) PROVE u[i].from = u[i - 1].to
    <3>1. CASE i <= k
      <4>1. i \in 2..k /\ i \in 1..k /\ i - 1 \in 1..k  BY <1>1, <3>1
      <4> QED BY <1>3, <1>4, <4>1, Zenon
    <3>2. CASE i = k + 1
      <4>1. 1 \in 1..n /\ k \in 1..k /\ i - 1 = k  BY <1>1, <3>2
      <4> QED BY <1>3, <1>4, <3>2, <4>1, Zenon
    <3>3. CASE i > k + 1
      <4> DEFINE j == i - k
      <4>1. j \in 2..n /\ j \in 1..n /\ j - 1 \in 1..n /\ k + j = i /\ k + (j - 1) = i - 1  BY <1>1, <1>2, <3>3
      <4> HIDE DEF j
      <4>2. u[i] = t[j] /\ u[i - 1] = t[j - 1]  BY <1>4, <4>1, Zenon
      <4> QED BY <1>3, <4>1, <4>2, Zenon
    <3>4. i <= k \/ i = k + 1 \/ i > k + 1  BY <1>1, <1>2
    <3> QED BY <3>1, <3>2, <3>3, <3>4, Zenon
  <2> QED BY <2>1, <2>2, <2>3, Zenon DEF Tiles
<1>6. ASSUME NEW x, Holds(s, x) \/ Holds(t, x) PROVE Holds(u, x)  BY <1>4, <1>6, Zenon DEF Holds, k, n
<1> QED BY <1>2, <1>5, <1>6, Zenon DEF u

\* Pieces that follow each other, each with an element of its own.
PieceByPiece(n, seqs, at, own) ==
    /\ \A p \in 1..n : Holds(seqs[p], own[p])
    /\ \A p \in 1..n : Tiles(seqs[p], IF p = 1 THEN 0 ELSE at[p - 1], at[p])

\* Joined they follow each other.
LEMMA PiecesJoined ==
    ASSUME NEW X, NEW n \in Nat \ {0}, NEW seqs \in [1..n -> Seq(X)], NEW at, NEW own, PieceByPiece(n, seqs, at, own)
    PROVE  Tiles(FlattenSeq(seqs), 0, at[n]) /\ \A p \in 1..n : Holds(FlattenSeq(seqs), own[p])
<1>0. Len(seqs) = n  BY LenOfFunction
<1>1. /\ \A p \in 1..n : Holds(seqs[p], own[p])
      /\ \A p \in 1..n : Tiles(seqs[p], IF p = 1 THEN 0 ELSE at[p - 1], at[p])
  BY Zenon DEF PieceByPiece
<1>2. PICK g \in [1..n -> Seq(X)] : Flattens(g, seqs)  BY FlattenFunction, Zenon
<1>3. \A i \in 1..n : g[i] = IF i = 1 THEN seqs[i] ELSE g[i - 1] \o seqs[i]  BY <1>2, <1>0, Zenon DEF Flattens
<1> DEFINE Good(k) == Tiles(g[k], 0, at[k]) /\ \A p \in 1..k : Holds(g[k], own[p])
           T == {k \in 1..n : ~Good(k)}
<1>4. T = {}
  <2> SUFFICES ASSUME T # {} PROVE FALSE
    OBVIOUS
  <2>1. PICK k \in T : \A j \in T : k <= j
    <3>1. T \subseteq Nat  OBVIOUS
    <3> HIDE DEF T
    <3> QED BY <3>1, LeastNumber, Zenon
  <2>2. k \in 1..n /\ ~Good(k)  BY Zenon
  <2>3. CASE k = 1
    <3>1. \A p \in 1..k : p = k  BY <2>3
    <3> HIDE DEF T
    <3> QED BY <1>1, <2>2, <1>3, <2>3, <3>1, Zenon
  <2>4. CASE k # 1
    <3>1. k - 1 \in 1..n /\ ~(k <= k - 1)
      <4> HIDE DEF T, Good
      <4> QED BY <2>4, <2>2
    <3>2. Good(k - 1)
      <4>1. k - 1 \notin T
        <5> HIDE DEF T
        <5> QED BY <2>1, <3>1, Zenon
      <4> HIDE DEF Good
      <4> QED BY <3>1, <4>1, Zenon
    <3> DEFINE s == g[k - 1]
               t == seqs[k]
               a == at[k - 1]
               b == at[k]
    <3>3. s \in Seq(X) /\ t \in Seq(X)  BY <1>2, <2>2, <3>1, Zenon
    <3>4. Tiles(s, 0, a) /\ Tiles(t, a, b)  BY <1>1, <2>2, <2>4, <3>2, Zenon
    <3>5. g[k] = s \o t  BY <1>3, <2>2, <2>4, Zenon
    <3>6. \A p \in 1..k : p = k \/ p \in 1..(k - 1)
      <4> HIDE DEF T, Good
      <4> QED BY <2>2
    <3>7. (\A p \in 1..(k - 1) : Holds(s, own[p])) /\ Holds(t, own[k])  BY <1>1, <2>2, <3>2, Zenon
    <3> HIDE DEF s, t, a, b, T
    <3>8. /\ Tiles(s \o t, 0, b)
          /\ \A x : Holds(s, x) \/ Holds(t, x) => Holds(s \o t, x)
      BY <3>3, <3>4, JoinedTiles, Zenon
    <3>9. Good(k)  BY <3>5, <3>8, <3>6, <3>7, Zenon DEF b
    <3> HIDE DEF Good
    <3> QED BY <2>2, <3>9, Zenon
  <2> QED BY <2>3, <2>4, Zenon
<1>5. n \in 1..n  OBVIOUS
<1>6. Good(n)
  <2> HIDE DEF Good
  <2> QED BY <1>4, <1>5, Zenon
<1> HIDE DEF T
<1> QED BY <1>6, <1>0, <1>2, FlattenIs, Zenon

\* A segment that highlights a span.
HitOf(x) == [from |-> x.from, to |-> x.to, row |-> x.row, hit |-> TRUE]

\* A sequence of two elements.
IsPair(s, b, h) == Len(s) = 2 /\ s[1] = b /\ s[2] = h

\* What is put behind one element, and behind none.
LEMMA BehindOne ==
    ASSUME NEW b, NEW h
    PROVE  Append(<<>>, h) = <<h>> /\ IsPair(Append(<<b>>, h), b, h)
<1> DEFINE S == {b, h}
           g == <<b>>
           s == Append(g, h)
<1>1. b \in S /\ h \in S  OBVIOUS
<1> HIDE DEF S
<1>2a. g \in Seq(S)  BY <1>1
<1>2. Len(g) = 1 /\ g[1] = b  BY <1>1
<1> HIDE DEF g
<1>3. Len(s) = 2 /\ s[1] = b /\ s[2] = h
  <2> DEFINE m == Len(g)
  <2>1. Len(s) = m + 1 /\ s[m + 1] = h /\ \A i \in 1..m : s[i] = g[i]  BY <1>1, <1>2a
  <2>2. m = 1  BY <1>2
  <2> HIDE DEF m, s
  <2>3. m + 1 = 2 /\ 1 \in 1..m  BY <2>2
  <2> QED BY <1>2, <2>1, <2>3, Zenon
<1> DEFINE e == <<>>
           t == Append(e, h)
           u == <<h>>
<1>4a. e \in Seq(S) /\ Len(e) = 0  OBVIOUS
<1>4b. u \in Seq(S) /\ Len(u) = 1 /\ u[1] = h  BY <1>1
<1> HIDE DEF e, u
<1>4c. t \in Seq(S) /\ Len(t) = 1 /\ t[1] = h  BY <1>1, <1>4a
<1>4d. \A i \in 1..Len(t) : t[i] = u[i]
  <2>1. \A i \in 1..Len(t) : i = 1  BY <1>4c
  <2> QED BY <1>4b, <1>4c, <2>1, Zenon
<1> HIDE DEF t
<1>4. t = u  BY <1>4b, <1>4c, <1>4d, SeqEqual, Zenon
<1> QED BY <1>3, <1>4 DEF IsPair, s, g, t, u, e

\* The text in front of a span, if there is any, and the span.
LEMMA PieceTiles ==
    ASSUME NEW a \in Int, NEW x, x.from \in Int, a <= x.from,
           NEW gap, gap = IF x.from > a THEN <<[from |-> a, to |-> x.from, row |-> 0, hit |-> FALSE]>> ELSE <<>>
    PROVE  /\ Tiles(Append(gap, HitOf(x)), a, x.to) /\ Holds(Append(gap, HitOf(x)), HitOf(x))
           /\ \E Y : Append(gap, HitOf(x)) \in Seq(Y)
<1> DEFINE h == HitOf(x)
           b == [from |-> a, to |-> x.from, row |-> 0, hit |-> FALSE]
           s == Append(gap, h)
<1>1. h.from = x.from /\ h.to = x.to  BY DEF HitOf
<1>2. b.from = a /\ b.to = x.from  OBVIOUS
<1> HIDE DEF h, b
<1>3. \E Y : s \in Seq(Y)  BY BehindAtMostOne, Zenon
<1>4. CASE x.from > a
  <2>1. s = Append(<<b>>, h)  BY <1>4, Zenon DEF b
  <2>2. Len(s) = 2 /\ s[1] = b /\ s[2] = h
    <3>1. IsPair(Append(<<b>>, h), b, h)  BY BehindOne, Zenon
    <3> QED BY <2>1, <3>1, Zenon DEF IsPair
  <2> HIDE DEF s
  <2>3. \A i \in 2..Len(s) : i = 2 /\ i - 1 = 1  BY <2>2
  <2>4. \A i \in 2..Len(s) : s[i].from = s[i - 1].to  BY <2>3, <1>1, <1>2, <2>2, Zenon
  <2>5. 2 \in 1..Len(s)  BY <2>2
  <2>6. s # <<>>  BY <2>2
  <2> QED BY <1>1, <1>2, <1>3, <2>2, <2>4, <2>5, <2>6, Zenon DEF Tiles, Holds, s, h
<1>5. CASE ~(x.from > a)
  <2>1. a = x.from  BY <1>5
  <2> QED BY <1>1, <1>3, <1>5, BehindOne, <2>1, OneTile, Zenon DEF h
<1> QED BY <1>4, <1>5

\* Spans that a text has marked: within it, one behind the other.
MarkedIn(marked, n, length) ==
    /\ \A i \in 1..n : marked[i].from \in Nat /\ marked[i].to \in Nat /\ marked[i].to <= length
    /\ \A i \in 2..n : marked[i - 1].to <= marked[i].from

\* The text is cut into segments without gaps and overlaps, and every marked span is one of them (_segments).
LEMMA SegmentsTile ==
    ASSUME NEW S, NEW marked \in Seq(S), NEW length \in Nat \ {0}, MarkedIn(marked, Len(marked), length)
    PROVE  /\ Tiles(Segments(marked, length), 0, length)
           /\ \A i \in 1..Len(marked) : Holds(Segments(marked, length), HitOf(marked[i]))
           /\ \E Y : Segments(marked, length) \in Seq(Y)
<1> DEFINE n == Len(marked)
           Before(i) == IF i = 1 THEN 0 ELSE marked[i - 1].to
           Gap(i) == IF marked[i].from > Before(i) THEN <<[from |-> Before(i), to |-> marked[i].from, row |-> 0, hit |-> FALSE]>> ELSE <<>>
           Piece(i) == Append(Gap(i), HitOf(marked[i]))
           seqs == [i \in 1..n |-> Piece(i)]
           last == IF marked = <<>> THEN 0 ELSE Last(marked).to
           end == [from |-> last, to |-> length, row |-> 0, hit |-> FALSE]
           tail == IF last < length THEN <<end>> ELSE <<>>
           own == [i \in 1..n |-> HitOf(marked[i])]
           at == [i \in 1..n |-> marked[i].to]
<1>1. n \in Nat /\ DOMAIN marked = 1..n  BY LenProperties, Zenon
<1>2. Segments(marked, length) = FlattenSeq(seqs) \o tail
  <2>1. Segments(marked, length) = FlattenSeq([i \in DOMAIN marked |-> Piece(i)]) \o tail
    BY Zenon DEF Segments, HitOf
  <2> HIDE DEF tail, Piece
  <2> QED BY <1>1, <2>1, Zenon
<1>3. /\ \A i \in 1..n : marked[i].from \in Nat /\ marked[i].to \in Nat /\ marked[i].to <= length
      /\ \A i \in 2..n : marked[i - 1].to <= marked[i].from
  BY Zenon DEF MarkedIn
<1>4. \A i \in 1..n : /\ Tiles(Piece(i), Before(i), marked[i].to) /\ Holds(Piece(i), HitOf(marked[i]))
                      /\ \E Y : Piece(i) \in Seq(Y)
  <2> TAKE i \in 1..n
  <2> DEFINE x == marked[i]
             a == Before(i)
             gap == Gap(i)
  <2>1. a \in Int /\ x.from \in Int /\ a <= x.from
    <3>1. x.from \in Nat  BY <1>3, Zenon
    <3>2. CASE i = 1
      <4>1. a = 0  BY <3>2, Zenon
      <4> HIDE DEF a, x
      <4> QED BY <3>1, <4>1
    <3>3. CASE i # 1
      <4>1. i \in 2..n /\ i - 1 \in 1..n  BY <1>1, <3>3
      <4>2. a \in Nat /\ a <= x.from  BY <1>3, <4>1, <3>3, Zenon
      <4> HIDE DEF a, x
      <4> QED BY <3>1, <4>2
    <3> QED BY <3>2, <3>3
  <2> HIDE DEF a, x, gap
  <2> QED BY <2>1, PieceTiles, Zenon DEF a, x, gap
<1>5. \A i \in 1..n : seqs[i] = Piece(i) /\ own[i] = HitOf(marked[i]) /\ at[i] = marked[i].to  BY Zenon
<1>6. seqs = [i \in 1..n |-> seqs[i]]
  <2> HIDE DEF Piece
  <2> QED BY Zenon
<1>7. PICK Y : seqs \in [1..n -> Seq(Y)]
  <2> HIDE DEF seqs, Piece
  <2>1. \A i \in 1..n : \E Z : seqs[i] \in Seq(Z)  BY <1>4, <1>5, Zenon
  <2> QED BY <1>1, <1>6, <2>1, CommonElements, Zenon
<1> DEFINE X == Y \cup {end}
<1>8. seqs \in [1..n -> Seq(X)]
  <2>1. Y \subseteq X  BY Zenon
  <2> HIDE DEF X, seqs
  <2>2. \A i \in 1..n : seqs[i] \in Seq(X)
    <3> TAKE i \in 1..n
    <3> DEFINE s == seqs[i]
    <3> HIDE DEF s
    <3> QED BY <2>1, <1>7, SequenceOfMore, Zenon DEF s
  <2> QED BY <1>6, <2>2, Zenon
<1>9. end \in X  BY Zenon
<1>10. end.from = last /\ end.to = length  OBVIOUS
<1>11. PieceByPiece(n, seqs, at, own)
  <2>1. \A p \in 1..n : Before(p) = IF p = 1 THEN 0 ELSE at[p - 1]
    <3> TAKE p \in 1..n
    <3>1. CASE p = 1  BY <3>1, Zenon
    <3>2. CASE p # 1
      <4>1. p - 1 \in 1..n  BY <1>1, <3>2
      <4> QED BY <1>5, <3>2, <4>1, Zenon
    <3> QED BY <3>1, <3>2, Zenon
  <2> HIDE DEF seqs, own, at, Piece, Before
  <2>2. \A p \in 1..n : Tiles(seqs[p], IF p = 1 THEN 0 ELSE at[p - 1], at[p])
    <3> TAKE p \in 1..n
    <3> QED BY <2>1, <1>4, <1>5, Zenon
  <2> QED BY <1>4, <1>5, <2>2, Zenon DEF PieceByPiece
<1> HIDE DEF seqs, own, at, Piece, Before, X, end
<1> DEFINE all == FlattenSeq(seqs)
<1>12. all \in Seq(X)  BY <1>1, <1>8, FlattenTyped, Zenon
<1>13. tail \in Seq(X) /\ (tail # <<>> => Tiles(tail, last, length))
  <2>1. <<end>> \in Seq(X)  BY <1>9
  <2> QED BY <1>10, OneTile, <2>1, EmptySeq, Zenon
<1>14. CASE n = 0
  <2>1. marked = <<>>  BY <1>14, EmptySeq
  <2>2. last = 0  BY <2>1, Zenon
  <2>3. tail = <<end>>
    <3> HIDE DEF last
    <3> QED BY <2>2
  <2>4. all = <<>>  BY <1>6, <1>14 DEF FlattenSeq
  <2> HIDE DEF all, tail, last
  <2>5. all \o tail = tail  BY <1>13, <2>4
  <2>6. tail # <<>>  BY <2>3
  <2>7. \A i \in 1..n : FALSE  BY <1>14
  <2> QED BY <1>2, <1>13, <2>2, <2>5, <2>6, <2>7, Zenon DEF all
<1>15. CASE n # 0
  <2>1. n \in Nat \ {0} /\ n \in 1..n  BY <1>1, <1>15
  <2>2. Tiles(all, 0, at[n]) /\ \A p \in 1..n : Holds(all, own[p])  BY <1>8, <1>11, <2>1, PiecesJoined, Zenon
  <2>3. last = marked[n].to
    <3>1. marked # <<>>  BY <1>15
    <3> QED BY <3>1, Zenon DEF Last
  <2>4. at[n] = last /\ \A p \in 1..n : own[p] = HitOf(marked[p])  BY <1>5, <2>1, <2>3, Zenon
  <2>5. last \in Nat /\ last <= length  BY <1>3, <2>1, <2>3, Zenon
  <2>6. CASE last < length
    <3>1. tail = <<end>>  BY <2>6, Zenon
    <3>2. tail # <<>>  BY <3>1
    <3> HIDE DEF all, tail, last
    <3>3. /\ Tiles(all \o tail, 0, length) /\ all \o tail \in Seq(X)
          /\ \A x : Holds(all, x) \/ Holds(tail, x) => Holds(all \o tail, x)
      BY <1>12, <1>13, <2>2, <2>4, <3>2, JoinedTiles, Zenon
    <3> QED BY <1>2, <2>2, <2>4, <3>3, Zenon DEF all
  <2>7. CASE ~(last < length)
    <3>1. tail = <<>>  BY <2>7, Zenon
    <3> HIDE DEF all, tail, last
    <3>2. last = length  BY <2>5, <2>7
    <3>3. all \o tail = all  BY <1>12, <3>1
    <3> QED BY <1>2, <1>12, <2>2, <2>4, <3>2, <3>3, Zenon DEF all
  <2> QED BY <2>6, <2>7, Zenon
<1> QED BY <1>14, <1>15, Zenon

-----------------------------------------------------------------------------
(* Spans of the words of a text *)

\* The words of a stream are numbered from 1 to its length.
LEMMA StreamsWithin ==
    ASSUME NEW tokens, Tokens(tokens), NEW doc, NEW lang, NEW g \in StreamOf(tokens, doc, lang)
    PROVE  Cardinality(StreamOf(tokens, doc, lang)) \in Nat /\ tokens[g].stream \in 1..Cardinality(StreamOf(tokens, doc, lang))
<1> DEFINE stream == StreamOf(tokens, doc, lang)
           upTo == {h \in 1..g : tokens[h].word.doc = tokens[g].word.doc /\ tokens[h].word.lang = tokens[g].word.lang}
<1>1. g \in DOMAIN tokens /\ tokens[g].word.doc = doc /\ tokens[g].word.lang = lang  BY Zenon DEF StreamOf
<1>2. PICK n \in Nat :
          /\ DOMAIN tokens = 1..n
          /\ \A x \in 1..n :
              /\ tokens[x].word \in WordRecords
              /\ tokens[x].stream = Cardinality({h \in 1..x : /\ tokens[h].word.doc = tokens[x].word.doc
                                                              /\ tokens[h].word.lang = tokens[x].word.lang})
  BY Zenon DEF Tokens
<1>3. tokens[g].stream = Cardinality(upTo)  BY <1>1, <1>2, Zenon
<1>4. \A h \in 1..g : h \in DOMAIN tokens  BY <1>1, <1>2
<1>5. upTo \in SUBSET stream  BY <1>1, <1>4, Zenon DEF StreamOf
<1>6. IsFiniteSet(stream)  BY TokensFinite, Zenon DEF StreamOf
<1>7. tokens[g].stream \in Nat \ {0}  BY <1>1, StreamsIncrease, Zenon
<1> HIDE DEF stream, upTo
<1>8. Cardinality(upTo) <= Cardinality(stream)  BY <1>5, <1>6, FS_Subset, Zenon
<1>9. Cardinality(stream) \in Nat  BY <1>6, FS_CardinalityType, Zenon
<1>10. tokens[g].stream \in 1..Cardinality(stream)
  <2> DEFINE a == tokens[g].stream
             k == Cardinality(stream)
  <2>1. a \in Nat \ {0} /\ k \in Nat /\ a <= k  BY <1>3, <1>7, <1>8, <1>9, Zenon
  <2> HIDE DEF a, k
  <2>2. a \in 1..k  BY <2>1
  <2> QED BY <2>2, Zenon DEF a, k
<1> QED BY <1>9, <1>10, Zenon DEF stream

\* So are the words of a match.
LEMMA AlongWithin ==
    ASSUME NEW tokens, Tokens(tokens), NEW doc, NEW lang, NEW g \in StreamOf(tokens, doc, lang),
           NEW n \in Nat \ {0}, Along(tokens, g, n)
    PROVE  /\ Cardinality(StreamOf(tokens, doc, lang)) \in Nat /\ tokens[g].stream \in Nat \ {0}
           /\ tokens[g].stream + n - 1 <= Cardinality(StreamOf(tokens, doc, lang))
<1> DEFINE stream == StreamOf(tokens, doc, lang)
           a == tokens[g].stream
           k == Cardinality(stream)
<1>1. n \in 1..n  OBVIOUS
<1>2. PICK h \in Beside(tokens, g, n - 1) : TRUE  BY <1>1, Zenon DEF Along
<1>3. h \in stream /\ tokens[h].stream = a + (n - 1)  BY <1>2, Zenon DEF StreamOf, Beside
<1>4. k \in Nat /\ a \in 1..k /\ a + (n - 1) \in 1..k  BY <1>3, StreamsWithin, Zenon
<1> HIDE DEF a, k
<1>5. k \in Nat /\ a \in Nat \ {0} /\ a + n - 1 <= k  BY <1>4
<1> QED BY <1>5, Zenon DEF a, k, stream

\* Spans in a text of some length.
FileSpans(spans, length) ==
    TextSpans(spans) /\ \A s \in spans : s.from \in Nat /\ s.to \in Nat /\ s.to <= length

\* A span of words that a text has ends in it.
LEMMA SpanInText ==
    ASSUME NEW a \in Nat \ {0}, NEW n \in Nat \ {0}, NEW cut \in {0, 1}, NEW k \in Nat, a + n - 1 <= k
    PROVE  /\ StartOf(a) \in Nat /\ EndOf(a + n - 1) - cut \in Nat /\ StartOf(a) < EndOf(a + n - 1) - cut
           /\ EndOf(a + n - 1) - cut <= TextLength(k)
<1>1. k # 0  OBVIOUS
<1>2. TextLength(k) = EndOf(k)  BY <1>1, Zenon DEF TextLength
<1> QED BY <1>2 DEF EndOf, StartOf, WordWidth

\* A text of some words has some characters.
LEMMA TextHasLength ==
    ASSUME NEW k \in Nat \ {0}
    PROVE  TextLength(k) \in Nat \ {0}
  BY DEF TextLength, EndOf, StartOf, WordWidth

\* A span that words of a stream take, less the characters that are cut off.
Takes(tokens, s, rows, n, cut) ==
    \E g \in rows : s.from = StartOf(tokens[g].stream) /\ s.to = EndOf(tokens[g].stream + n - 1) - cut

\* Spans of some words of a stream are spans in its text.
LEMMA WordsTakeSpans ==
    ASSUME NEW tokens, Tokens(tokens), NEW doc, NEW lang, NEW rows \in SUBSET StreamOf(tokens, doc, lang),
           NEW n \in Nat \ {0}, NEW cut \in {0, 1}, \A g \in rows : Along(tokens, g, n),
           NEW spans, IsFiniteSet(spans), \A s \in spans : Takes(tokens, s, rows, n, cut),
           \A s, t \in spans : s.from = t.from /\ s.to = t.to => s = t
    PROVE  FileSpans(spans, TextLength(Cardinality(StreamOf(tokens, doc, lang))))
<1> DEFINE k == Cardinality(StreamOf(tokens, doc, lang))
<1>1. ASSUME NEW s \in spans
      PROVE  s.from \in Nat /\ s.to \in Nat /\ s.from < s.to /\ s.to <= TextLength(k)
  <2>1. PICK g \in rows : s.from = StartOf(tokens[g].stream) /\ s.to = EndOf(tokens[g].stream + n - 1) - cut
    BY Zenon DEF Takes
  <2> DEFINE a == tokens[g].stream
  <2>2. k \in Nat /\ a \in Nat \ {0} /\ a + n - 1 <= k  BY AlongWithin, Zenon
  <2> HIDE DEF k, a
  <2>3. /\ StartOf(a) \in Nat /\ EndOf(a + n - 1) - cut \in Nat /\ StartOf(a) < EndOf(a + n - 1) - cut
        /\ EndOf(a + n - 1) - cut <= TextLength(k)
    BY <2>2, SpanInText, Zenon
  <2> QED BY <2>1, <2>3, Zenon DEF a
<1> HIDE DEF k
<1>2. \A s \in spans : s.from \in Int /\ s.to \in Int
  <2> TAKE s \in spans
  <2>1. s.from \in Nat /\ s.to \in Nat  BY <1>1, Zenon
  <2> QED BY <2>1
<1> QED BY <1>1, <1>2, Zenon DEF FileSpans, k, TextSpans, Spans

-----------------------------------------------------------------------------
(* What the file view marks *)

\* What the file view looks for in a document: the places of a regular
\* expression, the matches of a query, or the word that was asked for.
RegexMarks(tokens, q, doc) == {[from |-> s.from, to |-> s.to, row |-> 0] : s \in RegexSpans(tokens, doc, q)}
MatchMarks(tokens, q, doc) ==
    {[from |-> m.from, to |-> m.to, row |-> m.row] :
        m \in {n \in Matches(tokens, q.lang, CompileQuery(q.terms, q), "") : n.row \in StreamOf(tokens, doc, q.lang)}}
WordMarks(tokens, q, doc, row) ==
    IF row \in StreamOf(tokens, doc, q.lang)
    THEN {[from |-> StartOf(tokens[row].stream), to |-> EndOf(tokens[row].stream), row |-> row]} ELSE {}

QueryMarks(tokens, q, doc) ==
    IF q.mode = "full_regex" THEN RegexMarks(tokens, q, doc)
    ELSE IF q.terms = <<>> THEN {} ELSE MatchMarks(tokens, q, doc)

\* What it marks.
FileMarks(tokens, q, doc, row) ==
    IF QueryMarks(tokens, q, doc) = {} THEN WordMarks(tokens, q, doc, row) ELSE QueryMarks(tokens, q, doc)

\* The file view shows the text of the document, cut at what it marks.
LEMMA FileViewShows ==
    ASSUME NEW index, NEW q, NEW doc, NEW row, ~IsError(FileView(index, q, doc, row))
    PROVE  LET view == FileView(index, q, doc, row)
               words == Cardinality(StreamOf(index.tokens, doc, q.lang))
           IN  /\ view.segments = Segments(Marked(FileMarks(index.tokens, q, doc, row)), TextLength(words))
               /\ view.tokens = words
               /\ DOMAIN view = {"segments", "hits", "selected", "anchored", "tokens", "types"}
               /\ StreamOf(index.tokens, doc, q.lang) # {}
               /\ q.mode = "full_regex" \/ q.terms = <<>> \/ CompileQuery(q.terms, q) # <<>>
<1> DEFINE tokens == index.tokens
           stream == StreamOf(tokens, doc, q.lang)
           words == Cardinality(stream)
           matchers == CompileQuery(q.terms, q)
           found == QueryMarks(tokens, q, doc)
           anchor == WordMarks(tokens, q, doc, row)
           marks == FileMarks(tokens, q, doc, row)
           marked == Marked(marks)
           view == FileView(index, q, doc, row)
           shown == [segments |-> Segments(marked, TextLength(words)),
                     hits |-> Len(marked),
                     selected |-> {i \in DOMAIN marked : row # 0 /\ marked[i].row = row},
                     anchored |-> anchor # {},
                     tokens |-> words,
                     types |-> Cardinality({NormalAt(tokens, g) : g \in stream})]
           refused == stream = {} \/ (q.mode # "full_regex" /\ q.terms # <<>> /\ matchers = <<>>)
<1>1. view = IF refused THEN QueryError ELSE shown
  BY Zenon DEF FileView, FileMarks, QueryMarks, RegexMarks, MatchMarks, WordMarks
<1>2. IsError(QueryError)  BY DEF IsError, QueryError
<1>3. ~IsError(view)  BY Zenon
<1> HIDE DEF view, shown, refused
<1>4. view = shown /\ ~refused  BY <1>1, <1>2, <1>3, Zenon
<1> HIDE DEF marked, anchor, words, tokens, stream
<1>5. /\ shown.segments = Segments(marked, TextLength(words)) /\ shown.tokens = words
      /\ DOMAIN shown = {"segments", "hits", "selected", "anchored", "tokens", "types"}
  BY DEF shown
<1>6. stream # {} /\ (q.mode = "full_regex" \/ q.terms = <<>> \/ matchers # <<>>)  BY <1>4, Zenon DEF refused
<1> QED BY <1>4, <1>5, <1>6, Zenon DEF view, marked, marks, words, stream, tokens

\* A query that is compiled has words.
LEMMA CompiledHasWords ==
    ASSUME NEW terms, IsList(terms), NEW opts, CompileQuery(terms, opts) # <<>>
    PROVE  Len(CompileQuery(terms, opts)) \in Nat \ {0} /\ Numbered(CompileQuery(terms, opts))
<1> DEFINE s == CompileQuery(terms, opts)
<1>1. Numbered(s)  BY CompiledNumbered, Zenon
<1>2. s = [i \in DOMAIN s |-> s[i]]
  <2> DEFINE parts == Segmented(terms)
             Value(i) == Matcher(parts[i], opts)
  <2> HIDE DEF s, Value
  <2> QED BY Zenon DEF s, CompileQuery
<1>3. s # <<>>  BY Zenon
<1> HIDE DEF s
<1>4. Len(s) # 0
  <2> SUFFICES ASSUME Len(s) = 0 PROVE FALSE
    BY Zenon
  <2>1. s = [i \in 1..0 |-> s[i]]  BY <1>2, <1>1, Zenon DEF Numbered
  <2>2. s = <<>>  BY <2>1
  <2> QED BY <1>3, <2>2, Zenon
<1>5. Len(s) \in Nat \ {0}
  <2>1. Len(s) \in Nat  BY <1>1, Zenon DEF Numbered
  <2> QED BY <1>4, <2>1
<1> QED BY <1>1, <1>5, Zenon DEF s

\* The places of a regular expression are spans in the text.
LEMMA RegexMarksInText ==
    ASSUME NEW tokens, Tokens(tokens), NEW q, IsList(q.terms), q.terms # <<>>, NEW doc
    PROVE  FileSpans(RegexMarks(tokens, q, doc), TextLength(Cardinality(StreamOf(tokens, doc, q.lang))))
<1> DEFINE n == Len(q.terms)
           cut == IF q.prefix THEN 1 ELSE 0
           spans == RegexSpans(tokens, doc, q)
           marks == RegexMarks(tokens, q, doc)
           rows == {g \in StreamOf(tokens, doc, q.lang) : Along(tokens, g, n)}
           f == [s \in spans |-> [from |-> s.from, to |-> s.to, row |-> 0]]
<1>1. n \in Nat \ {0}
  <2> DEFINE s == q.terms
  <2> HIDE DEF s
  <2> QED BY FirstAndLast, Zenon DEF s, IsList
<1>2. cut \in {0, 1}  BY Zenon
<1>3. IsFiniteSet(marks)
  <2>1. Image(marks, f, spans)  BY Zenon DEF Image, RegexMarks
  <2> QED BY RegexSpansFinite, <2>1, ImageFinite, Zenon
<1>4. \A x \in marks : x = [from |-> x.from, to |-> x.to, row |-> 0] /\ Takes(tokens, x, rows, n, cut)
  <2> TAKE x \in marks
  <2>1. PICK s \in spans : x = [from |-> s.from, to |-> s.to, row |-> 0]  BY Zenon DEF RegexMarks
  <2>2. x.from = s.from /\ x.to = s.to  BY <2>1
  <2>3. PICK g \in StreamOf(tokens, doc, q.lang) : s = SpanAt(tokens, g, n, cut) /\ Along(tokens, g, n)
    BY RegexSpansAt, Zenon
  <2>4. s.from = StartOf(tokens[g].stream) /\ s.to = EndOf(tokens[g].stream + n - 1) - cut
    <3> HIDE DEF cut
    <3> QED BY <2>3 DEF SpanAt
  <2>5. g \in rows  BY <2>3, Zenon
  <2> HIDE DEF cut, rows
  <2> QED BY <2>1, <2>2, <2>4, <2>5, Zenon DEF Takes
<1>5. \A x, y \in marks : x.from = y.from /\ x.to = y.to => x = y  BY <1>4, Zenon
<1>6. \A g \in rows : Along(tokens, g, n)  BY Zenon
<1>7. rows \in SUBSET StreamOf(tokens, doc, q.lang)  BY Zenon
<1> HIDE DEF n, cut, marks, rows
<1>8. FileSpans(marks, TextLength(Cardinality(StreamOf(tokens, doc, q.lang))))
  BY <1>1, <1>2, <1>3, <1>4, <1>5, <1>6, <1>7, WordsTakeSpans, Zenon
<1> QED BY <1>8, Zenon DEF marks

\* So are the matches of a query.
LEMMA MatchMarksInText ==
    ASSUME NEW tokens, Tokens(tokens), NEW q, IsList(q.terms), CompileQuery(q.terms, q) # <<>>, NEW doc
    PROVE  FileSpans(MatchMarks(tokens, q, doc), TextLength(Cardinality(StreamOf(tokens, doc, q.lang))))
<1> DEFINE matchers == CompileQuery(q.terms, q)
           n == Len(matchers)
           stream == StreamOf(tokens, doc, q.lang)
           all == Matches(tokens, q.lang, matchers, "")
           found == {m \in all : m.row \in stream}
           marks == MatchMarks(tokens, q, doc)
           rows == {g \in stream : Along(tokens, g, n)}
           f == [m \in found |-> [from |-> m.from, to |-> m.to, row |-> m.row]]
<1>1. n \in Nat \ {0} /\ Numbered(matchers)  BY CompiledHasWords, Zenon
<1> HIDE DEF matchers
<1>2. IsFiniteSet(all) /\ AreMatches(tokens, all, 0) /\ \A m \in all : m.length = n
  <2>1. AreMatches(tokens, all, 0)  BY <1>1, MatchesAreMatches, Zenon
  <2> DEFINE anyTag == ""
  <2> HIDE DEF anyTag
  <2>2. \A m \in Matches(tokens, q.lang, matchers, anyTag) : m.length = n  BY <1>1, MatchesAreMatches, SMT
  <2> QED BY <2>1, <2>2, Zenon DEF AreMatches, anyTag
<1>3. IsFiniteSet(marks)
  <2>1. IsFiniteSet(found)  BY <1>2, FS_Subset, Zenon
  <2>2. Image(marks, f, found)  BY Zenon DEF Image, MatchMarks, matchers
  <2> HIDE DEF f, found, marks
  <2> QED BY <2>1, <2>2, ImageFinite, Zenon
<1>4. \A x \in marks : \E g \in rows :
          x = [from |-> StartOf(tokens[g].stream), to |-> EndOf(tokens[g].stream + n - 1) - 0, row |-> g]
  <2> TAKE x \in marks
  <2>1. PICK m \in found : x = [from |-> m.from, to |-> m.to, row |-> m.row]  BY Zenon DEF MatchMarks, matchers
  <2>2. m \in all /\ m.row \in stream /\ m.length = n  BY <1>2, Zenon
  <2> HIDE DEF all, stream, n, rows
  <2>3. PICK g \in DOMAIN tokens, k \in Nat : m = MatchAt(tokens, g, k, 0) /\ Along(tokens, g, k)
    BY <1>2, <2>2, Zenon DEF AreMatches
  <2>4. /\ m.row = g /\ m.length = k /\ m.from = StartOf(tokens[g].stream)
        /\ m.to = EndOf(tokens[g].stream + k - 1) - 0
    BY <2>3 DEF MatchAt
  <2> QED BY <2>1, <2>2, <2>4, <2>3, Zenon DEF rows
<1>5. rows \in SUBSET stream /\ \A g \in rows : Along(tokens, g, n)  BY Zenon
<1>6. stream \in SUBSET (DOMAIN tokens) /\ \A g, h \in stream : SameStream(tokens, g, h)
  BY Zenon DEF StreamOf, SameStream
<1> HIDE DEF n, marks, rows, all, found, stream
<1>7. \A x \in marks : Takes(tokens, x, rows, n, 0)
  <2> TAKE x \in marks
  <2>1. PICK g \in rows : x = [from |-> StartOf(tokens[g].stream), to |-> EndOf(tokens[g].stream + n - 1) - 0, row |-> g]
    BY <1>4, Zenon
  <2>2. x.from = StartOf(tokens[g].stream) /\ x.to = EndOf(tokens[g].stream + n - 1) - 0  BY <2>1
  <2> QED BY <2>2, Zenon DEF Takes
<1>8. \A x, y \in marks : x.from = y.from => x = y
  <2> SUFFICES ASSUME NEW x \in marks, NEW y \in marks, x.from = y.from PROVE x = y
    BY Zenon
  <2>1. PICK g \in rows : x = [from |-> StartOf(tokens[g].stream), to |-> EndOf(tokens[g].stream + n - 1) - 0, row |-> g]
    BY <1>4, Zenon
  <2>2. PICK h \in rows : y = [from |-> StartOf(tokens[h].stream), to |-> EndOf(tokens[h].stream + n - 1) - 0, row |-> h]
    BY <1>4, Zenon
  <2>3. x.from = StartOf(tokens[g].stream) /\ y.from = StartOf(tokens[h].stream)  BY <2>1, <2>2
  <2> DEFINE a == tokens[g].stream
             b == tokens[h].stream
  <2>4. /\ g \in DOMAIN tokens /\ h \in DOMAIN tokens /\ SameStream(tokens, g, h)
        /\ a \in Nat /\ b \in Nat
    BY <1>5, <1>6, StreamsIncrease, Zenon
  <2>5. a = b
    <3>1. StartOf(a) = StartOf(b)  BY <2>3, Zenon
    <3> HIDE DEF a, b
    <3> QED BY <2>4, <3>1 DEF StartOf, WordWidth
  <2> QED BY <2>1, <2>2, <2>4, <2>5, StreamsDiffer, Zenon
<1>9. 0 \in {0, 1}  OBVIOUS
<1>10. rows \in SUBSET StreamOf(tokens, doc, q.lang)  BY <1>5, Zenon DEF stream
<1>11. FileSpans(marks, TextLength(Cardinality(StreamOf(tokens, doc, q.lang))))
  BY <1>1, <1>3, <1>5, <1>7, <1>8, <1>9, <1>10, WordsTakeSpans, Zenon
<1> QED BY <1>11, Zenon DEF marks

\* So is a word of the document.
LEMMA WordMarksInText ==
    ASSUME NEW tokens, Tokens(tokens), NEW q, NEW doc, NEW row
    PROVE  FileSpans(WordMarks(tokens, q, doc, row), TextLength(Cardinality(StreamOf(tokens, doc, q.lang))))
<1> DEFINE stream == StreamOf(tokens, doc, q.lang)
           length == TextLength(Cardinality(stream))
           mark == [from |-> StartOf(tokens[row].stream), to |-> EndOf(tokens[row].stream), row |-> row]
           marks == WordMarks(tokens, q, doc, row)
<1>1. CASE row \notin stream
  <2> HIDE DEF marks
  <2> QED BY <1>1, FS_EmptySet, Zenon DEF marks, WordMarks, FileSpans, TextSpans, Spans
<1>2. CASE row \in stream
  <2> DEFINE rows == {row}
             a == tokens[row].stream
  <2>1. marks = {mark}  BY <1>2, Zenon DEF WordMarks
  <2>2. row \in DOMAIN tokens /\ rows \in SUBSET stream  BY <1>2, Zenon DEF StreamOf
  <2>3. a \in Nat  BY <2>2, StreamsIncrease, Zenon
  <2>4. EndOf(a) = EndOf(a + 1 - 1) - 0
    <3> HIDE DEF a
    <3> QED BY <2>3 DEF EndOf, StartOf, WordWidth
  <2>5. mark.from = StartOf(a) /\ mark.to = EndOf(a)  OBVIOUS
  <2> HIDE DEF mark, marks
  <2>6. Along(tokens, row, 1)
    <3>1. Beside(tokens, row, 0) = {row}  BY <2>2, BesideIsOne, Zenon
    <3>2. 1 \in Nat /\ \A i \in 1..1 : i - 1 = 0  OBVIOUS
    <3> QED BY <3>1, <3>2, Zenon DEF Along
  <2>7. IsFiniteSet({mark})  BY FS_Singleton, Zenon
  <2>8. 1 \in Nat \ {0} /\ 0 \in {0, 1}  OBVIOUS
  <2>9. /\ \A g \in rows : Along(tokens, g, 1)
        /\ \A s \in {mark} : Takes(tokens, s, rows, 1, 0)
        /\ \A s, t \in {mark} : s = t
    BY <2>4, <2>5, <2>6, Zenon DEF Takes
  <2> HIDE DEF rows
  <2>10. FileSpans({mark}, TextLength(Cardinality(StreamOf(tokens, doc, q.lang))))
    BY <2>7, <2>8, <2>9, <2>2, WordsTakeSpans, Zenon
  <2> QED BY <2>1, <2>10, Zenon DEF marks
<1> QED BY <1>1, <1>2, Zenon

\* Whatever it marks are spans in the text.
LEMMA FileMarksInText ==
    ASSUME NEW tokens, Tokens(tokens), NEW q, IsList(q.terms), NEW doc, NEW row,
           q.mode = "full_regex" => q.terms # <<>>,
           q.mode = "full_regex" \/ q.terms = <<>> \/ CompileQuery(q.terms, q) # <<>>
    PROVE  FileSpans(FileMarks(tokens, q, doc, row), TextLength(Cardinality(StreamOf(tokens, doc, q.lang))))
<1> DEFINE length == TextLength(Cardinality(StreamOf(tokens, doc, q.lang)))
           marks == QueryMarks(tokens, q, doc)
<1>1. ASSUME marks # {} PROVE FileSpans(marks, length)
  <2>1. CASE q.mode = "full_regex"  BY <2>1, RegexMarksInText, Zenon DEF QueryMarks
  <2>2. CASE q.mode # "full_regex"  BY <1>1, <2>2, MatchMarksInText, Zenon DEF QueryMarks
  <2> QED BY <2>1, <2>2, Zenon
<1> QED BY WordMarksInText, <1>1, Zenon DEF FileMarks

\* The segment of a text that shows a place of it.
ShowsPlace(segments, x) == \E i \in 1..Len(segments) : segments[i].hit /\ segments[i].from <= x.from /\ x.from < segments[i].to

\* The segments of a text, cut at spans in it, follow each other from its
\* beginning to its end, and every span begins in one that is highlighted.
LEMMA SpansShown ==
    ASSUME NEW length \in Nat \ {0}, NEW spans, FileSpans(spans, length)
    PROVE  /\ Tiles(Segments(Marked(spans), length), 0, length)
           /\ \A s \in spans : ShowsPlace(Segments(Marked(spans), length), s)
           /\ \E Y : Segments(Marked(spans), length) \in Seq(Y)
<1> DEFINE marked == Marked(spans)
           n == Len(marked)
           segments == Segments(marked, length)
<1>1. TextSpans(spans) /\ \A s \in spans : s.from \in Nat /\ s.to \in Nat /\ s.to <= length
  BY Zenon DEF FileSpans
<1>2. marked \in Seq(spans) /\ Apart(marked) /\ \A s \in spans : Covers(marked, s)  BY <1>1, MarkedCover, Zenon
<1> HIDE DEF marked
<1>3. /\ Tiles(segments, 0, length) /\ \A i \in 1..n : Holds(segments, HitOf(marked[i]))
      /\ \E Y : segments \in Seq(Y)
  BY <1>2, <1>1, ElementOfSeq, SegmentsTile, Zenon DEF MarkedIn, Apart
<1> HIDE DEF segments
<1>4. \A x : HitOf(x).from = x.from /\ HitOf(x).to = x.to /\ HitOf(x).hit = TRUE  BY DEF HitOf
<1>5. ASSUME NEW s \in spans PROVE ShowsPlace(segments, s)
  <2>1. PICK i \in 1..n : marked[i].from <= s.from /\ s.from < marked[i].to  BY <1>2, Zenon DEF Covers
  <2>2. PICK j \in 1..Len(segments) : segments[j] = HitOf(marked[i])  BY <1>3, Zenon DEF Holds
  <2> QED BY <2>1, <1>4, <2>2, Zenon DEF ShowsPlace
<1> QED BY <1>3, <1>5, Zenon DEF segments, marked

\* So does a file view (file_view).
LEMMA FileViewTiles ==
    ASSUME NEW index, Tokens(index.tokens), NEW q, IsList(q.terms), q.mode = "full_regex" => q.terms # <<>>,
           NEW doc, NEW row, ~IsError(FileView(index, q, doc, row))
    PROVE  LET view == FileView(index, q, doc, row)
           IN  /\ Tiles(view.segments, 0, TextLength(view.tokens)) /\ \E Y : view.segments \in Seq(Y)
               /\ \A s \in FileMarks(index.tokens, q, doc, row) : ShowsPlace(view.segments, s)
               /\ DOMAIN view = {"segments", "hits", "selected", "anchored", "tokens", "types"}
<1> DEFINE tokens == index.tokens
           view == FileView(index, q, doc, row)
           stream == StreamOf(tokens, doc, q.lang)
           words == Cardinality(stream)
           marks == FileMarks(tokens, q, doc, row)
<1>1. /\ view.segments = Segments(Marked(marks), TextLength(words)) /\ view.tokens = words
      /\ DOMAIN view = {"segments", "hits", "selected", "anchored", "tokens", "types"}
      /\ stream # {}
      /\ q.mode = "full_regex" \/ q.terms = <<>> \/ CompileQuery(q.terms, q) # <<>>
  BY FileViewShows, Zenon
<1>2. FileSpans(marks, TextLength(words))  BY <1>1, FileMarksInText, Zenon
<1>3. words \in Nat \ {0}
  <2>1. IsFiniteSet(stream)  BY TokensFinite, Zenon DEF StreamOf
  <2> HIDE DEF stream
  <2>2. words \in Nat /\ words # 0  BY <1>1, <2>1, FS_CardinalityType, FS_EmptySet, Zenon
  <2> HIDE DEF words
  <2> QED BY <2>2
<1>4. TextLength(words) \in Nat \ {0}  BY <1>3, TextHasLength, Zenon
<1> HIDE DEF view, words, marks
<1>5. /\ Tiles(Segments(Marked(marks), TextLength(words)), 0, TextLength(words))
      /\ \A s \in marks : ShowsPlace(Segments(Marked(marks), TextLength(words)), s)
      /\ \E Y : Segments(Marked(marks), TextLength(words)) \in Seq(Y)
  BY <1>2, <1>4, SpansShown, Zenon
<1> QED BY <1>1, <1>5, Zenon DEF view, marks, tokens

-----------------------------------------------------------------------------
(* The hits of a concordance are matches *)

\* The hits of a page are rows of the corpus with their documents.
HitsAt(answer, tokens, shown) ==
    \A i \in DOMAIN answer.hits :
        /\ i \in DOMAIN shown
        /\ answer.hits[i].row = shown[i].row /\ answer.hits[i].doc = tokens[shown[i].row].word.doc

\* Every engine makes its hits of the matches on the page (_build_hit).
LEMMA PageAnswerPlaces ==
    ASSUME NEW tokens, NEW q, NEW keys, NEW shown, NEW total, NEW available, NEW counted
    PROVE  HitsAt(PageAnswer(tokens, q, keys, shown, total, available, counted), tokens, shown)
<1> DEFINE loaded == Context(tokens, ToSet(shown), LoadedRadius(q))
           counting == Context(tokens, counted, 5)
           snippets == Snippets(tokens, shown, q.context)
           size == IF q.sample > 0 THEN Higher(1, total) ELSE q.size
           patterns == {[match |-> m, values |-> HitPattern(tokens, counting, m, keys)] : m \in counted}
           Alike(m) == LET values == HitPattern(tokens, loaded, m, keys) IN
                       Cardinality({p \in patterns : p.values = values})
           hits == [i \in DOMAIN shown |-> BuildHit(tokens, loaded, shown[i], snippets, Alike(shown[i]))]
           page == IF q.sample > 0 THEN 1 ELSE EffectivePage(q.page, NumPages(total, size))
           pages == NumPages(total, size)
           answer == PageAnswer(tokens, q, keys, shown, total, available, counted)
<1>1. answer = [hits |-> hits, total |-> total, available |-> available, page |-> page, pages |-> pages]
  BY Zenon DEF PageAnswer
<1> HIDE DEF Alike, patterns, snippets, loaded
<1>2. /\ DOMAIN hits = DOMAIN shown
      /\ \A i \in DOMAIN shown : hits[i] = BuildHit(tokens, loaded, shown[i], snippets, Alike(shown[i]))
  BY Zenon
<1> HIDE DEF hits, page, pages, answer
<1>3. answer.hits = hits  BY <1>1
<1>4. \A i \in DOMAIN shown : hits[i].row = shown[i].row /\ hits[i].doc = tokens[shown[i].row].word.doc
  <2> SUFFICES ASSUME NEW i \in DOMAIN shown
               PROVE  hits[i].row = shown[i].row /\ hits[i].doc = tokens[shown[i].row].word.doc
    BY Zenon
  <2>1. hits[i] = BuildHit(tokens, loaded, shown[i], snippets, Alike(shown[i]))  BY <1>2, Zenon
  <2> QED BY <2>1 DEF BuildHit
<1> QED BY <1>2, <1>3, <1>4, Zenon DEF HitsAt, answer

\* The elements of a list are among some matches.
ShownOf(shown, matches) == \A i \in DOMAIN shown : shown[i] \in matches

\* So are those of all matches in order.
LEMMA ArrangedOf ==
    ASSUME NEW S, NEW T, S \subseteq T, NEW s, Arranges(s, S)
    PROVE  ShownOf(s, T)
<1> QED BY LenProperties, ElementOfSeq, Zenon DEF ShownOf, Arranges

\* So are those of a page of them.
LEMMA PageShownOf ==
    ASSUME NEW matches, NEW ordered, Arranges(ordered, matches), NEW q, KwicQuery(q), ValidOptions(q)
    PROVE  ShownOf(PageOf(ordered, q.page, q.size), matches)
<1> DEFINE shown == PageOf(ordered, q.page, q.size)
<1>1. ToSet(shown) \in SUBSET matches /\ \A i \in DOMAIN shown : shown[i] \in ToSet(shown)
  BY PageOfMatches, Zenon
<1> HIDE DEF shown
<1> QED BY <1>1, Zenon DEF shown, ShownOf

\* Whichever part of its matches a search shows, in whichever order.
LEMMA SampleShownOf ==
    ASSUME NEW index, Tokens(index.tokens), NEW q, KwicQuery(q), q.sample \in Nat
    PROVE  ShownOf(SampledOrder(index, q), Found(index, q))
<1> QED BY FoundArePlaced, SampleIsPart, SampledArranged, ArrangedOf, Zenon DEF KwicQuery

\* The hits of an answer are places of matches, each in its document.
HitsAmong(answer, tokens, matches) ==
    \A i \in DOMAIN answer.hits : \E m \in matches :
        answer.hits[i].row = m.row /\ answer.hits[i].doc = tokens[m.row].word.doc

\* A page made of matches shows hits of them.
LEMMA PageAmong ==
    ASSUME NEW tokens, NEW q, NEW keys, NEW shown, NEW total, NEW available, NEW counted,
           NEW matches, ShownOf(shown, matches)
    PROVE  HitsAmong(PageAnswer(tokens, q, keys, shown, total, available, counted), tokens, matches)
<1> DEFINE answer == PageAnswer(tokens, q, keys, shown, total, available, counted)
<1>1. HitsAt(answer, tokens, shown)  BY PageAnswerPlaces, Zenon
<1> HIDE DEF answer
<1> QED BY <1>1, Zenon DEF answer, HitsAt, HitsAmong, ShownOf

\* The simple search shows matches.
LEMMA SimpleAmong ==
    ASSUME NEW index, Tokens(index.tokens), NEW q, KwicQuery(q), ValidOptions(q), ~InMemory(q), q.mode # "cqp", ~Unsound(q)
    PROVE  HitsAmong(SearchSimple(index, q), index.tokens, Found(index, q))
<1> DEFINE tokens == index.tokens
           matchers == CompileQuery(q.terms, q)
           keys == NormalizeSortKeys(q.sort)
           found == Matches(tokens, q.lang, ResolvedTerms(tokens, q, q.terms), q.tag)
           sampled == Sample(found, q)
           ordered == Sorted(tokens, found, DOMAIN tokens, keys, q.order, TRUE)
           random == SampleOrder(sampled, q)
           sorted == Sorted(tokens, sampled, Context(tokens, sampled, 5), keys, q.order, FALSE)
           shown == IF q.sample = 0 THEN PageOf(ordered, q.page, q.size) ELSE IF keys = <<>> THEN random ELSE sorted
           total == IF q.sample > 0 THEN Len(shown) ELSE Cardinality(found)
           counted == IF keys # <<>> /\ q.sample = 0 THEN found ELSE ToSet(shown)
           answer == PageAnswer(tokens, q, keys, shown, total, Cardinality(found), counted)
<1>1. SearchSimple(index, q) = IF ~ValidOptions(q) \/ matchers = <<>> THEN QueryError ELSE answer
  BY Zenon DEF SearchSimple
<1>2. matchers # <<>>  BY Zenon DEF Unsound, InMemory
<1>3. Found(index, q) = found  BY Zenon DEF Found, InMemory
<1>4. SearchOrder(index, q) = ordered  BY <1>3, Zenon DEF SearchOrder
<1>5. SampledOrder(index, q) = IF keys = <<>> THEN random ELSE sorted
  <2> DEFINE S(matches) == Sample(matches, q)
             T(matches) == IF keys = <<>> THEN SampleOrder(matches, q)
                           ELSE Sorted(tokens, matches, Context(tokens, matches, 5), keys, q.order, FALSE)
  <2>1. SampledOrder(index, q) = T(S(Found(index, q)))  BY Zenon DEF SampledOrder
  <2>2. T(S(found)) = IF keys = <<>> THEN random ELSE sorted  BY Zenon
  <2> HIDE DEF S, T
  <2> QED BY <1>3, <2>1, <2>2
<1> HIDE DEF keys, matchers, ordered, random, sorted, sampled, found
<1>6. ShownOf(shown, found)
  <2>1. CASE q.sample = 0
    <3>1. shown = PageOf(SearchOrder(index, q), q.page, q.size)  BY <1>4, <2>1, Zenon
    <3> HIDE DEF shown
    <3> QED BY <3>1, <1>3, SearchArranged, PageShownOf, Zenon
  <2>2. CASE q.sample # 0
    <3>1. shown = SampledOrder(index, q)  BY <1>5, <2>2, Zenon
    <3> HIDE DEF shown
    <3>2. q.sample \in Nat  BY DEF KwicQuery, ValidOptions
    <3> QED BY <1>3, <3>1, <3>2, SampleShownOf, Zenon
  <2> QED BY <2>1, <2>2
<1> HIDE DEF shown, total, counted
<1>7. HitsAmong(answer, tokens, found)  BY <1>6, PageAmong, Zenon
<1> HIDE DEF answer
<1> QED BY <1>1, <1>2, <1>3, <1>7, Zenon

\* So do the searches in memory.
LEMMA MemoryAmong ==
    ASSUME NEW index, Tokens(index.tokens), NEW q, KwicQuery(q), ValidOptions(q), InMemory(q)
    PROVE  HitsAmong(InMemoryPage(index, q, Found(index, q)), index.tokens, Found(index, q))
<1> DEFINE tokens == index.tokens
           found == Found(index, q)
           keys == NormalizeSortKeys(q.sort)
           kept == IF q.sample > 0 THEN Sample(found, q) ELSE found
           Ordered(matches) == Sorted(tokens, matches, Context(tokens, matches, 5), keys, q.order, FALSE)
           ordered == Ordered(kept)
           shown == IF q.sample > 0 THEN ordered ELSE PageOf(ordered, q.page, q.size)
           total == Len(ordered)
           available == Cardinality(found)
           answer == PageAnswer(tokens, q, keys, shown, total, available, kept)
<1>1. InMemoryPage(index, q, found) = answer
  <2> HIDE DEF found
  <2> QED BY Zenon DEF InMemoryPage
<1>2. q.sample \in Nat  BY DEF KwicQuery, ValidOptions
<1>3. SearchOrder(index, q) = Ordered(found)  BY Zenon DEF SearchOrder
<1>4. SampledOrder(index, q) = Ordered(Sample(found, q))  BY Zenon DEF SampledOrder
<1>5. ShownOf(shown, found)
  <2>1. CASE ~(q.sample > 0)
    <3>1. kept = found
      <4> HIDE DEF found
      <4> QED BY <2>1, Zenon
    <3> HIDE DEF kept, Ordered
    <3>2. shown = PageOf(SearchOrder(index, q), q.page, q.size)  BY <1>3, <2>1, <3>1, Zenon
    <3> HIDE DEF shown
    <3> QED BY <3>2, SearchArranged, PageShownOf, Zenon
  <2>2. CASE q.sample > 0
    <3>1. kept = Sample(found, q)
      <4> HIDE DEF found
      <4> QED BY <2>2, Zenon
    <3> HIDE DEF kept, Ordered
    <3>2. shown = SampledOrder(index, q)  BY <1>4, <2>2, <3>1, Zenon
    <3> HIDE DEF shown
    <3> QED BY <1>2, <3>2, SampleShownOf, Zenon
  <2> QED BY <2>1, <2>2, Zenon
<1> HIDE DEF shown, total, kept, Ordered, available
<1>6. HitsAmong(answer, tokens, found)  BY <1>5, PageAmong, Zenon
<1> HIDE DEF answer
<1> QED BY <1>1, <1>6, Zenon

\* A concordance of words, with or without context words and a sample, shows
\* matches.
LEMMA ConcordanceAmong ==
    ASSUME NEW index, Tokens(index.tokens), NEW q, KwicQuery(q), q.mode = "simple", ~IsError(KwicSearch(index, q))
    PROVE  HitsAmong(KwicSearch(index, q), index.tokens, Found(index, q)) /\ ~Unsound(q)
<1>1. ValidOptions(q) /\ ~Unsound(q)  BY KwicSearchAnswers, Zenon
<1>2. q.mode # "cqp" /\ q.mode # "full_regex"  OBVIOUS
<1>3. CASE q.list # <<>> \/ q.near # <<>>
  <2>1. KwicSearch(index, q) = SearchAdvanced(index, q)  BY <1>2, <1>3, Zenon DEF KwicSearch
  <2> DEFINE queries == Queries(q)
             found == AdvancedMatches(index, q, queries)
  <2>2. Found(index, q) = found  BY <1>2, <1>3, Zenon DEF Found
  <2>3. ~(queries = {} \/ q.windowFrom > q.windowTo \/ ~NearWords(q) \/ \E t \in queries : CompileQuery(t, q) = <<>>)
    <3> HIDE DEF queries
    <3> QED BY <1>1, <1>2, <1>3, Zenon DEF Unsound, queries
  <2>4. SearchAdvanced(index, q) =
          IF \/ queries = {} \/ ~ValidOptions(q) \/ q.windowFrom > q.windowTo
             \/ ~NearWords(q) \/ \E t \in queries : CompileQuery(t, q) = <<>>
          THEN QueryError ELSE InMemoryPage(index, q, found)
    BY Zenon DEF SearchAdvanced, Queries
  <2> HIDE DEF queries, found
  <2>5. HitsAmong(InMemoryPage(index, q, Found(index, q)), index.tokens, Found(index, q))
    BY <1>1, <1>3, MemoryAmong, Zenon DEF InMemory
  <2> QED BY <1>1, <2>1, <2>2, <2>3, <2>4, <2>5, Zenon
<1>4. CASE ~(q.list # <<>> \/ q.near # <<>>)  BY <1>1, <1>2, <1>4, SimpleAmong, Zenon DEF KwicSearch, InMemory
<1> QED BY <1>3, <1>4, Zenon

\* A tag only takes matches away.
LEMMA TagTakesAway ==
    ASSUME NEW tokens, NEW lang, NEW matchers, NEW tag
    PROVE  Matches(tokens, lang, matchers, tag) \subseteq Matches(tokens, lang, matchers, "")
<1> DEFINE rows == {h \in DOMAIN tokens :
                      /\ tokens[h].word.lang = lang
                      /\ tag # "" => tokens[h].word.tag = tag
                      /\ \A i \in DOMAIN matchers : \E k \in Beside(tokens, h, i - 1) :
                              Accepts(matchers[i], tokens[k].word.text)}
           all == {h \in DOMAIN tokens :
                      /\ tokens[h].word.lang = lang
                      /\ "" # "" => tokens[h].word.tag = ""
                      /\ \A i \in DOMAIN matchers : \E k \in Beside(tokens, h, i - 1) :
                              Accepts(matchers[i], tokens[k].word.text)}
           n == Len(matchers)
<1>1. Matches(tokens, lang, matchers, "") = {MatchOf(tokens, g, n) : g \in all}  BY Zenon DEF Matches
<1> HIDE DEF rows, all, n
<1> QED BY <1>1, Zenon DEF Matches

\* A query in English, without a list of queries, finds matches of its words
\* as they are compiled: only a Chinese one may be taken as it stands.
LEMMA FoundAreCompiled ==
    ASSUME NEW index, NEW q, q.mode = "simple", q.lang = "en", q.list = <<>>, ~Unsound(q)
    PROVE  /\ q.terms # <<>> /\ CompileQuery(q.terms, q) # <<>>
           /\ Found(index, q) \subseteq Matches(index.tokens, q.lang, CompileQuery(q.terms, q), "")
<1> DEFINE tokens == index.tokens
           matchers == CompileQuery(q.terms, q)
           tagged == Matches(tokens, q.lang, matchers, q.tag)
           all == Matches(tokens, q.lang, matchers, "")
<1>1. q.mode # "cqp" /\ q.mode # "full_regex" /\ q.lang # "zh"  OBVIOUS
<1>2. ResolvedTerms(tokens, q, q.terms) = matchers  BY <1>1, Zenon DEF ResolvedTerms
<1>3. tagged \subseteq all  BY TagTakesAway, Zenon
<1>4. q.terms = <<>> => matchers = <<>>
  <2> HIDE DEF matchers
  <2> SUFFICES ASSUME q.terms = <<>> PROVE matchers = <<>>
    OBVIOUS
  <2> QED BY NoWordsNoQuery, Zenon DEF matchers
<1>5. CASE q.near = <<>>
  <2> HIDE DEF matchers
  <2>1. Found(index, q) = tagged  BY <1>2, <1>1, <1>5, Zenon DEF Found
  <2> HIDE DEF tagged, all
  <2> QED BY <1>3, <1>4, <1>1, <1>5, <2>1, Zenon DEF matchers, all, Unsound
<1>6. CASE q.near # <<>>
  <2> DEFINE queries == Queries(q)
             Of(t) == Matches(tokens, q.lang, ResolvedTerms(tokens, q, t), q.tag)
  <2>1. queries # {} /\ \A t \in queries : CompileQuery(t, q) # <<>>
    <3> HIDE DEF queries
    <3> QED BY <1>1, <1>6, Zenon DEF Unsound, queries
  <2>2. \A t \in queries : t = q.terms
    <3>1. ToSet(<<>>) = {}  BY DEF ToSet
    <3>2. queries = ({q.terms} \cup ToSet(<<>>)) \ {<<>>}  BY Zenon DEF Queries
    <3> HIDE DEF queries
    <3> QED BY <3>1, <3>2, Zenon
  <2>3. <<>> \notin queries  BY Zenon DEF Queries
  <2>4. Found(index, q) = AdvancedMatches(index, q, queries)  BY <1>1, <1>6, Zenon DEF Found
  <2>5. AdvancedMatches(index, q, queries) \subseteq UNION {Of(t) : t \in queries}
    <3> HIDE DEF queries
    <3> QED BY Zenon DEF AdvancedMatches
  <2>6. Of(q.terms) = tagged  BY <1>2, Zenon
  <2> HIDE DEF queries, Of, tagged, all, matchers
  <2>7. q.terms # <<>> /\ matchers # <<>>  BY <2>1, <2>3, <2>2, Zenon DEF matchers
  <2>8. Found(index, q) \subseteq tagged
    <3> SUFFICES ASSUME NEW m \in Found(index, q) PROVE m \in tagged
      BY Zenon
    <3>1. PICK t \in queries : m \in Of(t)  BY <2>4, <2>5, Zenon
    <3> QED BY <2>6, <3>1, <2>2, Zenon
  <2> QED BY <1>3, <2>7, <2>8, Zenon DEF matchers, all
<1> QED BY <1>5, <1>6, Zenon

-----------------------------------------------------------------------------
(* The file view shows the hit *)

\* The file view that a hit is opened in marks the match it is a hit of.
LEMMA HitMarked ==
    ASSUME NEW index, Tokens(index.tokens), NEW q, KwicQuery(q), q.mode = "simple", q.lang = "en", q.list = <<>>,
           ~IsError(KwicSearch(index, q)), NEW i \in DOMAIN KwicSearch(index, q).hits,
           NEW hit, hit = KwicSearch(index, q).hits[i]
    PROVE  \E s \in FileMarks(index.tokens, q, hit.doc, hit.row) : s.from = StartOf(index.tokens[hit.row].stream)
<1> DEFINE tokens == index.tokens
           answer == KwicSearch(index, q)
           all == Matches(tokens, q.lang, CompileQuery(q.terms, q), "")
           stream == StreamOf(tokens, hit.doc, q.lang)
           marks == MatchMarks(tokens, q, hit.doc)
<1>1. HitsAmong(answer, tokens, Found(index, q)) /\ ~Unsound(q)  BY ConcordanceAmong, Zenon
<1>2. q.terms # <<>> /\ Found(index, q) \subseteq all  BY <1>1, FoundAreCompiled, Zenon
<1> HIDE DEF answer
<1>3. PICK m \in Found(index, q) : hit.row = m.row /\ hit.doc = tokens[m.row].word.doc
  BY <1>1, Zenon DEF HitsAmong, answer
<1>4. m \in all  BY <1>2, Zenon
<1>5. /\ m.row \in DOMAIN tokens /\ tokens[m.row].word.lang = q.lang
      /\ m.from = StartOf(tokens[m.row].stream)
  <2>1. Begins(tokens, q.lang, m)  BY <1>4, MatchBegins, Zenon
  <2> QED BY <2>1, Zenon DEF Begins
<1> DEFINE s == [from |-> m.from, to |-> m.to, row |-> m.row]
<1>6. s \in marks  BY <1>4, <1>3, <1>5, Zenon DEF MatchMarks, StreamOf
<1>7. FileMarks(tokens, q, hit.doc, hit.row) = marks
  <2>1. q.mode # "full_regex"  OBVIOUS
  <2>2. QueryMarks(tokens, q, hit.doc) = marks  BY <1>2, <2>1, Zenon DEF QueryMarks
  <2> HIDE DEF marks
  <2> QED BY <1>6, <2>2, Zenon DEF FileMarks
<1>8. s.from = StartOf(tokens[hit.row].stream)
  <2>1. s.from = m.from  OBVIOUS
  <2> QED BY <1>3, <1>5, <2>1, Zenon
<1> HIDE DEF s, marks
<1> QED BY <1>6, <1>7, <1>8, Zenon

\* The fields of a file view.
IsView(view) == DOMAIN view = {"segments", "hits", "selected", "anchored", "tokens", "types"}

\* A file view that is no error has them.
LEMMA FileViewIsView ==
    ASSUME NEW index, NEW q, NEW doc, NEW row, ~IsError(FileView(index, q, doc, row))
    PROVE  IsView(FileView(index, q, doc, row))
<1> DEFINE view == FileView(index, q, doc, row)
           words == Cardinality(StreamOf(index.tokens, doc, q.lang))
           marks == FileMarks(index.tokens, q, doc, row)
<1> HIDE DEF view
<1> QED BY FileViewShows, Zenon DEF IsView, view

\* An answer that shows a view, opened from a row of a version of the corpus.
Carries(answer, view, row, from) ==
    /\ ~IsError(view)
    /\ IsView(view) => /\ answer.segments = view.segments /\ answer.tokens = view.tokens
                       /\ answer.row = row /\ answer.from = from

\* A view that says which hit it was opened from is one.
LEMMA OpenedView ==
    ASSUME NEW view, NEW row, NEW from, ~IsError(Extended(view, [row |-> row, from |-> from]))
    PROVE  Carries(Extended(view, [row |-> row, from |-> from]), view, row, from)
<1> DEFINE fields == [row |-> row, from |-> from]
           D == DOMAIN view \cup DOMAIN fields
           answer == [f \in D |-> IF f \in DOMAIN view THEN view[f] ELSE fields[f]]
<1>1. Extended(view, fields) = answer  BY Zenon DEF Extended
<1>2. DOMAIN answer = D /\ \A f \in D : answer[f] = IF f \in DOMAIN view THEN view[f] ELSE fields[f]  BY Zenon
<1>3. DOMAIN fields = {"row", "from"} /\ fields.row = row /\ fields.from = from  OBVIOUS
<1> HIDE DEF answer, fields
<1>4. ~IsError(view)  BY <1>2, <1>1, Zenon DEF IsError, fields
<1>5. ASSUME IsView(view)
      PROVE  /\ answer.segments = view.segments /\ answer.tokens = view.tokens
             /\ answer.row = row /\ answer.from = from
  <2>1. "segments" \in DOMAIN view /\ "tokens" \in DOMAIN view /\ "row" \notin DOMAIN view /\ "from" \notin DOMAIN view
    BY <1>5 DEF IsView
  <2>2. "row" \in DOMAIN fields /\ "from" \in DOMAIN fields  BY <1>3
  <2> QED BY <1>2, <1>3, <2>1, <2>2, Zenon
<1> QED BY <1>1, <1>4, <1>5, Zenon DEF Carries, fields

\* The file view on the screen shows the whole text, and the hit in it.
LEMMA ShownFile ==
    ASSUME PagesInvariant
    PROVE  FileShowsTheHit
<1> SUFFICES ASSUME Shows("file"), visit.answer.from = visit.version PROVE FileShowsTheHit
  BY Zenon DEF FileShowsTheHit
<1> DEFINE q == visit.query
           index == visit.corpus.index
           tokens == index.tokens
           search == KwicSearch(index, q)
<1>1. visit.view = "file" /\ ~IsError(visit.answer)  BY Zenon DEF Shows
<1>2. visit # NoVisit
  <2>1. NoVisit.view # "file"  BY DEF NoVisit
  <2> QED BY <1>1, <2>1, Zenon
<1>3. ShownPage(visit)  BY <1>2, Zenon DEF PagesInvariant
<1>4. PICK c \in Corpora : visit.corpus = Artifacts(c)  BY <1>3, Zenon DEF ShownPage
<1>5. Tokens(tokens)  BY <1>4, ArtifactsFields, Zenon
<1>6. KwicQuery(q) /\ \E hit, from : OpenedFrom(visit, hit, from)  BY <1>1, <1>3, Zenon DEF ShownPage
<1>7. PICK hit, from : OpenedFrom(visit, hit, from)  BY <1>6, Zenon
<1> DEFINE view == FileView(index, q, hit.doc, hit.row)
           answer == visit.answer
           segments == answer.segments
<1>8. answer = Extended(view, [row |-> hit.row, from |-> from])  BY <1>7, Zenon DEF OpenedFrom
<1>9. from = visit.version => ~IsError(search) /\ \E i \in DOMAIN search.hits : hit = search.hits[i]
  BY <1>7, Zenon DEF OpenedFrom
<1> HIDE DEF search, view, q
<1>10. Carries(answer, view, hit.row, from)
  <2> DEFINE extended == Extended(view, [row |-> hit.row, from |-> from])
  <2> HIDE DEF extended
  <2> QED BY <1>8, <1>1, OpenedView, Zenon DEF extended
<1>11. /\ segments = view.segments /\ answer.tokens = view.tokens /\ answer.row = hit.row
       /\ from = visit.version /\ ~IsError(view)
  BY <1>10, FileViewIsView, Zenon DEF Carries, view
<1>12. ~IsError(search) /\ \E i \in DOMAIN search.hits : hit = search.hits[i]  BY <1>9, <1>11, Zenon
<1>13. q.mode = "full_regex" => q.terms # <<>>
  BY <1>5, <1>6, <1>12, KwicSearchAnswers, Zenon DEF Unsound, search, q
<1> HIDE DEF segments, answer
<1>14. /\ Tiles(segments, 0, TextLength(answer.tokens)) /\ \E Y : segments \in Seq(Y)
       /\ \A s \in FileMarks(tokens, q, hit.doc, hit.row) : ShowsPlace(segments, s)
  BY <1>11, <1>5, <1>6, <1>13, FileViewTiles, Zenon DEF view, KwicQuery, SoundLists
<1>15. DOMAIN segments = 1..Len(segments) /\ Last(segments) = segments[Len(segments)]
  <2>1. PICK Y : segments \in Seq(Y)  BY <1>14, Zenon
  <2> QED BY <2>1, LenProperties, Zenon DEF Last
<1>16. ASSUME q.mode = "simple", q.lang = "en", q.list = <<>>
       PROVE  \E i \in DOMAIN segments :
                  /\ segments[i].hit /\ segments[i].from <= StartOf(tokens[answer.row].stream)
                  /\ StartOf(tokens[answer.row].stream) < segments[i].to
  <2>1. PICK s \in FileMarks(tokens, q, hit.doc, hit.row) : s.from = StartOf(tokens[hit.row].stream)
    BY <1>5, <1>6, <1>12, <1>16, HitMarked, Zenon DEF search, q
  <2> QED BY <1>15, <1>11, <2>1, <1>14, Zenon DEF ShowsPlace
<1>17. /\ segments[1].from = 0 /\ Last(segments).to = TextLength(answer.tokens)
       /\ \A i \in 2..Len(segments) : segments[i].from = segments[i - 1].to
  BY <1>14, <1>15, Zenon DEF Tiles
<1> QED BY <1>16, <1>17, Zenon DEF FileShowsTheHit, segments, answer, tokens, index, q

\* The file view always shows the text of the document from its beginning to
\* its end, without gaps and overlaps, and highlights the hit that it was
\* opened from (file_view).
THEOREM FileAlwaysShowsTheHit == Spec => []FileShowsTheHit
<1>1. PagesInvariant => FileShowsTheHit  BY ShownFile, Zenon
<1> QED BY <1>1, PagesAreInvariant, PTL

-----------------------------------------------------------------------------
(* Lists in the order of several numbers *)

\* Lists of numbers that tell the elements of a finite set apart.
Keyed(S, key) ==
    /\ IsFiniteSet(S) /\ DOMAIN key = S
    /\ \A x \in S : key[x] \in Seq(Int)
    /\ \A x, y \in S : key[x] = key[y] => x = y

\* A set in the order of such keys holds every element once.
LEMMA KeyOrderArranges ==
    ASSUME NEW S, NEW key, Keyed(S, key), key = [x \in S |-> key[x]]
    PROVE  Arranges(InKeyOrder(S, key), S)
<1>1. IsFiniteSet(S) /\ \A x, y \in S : key[x] = key[y] => x = y  BY Zenon DEF Keyed
<1>2. key \in [S -> Seq(Int)]  BY Zenon DEF Keyed
<1>3. Enumerates(Ranked(S, BeforeByKey(S, key)), S, BeforeByKey(S, key))
  BY <1>1, <1>2, KeysOrder, RankedEnumerates, Zenon
<1>4. InKeyOrder(S, key) = Ranked(S, BeforeByKey(S, key))
  <2> DEFINE before == BeforeByKey(S, key)
             A(x) == [at |-> Cardinality({y \in S : SeqLess(key[y], key[x])}), element |-> x]
             B(x) == [at |-> Cardinality(before[x]), element |-> x]
             Value(all) == [i \in 1..Cardinality(S) |-> (CHOOSE p \in all : p.at = i - 1).element]
  <2>1. InKeyOrder(S, key) = Value({A(x) : x \in S})  BY Zenon DEF InKeyOrder, InOrder
  <2>2. Ranked(S, before) = Value({B(x) : x \in S})  BY Zenon DEF Ranked
  <2>3. \A x \in S : A(x) = B(x)
    <3> TAKE x \in S
    <3>1. {y \in S : SeqLess(key[y], key[x])} = before[x]  BY Zenon DEF BeforeByKey
    <3> HIDE DEF before
    <3> QED BY <3>1, Zenon
  <2> HIDE DEF A, B, Value, before
  <2>4. {A(x) : x \in S} = {B(x) : x \in S}  BY <2>3
  <2> QED BY <2>1, <2>2, <2>4, Zenon DEF before
<1> QED BY <1>1, <1>3, <1>4, EnumeratedArranged, Zenon

\* What stands in front and what stands behind can be told apart by their lengths.
LEMMA ConcatParts ==
    ASSUME NEW s \in Seq(Int), NEW t \in Seq(Int), NEW u \in Seq(Int), NEW v \in Seq(Int),
           Len(s) = Len(t), s \o u = t \o v
    PROVE  s = t /\ u = v
<1>1. /\ Len(s \o u) = Len(s) + Len(u)
      /\ \A i \in 1..(Len(s) + Len(u)) : (s \o u)[i] = IF i <= Len(s) THEN s[i] ELSE u[i - Len(s)]
  BY ConcatProperties, Zenon
<1>2. /\ Len(t \o v) = Len(t) + Len(v)
      /\ \A i \in 1..(Len(t) + Len(v)) : (t \o v)[i] = IF i <= Len(t) THEN t[i] ELSE v[i - Len(t)]
  BY ConcatProperties, Zenon
<1>3. Len(s) \in Nat /\ Len(t) \in Nat /\ Len(u) \in Nat /\ Len(v) \in Nat  BY LenProperties, Zenon
<1>4. Len(u) = Len(v)
  <2>1. Len(s) + Len(u) = Len(t) + Len(v)  BY <1>1, <1>2, Zenon
  <2> QED BY <2>1, <1>3
<1>5. \A i \in 1..Len(s) : s[i] = t[i]
  <2> TAKE i \in 1..Len(s)
  <2>1. i \in 1..(Len(s) + Len(u)) /\ i \in 1..(Len(t) + Len(v)) /\ i <= Len(s) /\ i <= Len(t)  BY <1>3, <1>4
  <2> QED BY <1>1, <1>2, <2>1, Zenon
<1>6. \A i \in 1..Len(u) : u[i] = v[i]
  <2> TAKE i \in 1..Len(u)
  <2> DEFINE j == i + Len(s)
  <2>1. j \in 1..(Len(s) + Len(u)) /\ j \in 1..(Len(t) + Len(v)) /\ ~(j <= Len(s)) /\ ~(j <= Len(t))
        /\ j - Len(s) = i /\ j - Len(t) = i
    BY <1>3, <1>4
  <2> HIDE DEF j
  <2> QED BY <1>1, <1>2, <2>1, Zenon
<1> QED BY <1>4, <1>5, <1>6, SeqEqual, Zenon

\* A count and a spread.
Counting(e) == e.frequency \in Nat /\ e.range \in Nat

\* The order of a list is given by numbers.
LEMMA OrderingTyped ==
    ASSUME NEW e, Counting(e), NEW by, NEW place \in Seq(Int)
    PROVE  Ordering(e, by, place) \in Seq(Int)
<1> DEFINE a == 0 - e.frequency
           b == 0 - e.range
<1>1. a \in Int /\ b \in Int  BY DEF Counting
<1>2. Ordering(e, by, place) \in {<<a, b>> \o place, <<b, a>> \o place, place \o <<a>>}
  <2>1. \/ Ordering(e, by, place) = <<a, b>> \o place \/ Ordering(e, by, place) = <<b, a>> \o place
        \/ Ordering(e, by, place) = place \o <<a>>
    BY Zenon DEF Ordering
  <2> HIDE DEF a, b
  <2> QED BY <2>1, Zenon
<1> HIDE DEF a, b
<1>3. <<a, b>> \in Seq(Int) /\ <<b, a>> \in Seq(Int) /\ <<a>> \in Seq(Int)  BY <1>1
<1> QED BY <1>2, <1>3, ConcatProperties, Zenon

\* Entries that are as high in the order stand at one place.
LEMMA OrderingPlace ==
    ASSUME NEW d, Counting(d), NEW e, Counting(e), NEW by, NEW p \in Seq(Int), NEW r \in Seq(Int), Len(p) = Len(r),
           Ordering(d, by, p) = Ordering(e, by, r)
    PROVE  p = r
<1> DEFINE a == 0 - d.frequency
           b == 0 - d.range
           g == 0 - e.frequency
           h == 0 - e.range
<1>1. a \in Int /\ b \in Int /\ g \in Int /\ h \in Int  BY DEF Counting
<1>2. \/ <<a, b>> \o p = <<g, h>> \o r
      \/ <<b, a>> \o p = <<h, g>> \o r
      \/ p \o <<a>> = r \o <<g>>
  BY Zenon DEF Ordering
<1> HIDE DEF a, b, g, h
<1>3. /\ <<a, b>> \in Seq(Int) /\ <<b, a>> \in Seq(Int) /\ <<a>> \in Seq(Int)
      /\ <<g, h>> \in Seq(Int) /\ <<h, g>> \in Seq(Int) /\ <<g>> \in Seq(Int)
      /\ Len(<<a, b>>) = 2 /\ Len(<<b, a>>) = 2 /\ Len(<<g, h>>) = 2 /\ Len(<<h, g>>) = 2
  BY <1>1
<1>4. CASE <<a, b>> \o p = <<g, h>> \o r
  <2> DEFINE s == <<a, b>>
             t == <<g, h>>
  <2>1. s \in Seq(Int) /\ t \in Seq(Int) /\ Len(s) = Len(t) /\ s \o p = t \o r  BY <1>3, <1>4, Zenon
  <2> HIDE DEF s, t
  <2> QED BY <2>1, ConcatParts, Zenon
<1>5. CASE <<b, a>> \o p = <<h, g>> \o r
  <2> DEFINE s == <<b, a>>
             t == <<h, g>>
  <2>1. s \in Seq(Int) /\ t \in Seq(Int) /\ Len(s) = Len(t) /\ s \o p = t \o r  BY <1>3, <1>5, Zenon
  <2> HIDE DEF s, t
  <2> QED BY <2>1, ConcatParts, Zenon
<1>6. CASE p \o <<a>> = r \o <<g>>
  <2> DEFINE u == <<a>>
             v == <<g>>
  <2> HIDE DEF u, v
  <2> QED BY <1>3, <1>6, ConcatParts, Zenon
<1> QED BY <1>2, <1>4, <1>5, <1>6, Zenon

SameLength(s, t) == Len(s) = Len(t)

\* Places of one length give lists of one length.
LEMMA OrderingLength ==
    ASSUME NEW d, Counting(d), NEW e, Counting(e), NEW by, NEW p \in Seq(Int), NEW r \in Seq(Int), Len(p) = Len(r)
    PROVE  SameLength(Ordering(d, by, p), Ordering(e, by, r))
<1> DEFINE a == 0 - d.frequency
           b == 0 - d.range
           g == 0 - e.frequency
           h == 0 - e.range
<1>1. \/ Ordering(d, by, p) = <<a, b>> \o p /\ Ordering(e, by, r) = <<g, h>> \o r
      \/ Ordering(d, by, p) = <<b, a>> \o p /\ Ordering(e, by, r) = <<h, g>> \o r
      \/ Ordering(d, by, p) = p \o <<a>> /\ Ordering(e, by, r) = r \o <<g>>
  BY Zenon DEF Ordering
<1> HIDE DEF a, b, g, h
<1>2. /\ Len(<<a, b>> \o p) = Len(<<g, h>> \o r)
      /\ Len(<<b, a>> \o p) = Len(<<h, g>> \o r)
      /\ Len(p \o <<a>>) = Len(r \o <<g>>)
  BY DEF Counting
<1> QED BY <1>1, <1>2, Zenon DEF SameLength

-----------------------------------------------------------------------------
(* The entries of a word list *)

\* The rows of a word in a language.
RowsOfWord(tokens, lang, w) == {g \in DOMAIN tokens : tokens[g].word.lang = lang /\ NormalAt(tokens, g) = w}

\* An index whose totals were counted from its tokens.
Totalled(index) == Tokens(index.tokens) /\ index.totals = WordTotals(index.tokens)

\* A count of some rows.
CountsRows(count, tokens, rows) ==
    /\ Counting(count)
    /\ rows # {} => count.frequency >= 1 /\ count.range >= 1
    /\ count.frequency = Cardinality(rows)
    /\ count.range = Cardinality({tokens[g].word.doc : g \in rows})
    /\ count.symbol <=> \A g \in rows : Symbolic(tokens, g)

\* What is counted of some rows.
LEMMA RowsCounted ==
    ASSUME NEW tokens, Tokens(tokens), NEW rows \in SUBSET (DOMAIN tokens)
    PROVE  CountsRows(Counted(tokens, rows), tokens, rows)
<1> DEFINE docs == {tokens[g].word.doc : g \in rows}
           count == Counted(tokens, rows)
           f == [g \in rows |-> tokens[g].word.doc]
<1>1. count.frequency = Cardinality(rows) /\ count.range = Cardinality(docs)  BY DEF Counted
<1>2. IsFiniteSet(rows)  BY TokensFinite, Zenon
<1>3. Image(docs, f, rows)  BY Zenon DEF Image
<1>4. rows # {} => docs # {}  BY Zenon
<1> HIDE DEF docs, count, f
<1>5. IsFiniteSet(docs)  BY <1>2, <1>3, ImageFinite, Zenon
<1>6. Cardinality(rows) \in Nat /\ Cardinality(docs) \in Nat  BY <1>2, <1>5, FS_CardinalityType, Zenon
<1>7. rows # {} => Cardinality(rows) # 0 /\ Cardinality(docs) # 0  BY <1>2, <1>4, <1>5, FS_EmptySet, Zenon
<1>8. Counting(count)  BY <1>1, <1>6, Zenon DEF Counting
<1>9. rows # {} => count.frequency >= 1 /\ count.range >= 1  BY <1>1, <1>6, <1>7
<1> QED BY <1>1, <1>8, <1>9, Zenon DEF CountsRows, count, docs, Counted, Symbolic

\* A word of the totals is one of the table of tokens, and its total is counted from its rows.
LEMMA TotalsOfWords ==
    ASSUME NEW index, Totalled(index)
    PROVE  /\ IsFiniteSet(DOMAIN index.totals)
           /\ \A lang, w : <<lang, w>> \in DOMAIN index.totals <=> RowsOfWord(index.tokens, lang, w) # {}
           /\ \A k \in DOMAIN index.totals :
                k = <<k[1], k[2]>> /\ index.totals[k] = Counted(index.tokens, RowsOfWord(index.tokens, k[1], k[2]))
<1> DEFINE tokens == index.tokens
           f == [g \in DOMAIN tokens |-> <<tokens[g].word.lang, NormalAt(tokens, g)>>]
           keys == {<<tokens[g].word.lang, NormalAt(tokens, g)>> : g \in DOMAIN tokens}
<1>1. index.totals = [key \in keys |-> Counted(tokens, RowsOfWord(tokens, key[1], key[2]))]
  BY Zenon DEF Totalled, WordTotals, RowsOfWord
<1>2. IsFiniteSet(keys)
  <2>1. Image(keys, f, DOMAIN tokens)  BY Zenon DEF Image
  <2> HIDE DEF keys, f
  <2> QED BY <2>1, TokensFinite, ImageFinite, Zenon DEF Totalled
<1>3. \A lang, w : <<lang, w>> \in keys <=> RowsOfWord(tokens, lang, w) # {}
  <2> TAKE lang, w
  <2>1. ASSUME <<lang, w>> \in keys PROVE RowsOfWord(tokens, lang, w) # {}
    <3>1. PICK g \in DOMAIN tokens : <<lang, w>> = <<tokens[g].word.lang, NormalAt(tokens, g)>>  BY <2>1
    <3>2. lang = tokens[g].word.lang /\ w = NormalAt(tokens, g)  BY <3>1
    <3> QED BY <3>2, Zenon DEF RowsOfWord
  <2>2. ASSUME RowsOfWord(tokens, lang, w) # {} PROVE <<lang, w>> \in keys
    <3>1. PICK g \in RowsOfWord(tokens, lang, w) : TRUE  BY <2>2, Zenon
    <3> QED BY <3>1, Zenon DEF RowsOfWord
  <2> QED BY <2>1, <2>2, Zenon
<1>4. \A k \in keys : k = <<k[1], k[2]>>  OBVIOUS
<1> HIDE DEF keys
<1> QED BY <1>1, <1>2, <1>3, <1>4, Zenon

\* All rows of a word are punctuation, or none is.
LEMMA WordSymbols ==
    ASSUME NEW tokens, Tokens(tokens), NEW lang, NEW w, NEW g \in RowsOfWord(tokens, lang, w),
           NEW h \in RowsOfWord(tokens, lang, w)
    PROVE  Symbolic(tokens, g) <=> Symbolic(tokens, h)
<1>1. /\ g \in DOMAIN tokens /\ NormalAt(tokens, g) = w
      /\ h \in DOMAIN tokens /\ NormalAt(tokens, h) = w
  BY Zenon DEF RowsOfWord
<1>2. tokens[h].word \in WordRecords  BY <1>1, StreamsIncrease, Zenon
<1>3. tokens[h].word.text \in DOMAIN Normal  BY <1>2 DEF WordRecords
<1> QED BY <1>1, <1>3, SymbolsAlike, Zenon DEF Symbolic, NormalAt

\* The key of a word in a list without tags.
WordKey(w) == <<w, "">>

\* The key tells words apart.
LEMMA WordKeys ==
    ASSUME NEW v, NEW w
    PROVE  WordKey(w)[1] = w /\ (WordKey(v) = WordKey(w) => v = w)
<1> DEFINE blank == ""
<1>1. WordKey(w) = <<w, blank>> /\ WordKey(v) = <<v, blank>>  BY Zenon DEF WordKey
<1> HIDE DEF blank
<1> QED BY <1>1

\* A word that a list shows: one of its language, and no punctuation unless it is asked for.
Wanted(tokens, q, w) ==
    /\ RowsOfWord(tokens, q.lang, w) # {}
    /\ q.symbols \/ \A g \in RowsOfWord(tokens, q.lang, w) : ~Symbolic(tokens, g)

\* A word that is wanted has a place of its own.
LEMMA WantedPlaced ==
    ASSUME NEW tokens, Tokens(tokens), NEW q
    PROVE  /\ \A w : Wanted(tokens, q, w) => Rank[w] \in Int /\ Normal[w] = w /\ w \in DOMAIN Normal
           /\ \A v, w : Wanted(tokens, q, v) /\ Wanted(tokens, q, w) /\ Rank[v] = Rank[w] => v = w
<1>1. \A w : Wanted(tokens, q, w) => Rank[w] \in Int /\ \E s \in DOMAIN Normal : w = Normal[s]
  <2> SUFFICES ASSUME NEW w, Wanted(tokens, q, w) PROVE Rank[w] \in Int /\ \E s \in DOMAIN Normal : w = Normal[s]
    BY Zenon
  <2>1. PICK g \in DOMAIN tokens : NormalAt(tokens, g) = w  BY Zenon DEF Wanted, RowsOfWord
  <2>2. tokens[g].word \in WordRecords  BY StreamsIncrease, Zenon
  <2>3. tokens[g].word.text \in DOMAIN Normal  BY <2>2 DEF WordRecords
  <2> QED BY <2>1, <2>3, RankTyped, Zenon DEF NormalAt
<1>2. \A s \in DOMAIN Normal : Normal[s] \in DOMAIN Normal /\ Normal[Normal[s]] = Normal[s]
  BY NormalAssumption, Zenon
<1>3. \A s, t \in DOMAIN Normal : Rank[Normal[s]] = Rank[Normal[t]] => Normal[s] = Normal[t]
  BY PlacesAssumption, Zenon
<1>4. ASSUME NEW w, Wanted(tokens, q, w) PROVE Rank[w] \in Int /\ Normal[w] = w /\ w \in DOMAIN Normal
  <2>1. PICK s \in DOMAIN Normal : w = Normal[s]  BY <1>1, <1>4, Zenon
  <2> QED BY <1>1, <1>2, <1>4, <2>1, Zenon
<1>5. ASSUME NEW v, NEW w, Wanted(tokens, q, v), Wanted(tokens, q, w), Rank[v] = Rank[w] PROVE v = w
  <2>1. PICK s \in DOMAIN Normal : v = Normal[s]  BY <1>1, <1>5, Zenon
  <2>2. PICK t \in DOMAIN Normal : w = Normal[t]  BY <1>1, <1>5, Zenon
  <2> QED BY <1>3, <1>5, <2>1, <2>2, Zenon
<1> QED BY <1>4, <1>5, Zenon

\* A row of a list counts a word.
CountOfWord(tokens, q, e) ==
    \E w : /\ Wanted(tokens, q, w)
           /\ e.key = WordKey(w)
           /\ e.frequency = Cardinality(RowsOfWord(tokens, q.lang, w))

\* The rows of a list are those of its page.
LEMMA ListedRows ==
    ASSUME NEW ordered, NEW q, NEW more
    PROVE  /\ Listed(ordered, q).rows = PageOf(ordered, q.page, q.size)
           /\ Extended(Listed(ordered, q), more).rows = PageOf(ordered, q.page, q.size)
<1> DEFINE listed == Listed(ordered, q)
<1>1. listed.rows = PageOf(ordered, q.page, q.size) /\ "rows" \in DOMAIN listed  BY DEF Listed
<1> HIDE DEF listed
<1>2. Extended(listed, more).rows = listed.rows  BY <1>1 DEF Extended
<1> QED BY <1>1, <1>2, Zenon DEF listed

\* A set has no more elements than the one it is computed from.
LEMMA ImageSmaller ==
    ASSUME NEW T, NEW f, NEW S, Image(T, f, S), IsFiniteSet(S)
    PROVE  Cardinality(T) <= Cardinality(S)
<1> DEFINE h == [x \in S |-> f[x]]
<1>1. h \in [S -> T] /\ \A t \in T : \E x \in S : h[x] = t  BY DEF Image
<1> HIDE DEF h
<1>2. h \in Surjection(S, T)  BY <1>1, Zenon DEF Surjection
<1> QED BY <1>2, FS_Surjection

\* A list that is no longer than a page is the first page.
LEMMA PageOfAll ==
    ASSUME NEW X, NEW ordered \in Seq(X), NEW size \in Nat \ {0}, Len(ordered) <= size
    PROVE  PageOf(ordered, 1, size) = ordered
<1> DEFINE n == Len(ordered)
           pages == NumPages(n, size)
           page == PageOf(ordered, 1, size)
<1>1. n \in Nat  BY LenProperties, Zenon
<1> HIDE DEF n, pages
<1>2. pages \in Nat \ {0} /\ (n # 0 => (pages - 1) * size < n) /\ (n = 0 => pages = 1) /\ n <= size
  BY <1>1, PagesCount, Zenon DEF pages, n
<1>3. pages = 1
  <2>1. CASE n = 0  BY <2>1, <1>2
  <2>2. CASE n # 0  BY <2>2, <1>1, <1>2
  <2> QED BY <2>1, <2>2
<1>4. 1 \in 1..pages /\ 1 - 1 = 0  BY <1>3
<1>5. FirstPages(ordered, size, 1) = FirstPages(ordered, size, 1 - 1) \o page
  BY <1>4, NextPage, Zenon DEF pages, n
<1>6. ordered = <<>> \o page  BY <1>3, NoPageAndAll, <1>4, <1>5, Zenon DEF pages, n
<1>7. page \in Seq(X)
  <2>1. 1 \in Nat \ {0}  OBVIOUS
  <2> QED BY <2>1, PageIsPart, Zenon
<1> QED BY <1>6, <1>7, ConcatEmptySeq, Zenon

\* What a list has for a key.
Frequencies(rows, key) == {rows[j].frequency : j \in {k \in DOMAIN rows : rows[k].key = key}}

HoldsCount(rows, key, n) == Frequencies(rows, key) = {n}

\* A list that holds a word holds its frequency.
LEMMA WordListed ==
    ASSUME NEW tokens, NEW q, NEW S, NEW rows, Arranges(rows, S), \A e \in S : CountOfWord(tokens, q, e),
           NEW w, \E e \in S : e.key = WordKey(w)
    PROVE  HoldsCount(rows, WordKey(w), Cardinality(RowsOfWord(tokens, q.lang, w)))
<1> DEFINE n == Cardinality(RowsOfWord(tokens, q.lang, w))
<1>1. rows \in Seq(S) /\ \A x \in S : \E i \in 1..Len(rows) : rows[i] = x  BY Zenon DEF Arranges
<1>2. DOMAIN rows = 1..Len(rows) /\ \A i \in 1..Len(rows) : rows[i] \in S  BY <1>1
<1>3. \A e \in S : e.key = WordKey(w) => e.frequency = n
  <2> SUFFICES ASSUME NEW e \in S, e.key = WordKey(w) PROVE e.frequency = n
    BY Zenon
  <2>1. PICK v : e.key = WordKey(v) /\ e.frequency = Cardinality(RowsOfWord(tokens, q.lang, v))
    BY Zenon DEF CountOfWord
  <2> QED BY <2>1, WordKeys, Zenon
<1>4. PICK e \in S : e.key = WordKey(w)  BY Zenon
<1>5. PICK i \in DOMAIN rows : rows[i] = e  BY <1>1, <1>2, <1>4, Zenon
<1> HIDE DEF n
<1>6. \A j \in DOMAIN rows : rows[j].key = WordKey(w) => rows[j].frequency = n  BY <1>2, <1>3, Zenon
<1>7. rows[i].key = WordKey(w)  BY <1>4, <1>5, Zenon
<1>8. Frequencies(rows, WordKey(w)) = {n}  BY <1>6, <1>5, <1>7, Zenon DEF Frequencies
<1> QED BY <1>8, Zenon DEF HoldsCount, n

-----------------------------------------------------------------------------
(* What the word lists show *)

\* The totals that a stored list shows, and its rows in order (_static_word_list).
StaticKept(index, q) ==
    {j \in DOMAIN index.totals : /\ j[1] = q.lang
                                 /\ q.symbols \/ ~index.totals[j].symbol
                                 /\ Enough(index.totals[j], q) /\ Filtered(q, j[2])}
StaticRow(index, k) ==
    [key |-> WordKey(k[2]), frequency |-> index.totals[k].frequency, range |-> index.totals[k].range]
StaticEntries(index, q) == {StaticRow(index, k) : k \in StaticKept(index, q)}
StaticOrder(index, q) ==
    InKeyOrder(StaticEntries(index, q), [e \in StaticEntries(index, q) |-> Ordering(e, q.by, <<Rank[e.key[1]]>>)])

\* Without a tag, a stored list shows the totals.
LEMMA StaticListed ==
    ASSUME NEW index, NEW q, q.tag = ""
    PROVE  StaticWordList(index, q).rows = PageOf(StaticOrder(index, q), q.page, q.size)
<1> DEFINE table == [k \in {j \in DOMAIN index.totals : j[1] = q.lang} |-> index.totals[k]]
           J == {j \in DOMAIN table : /\ q.symbols \/ ~table[j].symbol
                                      /\ Enough(table[j], q) /\ Filtered(q, j[2])}
           Row(k) == [key |-> <<k[2], "">>, frequency |-> table[k].frequency, range |-> table[k].range]
           kept == {Row(k) : k \in J}
           Order(S) == InKeyOrder(S, [e \in S |-> Ordering(e, q.by, <<Rank[e.key[1]]>>)])
           more == [tokens |-> Cardinality(RowsOf(index.tokens, q.lang, "", q.symbols))]
<1>1. StaticWordList(index, q) = Extended(Listed(Order(kept), q), more)  BY Zenon DEF StaticWordList
<1>2. DOMAIN table = {j \in DOMAIN index.totals : j[1] = q.lang} /\ \A k \in DOMAIN table : table[k] = index.totals[k]
  BY Zenon
<1> HIDE DEF table
<1>3. J = StaticKept(index, q)  BY <1>2, Zenon DEF StaticKept
<1>4. \A k \in J : Row(k) = StaticRow(index, k)
  <2> TAKE k \in J
  <2> QED BY <1>2, Zenon DEF StaticRow, WordKey
<1>5. kept = StaticEntries(index, q)
  <2> HIDE DEF Row, J
  <2> QED BY <1>3, <1>4 DEF StaticEntries
<1>6. Order(kept) = StaticOrder(index, q)  BY <1>5, Zenon DEF StaticOrder
<1> HIDE DEF Order, kept, more
<1> QED BY <1>1, <1>6, ListedRows, Zenon

\* Such a total is that of a word that is wanted.
StaticCount(index, q, k) ==
    /\ k = <<q.lang, k[2]>>
    /\ Wanted(index.tokens, q, k[2])
    /\ index.totals[k] = Counted(index.tokens, RowsOfWord(index.tokens, q.lang, k[2]))
    /\ Counting(StaticRow(index, k))
    /\ StaticRow(index, k).key = WordKey(k[2])
    /\ StaticRow(index, k).frequency = Cardinality(RowsOfWord(index.tokens, q.lang, k[2]))

\* Every such total is.
LEMMA StaticCounts ==
    ASSUME NEW index, Totalled(index), NEW q, NEW k \in StaticKept(index, q)
    PROVE  StaticCount(index, q, k)
<1> DEFINE tokens == index.tokens
           rows == RowsOfWord(tokens, q.lang, k[2])
<1>1. k \in DOMAIN index.totals /\ k[1] = q.lang /\ (q.symbols \/ ~index.totals[k].symbol)
  BY Zenon DEF StaticKept
<1>2. k = <<q.lang, k[2]>> /\ index.totals[k] = Counted(tokens, rows)  BY <1>1, TotalsOfWords, Zenon
<1>3. Tokens(tokens) /\ rows \in SUBSET (DOMAIN tokens)  BY Zenon DEF Totalled, RowsOfWord
<1>4. /\ Counting(Counted(tokens, rows)) /\ Counted(tokens, rows).frequency = Cardinality(rows)
      /\ Counted(tokens, rows).symbol <=> \A g \in rows : Symbolic(tokens, g)
  BY <1>3, RowsCounted, Zenon DEF CountsRows
<1>5. q.symbols \/ \A g \in rows : ~Symbolic(tokens, g)
  <2>1. CASE q.symbols  BY <2>1, Zenon
  <2>2. CASE ~index.totals[k].symbol
    <3>1. PICK h \in rows : ~Symbolic(tokens, h)  BY <2>2, <1>2, <1>4, Zenon
    <3>2. \A g \in rows : Symbolic(tokens, g) <=> Symbolic(tokens, h)  BY <1>3, <3>1, WordSymbols, Zenon
    <3> QED BY <3>1, <3>2, Zenon
  <2> QED BY <1>1, <2>1, <2>2, Zenon
<1>6. Wanted(tokens, q, k[2])  BY <1>1, <1>2, TotalsOfWords, <1>5, Zenon DEF Wanted
<1>7. /\ StaticRow(index, k).key = WordKey(k[2])
      /\ StaticRow(index, k).frequency = index.totals[k].frequency
      /\ StaticRow(index, k).range = index.totals[k].range
  BY DEF StaticRow
<1> QED BY <1>2, <1>4, <1>6, <1>7, Zenon DEF StaticCount, Counting

\* The rows of a stored list stand in order, and each counts a word.
LEMMA StaticArranged ==
    ASSUME NEW index, Totalled(index), NEW q
    PROVE  /\ Arranges(StaticOrder(index, q), StaticEntries(index, q))
           /\ \A e \in StaticEntries(index, q) : CountOfWord(index.tokens, q, e)
           /\ Cardinality(StaticEntries(index, q)) <= Cardinality(DOMAIN index.totals)
<1> DEFINE tokens == index.tokens
           J == StaticKept(index, q)
           S == StaticEntries(index, q)
           key == [e \in S |-> Ordering(e, q.by, <<Rank[e.key[1]]>>)]
           f == [k \in J |-> StaticRow(index, k)]
<1>1. IsFiniteSet(DOMAIN index.totals) /\ J \subseteq DOMAIN index.totals
  BY TotalsOfWords, Zenon DEF StaticKept
<1>2. IsFiniteSet(J) /\ Cardinality(J) <= Cardinality(DOMAIN index.totals)  BY <1>1, FS_Subset, Zenon
<1>3. Image(S, f, J)  BY Zenon DEF Image, StaticEntries
<1>4. \A e \in S : \E k \in J : e = StaticRow(index, k)  BY Zenon DEF StaticEntries
<1>5. Tokens(tokens)  BY Zenon DEF Totalled
<1>0. \A k \in J : StaticCount(index, q, k)  BY StaticCounts, Zenon
<1> HIDE DEF J, S, f
<1>6. IsFiniteSet(S) /\ Cardinality(S) <= Cardinality(J)  BY <1>2, <1>3, ImageFinite, ImageSmaller, Zenon
<1>7. Cardinality(S) <= Cardinality(DOMAIN index.totals)
  <2>1. Cardinality(S) \in Nat /\ Cardinality(J) \in Nat /\ Cardinality(DOMAIN index.totals) \in Nat
    BY <1>1, <1>2, <1>6, FS_CardinalityType, Zenon
  <2> QED BY <2>1, <1>2, <1>6
<1>8. \A e \in S : CountOfWord(tokens, q, e)
  <2> SUFFICES ASSUME NEW e \in S PROVE CountOfWord(tokens, q, e)
    BY Zenon
  <2>1. PICK k \in J : e = StaticRow(index, k)  BY <1>4, Zenon
  <2> QED BY <1>0, <2>1, Zenon DEF CountOfWord, StaticCount
<1>9. \A e \in S : key[e] \in Seq(Int)
  <2> SUFFICES ASSUME NEW e \in S PROVE Ordering(e, q.by, <<Rank[e.key[1]]>>) \in Seq(Int)
    BY Zenon
  <2>1. PICK k \in J : e = StaticRow(index, k)  BY <1>4, Zenon
  <2>2. Wanted(tokens, q, k[2]) /\ Counting(e) /\ e.key = WordKey(k[2])  BY <1>0, <2>1, Zenon DEF StaticCount
  <2>3. e.key[1] = k[2] /\ Rank[k[2]] \in Int  BY <2>2, <1>5, WordKeys, WantedPlaced, Zenon
  <2>4. <<Rank[e.key[1]]>> \in Seq(Int)  BY <2>3
  <2> QED BY <2>2, <2>4, OrderingTyped, Zenon
<1>10. \A d, e \in S : key[d] = key[e] => d = e
  <2> SUFFICES ASSUME NEW d \in S, NEW e \in S,
                      Ordering(d, q.by, <<Rank[d.key[1]]>>) = Ordering(e, q.by, <<Rank[e.key[1]]>>)
               PROVE  d = e
    BY Zenon
  <2>1. PICK k \in J : d = StaticRow(index, k)  BY <1>4, Zenon
  <2>2. PICK l \in J : e = StaticRow(index, l)  BY <1>4, Zenon
  <2>3. Wanted(tokens, q, k[2]) /\ Counting(d) /\ d.key = WordKey(k[2]) /\ k = <<q.lang, k[2]>>
    BY <1>0, <2>1, Zenon DEF StaticCount
  <2>4. Wanted(tokens, q, l[2]) /\ Counting(e) /\ e.key = WordKey(l[2]) /\ l = <<q.lang, l[2]>>
    BY <1>0, <2>2, Zenon DEF StaticCount
  <2>5. d.key[1] = k[2] /\ e.key[1] = l[2] /\ Rank[k[2]] \in Int /\ Rank[l[2]] \in Int
    BY <2>3, <2>4, <1>5, WordKeys, WantedPlaced, Zenon
  <2>6. /\ <<Rank[d.key[1]]>> \in Seq(Int) /\ <<Rank[e.key[1]]>> \in Seq(Int)
        /\ Len(<<Rank[d.key[1]]>>) = Len(<<Rank[e.key[1]]>>)
    BY <2>5
  <2>7. <<Rank[d.key[1]]>> = <<Rank[e.key[1]]>>  BY <2>3, <2>4, <2>6, OrderingPlace, Zenon
  <2>8. Rank[k[2]] = Rank[l[2]]  BY <2>5, <2>7
  <2>9. k[2] = l[2]  BY <2>3, <2>4, <2>8, <1>5, WantedPlaced, Zenon
  <2> QED BY <2>1, <2>2, <2>3, <2>4, <2>9, Zenon
<1>11. DOMAIN key = S /\ key = [x \in S |-> key[x]]  BY Zenon
<1>12. StaticOrder(index, q) = InKeyOrder(S, key)  BY Zenon DEF StaticOrder, S
<1> HIDE DEF key
<1>13. Keyed(S, key)  BY <1>6, <1>9, <1>10, <1>11, Zenon DEF Keyed
<1> QED BY <1>7, <1>8, <1>11, <1>12, <1>13, KeyOrderArranges, Zenon DEF S

\* What a list is asked for that leaves nothing out: once is enough, in one document.
Unfiltered(q) == q.minFrequency = 1 /\ q.minRange = 1 /\ q.filter = ""

\* A list that leaves nothing out has every word that is wanted.
LEMMA StaticHasAll ==
    ASSUME NEW index, Totalled(index), NEW q, Unfiltered(q), NEW w, Wanted(index.tokens, q, w)
    PROVE  \E e \in StaticEntries(index, q) : e.key = WordKey(w)
<1> DEFINE tokens == index.tokens
           rows == RowsOfWord(tokens, q.lang, w)
           k == <<q.lang, w>>
<1>1. Tokens(tokens) /\ rows \in SUBSET (DOMAIN tokens) /\ rows # {}  BY Zenon DEF Totalled, RowsOfWord, Wanted
<1>2. k[1] = q.lang /\ k[2] = w  OBVIOUS
<1> HIDE DEF k
<1>3. k \in DOMAIN index.totals  BY <1>1, TotalsOfWords, Zenon DEF k
<1>4. index.totals[k] = Counted(tokens, rows)  BY <1>2, <1>3, TotalsOfWords, Zenon
<1>5. CountsRows(index.totals[k], tokens, rows)  BY <1>1, <1>4, RowsCounted, Zenon
<1>6. q.symbols \/ ~index.totals[k].symbol  BY <1>1, <1>5, Zenon DEF Wanted, CountsRows
<1>7. k \in StaticKept(index, q)
  BY <1>2, <1>3, <1>1, <1>5, <1>6, Zenon DEF StaticKept, Enough, Unfiltered, CountsRows, Filtered
<1>8. StaticRow(index, k) \in StaticEntries(index, q) /\ StaticRow(index, k).key = WordKey(w)
  BY <1>2, <1>7, StaticCounts, Zenon DEF StaticEntries, StaticCount
<1> QED BY <1>8, Zenon

\* The rows that a tally puts under a key, and its entry.
Same(keyOf, k) == {g \in DOMAIN keyOf : keyOf[g] = k}
TallyRow(tokens, keyOf, k) ==
    [key |-> k, frequency |-> Cardinality(Same(keyOf, k)),
     range |-> Cardinality({tokens[g].word.doc : g \in Same(keyOf, k)}),
     first |-> CHOOSE g \in Same(keyOf, k) : \A h \in Same(keyOf, k) : g <= h]

\* An entry of a tally: how often its key occurs, and where it is met first.
Tallied(tokens, keyOf, e) ==
    /\ Counting(e) /\ e.frequency >= 1 /\ e.range >= 1
    /\ e = TallyRow(tokens, keyOf, e.key)
    /\ e.frequency = Cardinality(Same(keyOf, e.key))
    /\ e.range = Cardinality({tokens[g].word.doc : g \in Same(keyOf, e.key)})
    /\ e.first \in Same(keyOf, e.key) /\ e.first \in Nat

RowOfKey(tokens, keyOf, g) ==
    /\ TallyRow(tokens, keyOf, keyOf[g]).key = keyOf[g]
    /\ Tallied(tokens, keyOf, TallyRow(tokens, keyOf, keyOf[g]))

\* Every key of a tally has such an entry.
LEMMA TallyRows ==
    ASSUME NEW tokens, Tokens(tokens), NEW keyOf, DOMAIN keyOf \subseteq DOMAIN tokens, NEW g \in DOMAIN keyOf
    PROVE  RowOfKey(tokens, keyOf, g)
<1> DEFINE k == keyOf[g]
           same == Same(keyOf, k)
           e == TallyRow(tokens, keyOf, k)
           docs == {tokens[h].word.doc : h \in same}
<1>1. g \in same /\ same \in SUBSET (DOMAIN tokens)  BY Zenon DEF Same
<1>2. same \subseteq Nat  BY <1>1, StreamsIncrease, Zenon
<1>3. CountsRows(Counted(tokens, same), tokens, same)  BY <1>1, RowsCounted, Zenon
<1>4. /\ e.key = k /\ e.frequency = Cardinality(same) /\ e.range = Cardinality(docs)
      /\ e.first = CHOOSE i \in same : \A h \in same : i <= h
  BY DEF TallyRow
<1>5. \E i \in same : \A h \in same : i <= h
  <2> HIDE DEF same
  <2> QED BY <1>2, <1>1, LeastNumber, Zenon
<1> HIDE DEF same, e, k, docs
<1>6. e.first \in same  BY <1>4, <1>5, Zenon
<1>7. e.first \in Nat  BY <1>2, <1>6, Zenon
<1>8. Counting(e) /\ e.frequency >= 1 /\ e.range >= 1
  BY <1>3, <1>4, <1>1, Zenon DEF CountsRows, Counting, docs
<1>9. Tallied(tokens, keyOf, e)  BY <1>4, <1>6, <1>7, <1>8, Zenon DEF Tallied, docs, same, e
<1> QED BY <1>4, <1>9, Zenon DEF RowOfKey, e, k

HasEveryKey(T, keyOf) == \A g \in DOMAIN keyOf : \E e \in T : e.key = keyOf[g]

\* A tally has one entry for every key.
LEMMA TallyEntries ==
    ASSUME NEW tokens, Tokens(tokens), NEW keyOf, DOMAIN keyOf \subseteq DOMAIN tokens
    PROVE  /\ IsFiniteSet(Tally(tokens, keyOf))
           /\ \A e \in Tally(tokens, keyOf) : Tallied(tokens, keyOf, e)
           /\ HasEveryKey(Tally(tokens, keyOf), keyOf)
<1> DEFINE T == Tally(tokens, keyOf)
           f == [g \in DOMAIN keyOf |-> TallyRow(tokens, keyOf, keyOf[g])]
<1>1. T = {TallyRow(tokens, keyOf, k) : k \in Range(keyOf)}  BY Zenon DEF Tally, TallyRow, Same
<1>2. \A e : e \in T <=> \E g \in DOMAIN keyOf : e = f[g]  BY <1>1, Zenon DEF Range
<1>3. Image(T, f, DOMAIN keyOf)
  <2> HIDE DEF T, f
  <2> QED BY <1>2, Zenon DEF Image
<1> HIDE DEF T
<1>4. \A g \in DOMAIN keyOf : RowOfKey(tokens, keyOf, g) /\ f[g] = TallyRow(tokens, keyOf, keyOf[g])
  BY TallyRows, Zenon
<1> HIDE DEF f
<1>5. \A g \in DOMAIN keyOf : f[g].key = keyOf[g] /\ Tallied(tokens, keyOf, f[g])  BY <1>4, Zenon DEF RowOfKey
<1> QED BY <1>3, TokensFinite, ImageFinite, <1>2, <1>5, Zenon DEF T, HasEveryKey

\* A list read backwards.
LEMMA ReverseTyped ==
    ASSUME NEW X, NEW s \in Seq(X)
    PROVE  Reverse(s) \in Seq(X)
<1> DEFINE r == [i \in 1..Len(s) |-> s[Len(s) - i + 1]]
<1>1. Reverse(s) = r  BY Zenon DEF Reverse
<1>2. r \in [1..Len(s) -> X] /\ Len(s) \in Nat  OBVIOUS
<1> HIDE DEF r
<1> QED BY <1>1, <1>2, LenOfFunction, Zenon

\* The rows that a list of plain words counts from, and their keys (_dynamic_word_list).
PlainKept(tokens, q) ==
    {g \in RowsOf(tokens, q.lang, q.tag, q.symbols) :
        /\ q.listMode = "stop" => NormalAt(tokens, g) \notin {Normal[t] : t \in q.listTerms}
        /\ q.listMode = "allow" => NormalAt(tokens, g) \in {Normal[t] : t \in q.listTerms}
        /\ Filtered(q, NormalAt(tokens, g))}
PlainKeys(tokens, q) == [g \in PlainKept(tokens, q) |-> WordKey(NormalAt(tokens, g))]

\* The entries of such a list, and its order.
DynamicEntries(tokens, q) == {e \in Tally(tokens, PlainKeys(tokens, q)) : Enough(e, q)}
DynamicSpot(q, e) == <<IF q.by = "end" THEN EndRank[Normal[e.key[1]]] ELSE Rank[Normal[e.key[1]]]>>
DynamicKey(q, e) == Ordering(e, q.by, DynamicSpot(q, e)) \o <<e.first>>
DynamicOrder(tokens, q) ==
    InKeyOrder(DynamicEntries(tokens, q), [e \in DynamicEntries(tokens, q) |-> DynamicKey(q, e)])

\* A list of words that are not told apart by case or tag.
Untagged(q) == q.display = "type" /\ ~q.case /\ q.tag = ""

\* A list that is counted shows the order of its entries, or that backwards.
LEMMA DynamicListed ==
    ASSUME NEW index, NEW q, Untagged(q)
    PROVE  DynamicWordList(index, q).rows =
                PageOf(IF q.invert THEN Reverse(DynamicOrder(index.tokens, q)) ELSE DynamicOrder(index.tokens, q),
                       q.page, q.size)
<1> DEFINE tokens == index.tokens
           Lexical(g) == IF q.display = "headword" THEN Lemma[tokens[g].word.text]
                         ELSE IF q.case THEN tokens[g].word.text ELSE NormalAt(tokens, g)
           UnitOf(g) == <<IF q.display = "headword" /\ ~q.case THEN Normal[Lexical(g)] ELSE Lexical(g),
                          IF q.display = "type_pos" THEN tokens[g].word.tag ELSE "">>
           rows == RowsOf(tokens, q.lang, q.tag, q.symbols)
           kept == {g \in rows :
                      /\ q.listMode = "stop" => NormalAt(tokens, g) \notin {Normal[t] : t \in q.listTerms}
                      /\ q.listMode = "allow" => NormalAt(tokens, g) \in {Normal[t] : t \in q.listTerms}
                      /\ Filtered(q, Lexical(g))}
           entries(keyOf) == {e \in Tally(tokens, keyOf) : Enough(e, q)}
           ordered(S) == InKeyOrder(S, [e \in S |-> DynamicKey(q, e)])
           keys == [g \in kept |-> UnitOf(g)]
           all(s) == IF q.invert THEN Reverse(s) ELSE s
           more == [tokens |-> Cardinality(rows)]
<1>1. DynamicWordList(index, q) = Extended(Listed(all(ordered(entries(keys))), q), more)
  BY Zenon DEF DynamicWordList, DynamicKey, DynamicSpot
<1>2. \A g : Lexical(g) = NormalAt(tokens, g)  BY Zenon DEF Untagged
<1> HIDE DEF Lexical
<1>3. \A g : UnitOf(g) = WordKey(NormalAt(tokens, g))
  <2> TAKE g
  <2> QED BY <1>2, Zenon DEF WordKey, Untagged
<1> HIDE DEF UnitOf
<1>4. kept = PlainKept(tokens, q)  BY <1>2, Zenon DEF PlainKept
<1> HIDE DEF kept
<1>5. keys = PlainKeys(tokens, q)  BY <1>3, <1>4, Zenon DEF PlainKeys
<1> HIDE DEF keys
<1>6. entries(keys) = DynamicEntries(tokens, q)  BY <1>5, Zenon DEF DynamicEntries
<1> HIDE DEF entries
<1>7. ordered(entries(keys)) = DynamicOrder(tokens, q)  BY <1>6, Zenon DEF DynamicOrder
<1> HIDE DEF ordered, all, more
<1> QED BY <1>1, <1>7, ListedRows, Zenon DEF all

\* The rows under the key of a word are all the rows of the word, which is wanted.
LEMMA PlainRows ==
    ASSUME NEW tokens, Tokens(tokens), NEW q, q.tag = "", NEW g \in PlainKept(tokens, q)
    PROVE  /\ Wanted(tokens, q, NormalAt(tokens, g))
           /\ Same(PlainKeys(tokens, q), WordKey(NormalAt(tokens, g))) = RowsOfWord(tokens, q.lang, NormalAt(tokens, g))
<1> DEFINE w == NormalAt(tokens, g)
           word == RowsOfWord(tokens, q.lang, w)
           keys == PlainKeys(tokens, q)
           kept == PlainKept(tokens, q)
           Fits0(h) == /\ q.listMode = "stop" => NormalAt(tokens, h) \notin {Normal[t] : t \in q.listTerms}
                       /\ q.listMode = "allow" => NormalAt(tokens, h) \in {Normal[t] : t \in q.listTerms}
                       /\ Filtered(q, NormalAt(tokens, h))
<1>1. \A h : h \in kept <=> /\ h \in DOMAIN tokens /\ tokens[h].word.lang = q.lang
                            /\ q.symbols \/ ~Symbolic(tokens, h)
                            /\ Fits0(h)
  BY Zenon DEF PlainKept, RowsOf
<1>2. \A h \in word : Fits0(h) <=> Fits0(g)
  <2> TAKE h \in word
  <2> QED BY Zenon DEF RowsOfWord
<1> HIDE DEF Fits0, w
<1>3. g \in word  BY <1>1, Zenon DEF RowsOfWord, w
<1>4. \A h \in word : Symbolic(tokens, h) <=> Symbolic(tokens, g)  BY <1>3, WordSymbols, Zenon
<1>5. \A h \in word : h \in kept
  <2> TAKE h \in word
  <2> QED BY <1>1, <1>4, <1>2, Zenon DEF RowsOfWord
<1>6. Wanted(tokens, q, w)  BY <1>1, <1>3, <1>4, Zenon DEF Wanted
<1>7. Same(keys, WordKey(w)) = word
  <2>1. \A h : WordKey(NormalAt(tokens, h)) = WordKey(w) <=> NormalAt(tokens, h) = w  BY WordKeys, Zenon
  <2> QED BY <1>1, <2>1, <1>5, Zenon DEF RowsOfWord, Same, PlainKeys
<1> QED BY <1>6, <1>7, Zenon DEF w

\* The place of an entry in a counted list.
LEMMA SpotTyped ==
    ASSUME NEW tokens, Tokens(tokens), NEW q, NEW w, Wanted(tokens, q, w), NEW e, e.key = WordKey(w)
    PROVE  DynamicSpot(q, e) \in Seq(Int) /\ Len(DynamicSpot(q, e)) = 1
<1> DEFINE n == IF q.by = "end" THEN EndRank[Normal[w]] ELSE Rank[Normal[w]]
<1>1. n \in Int  BY WantedPlaced, EndPlacesAssumption, Zenon
<1>2. DynamicSpot(q, e) = <<n>>  BY WordKeys, Zenon DEF DynamicSpot
<1> HIDE DEF n
<1>3. <<n>> \in Seq(Int) /\ Len(<<n>>) = 1  BY <1>1
<1> QED BY <1>2, <1>3, Zenon

\* An entry of a counted list: a word that is wanted, with all its rows.
DynamicEntry(tokens, q, e, w) ==
    /\ Wanted(tokens, q, w) /\ e.key = WordKey(w)
    /\ Same(PlainKeys(tokens, q), e.key) = RowsOfWord(tokens, q.lang, w)
    /\ Tallied(tokens, PlainKeys(tokens, q), e)

\* Every entry is one.
LEMMA EntriesOfPlain ==
    ASSUME NEW tokens, Tokens(tokens), NEW q, q.tag = "", NEW e \in Tally(tokens, PlainKeys(tokens, q))
    PROVE  \E w : DynamicEntry(tokens, q, e, w)
<1> DEFINE keys == PlainKeys(tokens, q)
<1>1. DOMAIN keys = PlainKept(tokens, q)  BY Zenon DEF PlainKeys
<1>2. Tallied(tokens, keys, e)  BY <1>1, TallyEntries, Zenon DEF PlainKept, RowsOf
<1>3. PICK g \in PlainKept(tokens, q) : e.key = WordKey(NormalAt(tokens, g))
  BY <1>1, <1>2, Zenon DEF PlainKeys, Tallied, Same
<1> QED BY <1>2, <1>3, PlainRows, Zenon DEF DynamicEntry

KeysApart(q, d, e) == DynamicKey(q, e) \in Seq(Int) /\ (DynamicKey(q, d) = DynamicKey(q, e) => d = e)

\* The key of an entry in a counted list is made of numbers, and is its own.
LEMMA DynamicKeys ==
    ASSUME NEW tokens, Tokens(tokens), NEW q, NEW d, NEW v, DynamicEntry(tokens, q, d, v),
           NEW e, NEW w, DynamicEntry(tokens, q, e, w)
    PROVE  KeysApart(q, d, e)
<1> DEFINE s == DynamicSpot(q, d)
           t == DynamicSpot(q, e)
           a == Ordering(d, q.by, s)
           b == Ordering(e, q.by, t)
           i == <<d.first>>
           j == <<e.first>>
           keys == PlainKeys(tokens, q)
<1>1. /\ Counting(d) /\ Counting(e) /\ d.first \in Nat /\ e.first \in Nat
      /\ d.first \in Same(keys, d.key) /\ e.first \in Same(keys, e.key)
      /\ d = TallyRow(tokens, keys, d.key) /\ e = TallyRow(tokens, keys, e.key)
  BY Zenon DEF DynamicEntry, Tallied
<1>2. s \in Seq(Int) /\ t \in Seq(Int) /\ Len(s) = Len(t)  BY SpotTyped, Zenon DEF DynamicEntry
<1>3. i \in Seq(Int) /\ j \in Seq(Int) /\ (i = j => d.first = e.first)  BY <1>1
<1> HIDE DEF s, t
<1>4. a \in Seq(Int) /\ b \in Seq(Int) /\ Len(a) = Len(b)
  <2>1. SameLength(a, b)  BY <1>1, <1>2, OrderingLength, Zenon
  <2> QED BY <2>1, <1>1, <1>2, OrderingTyped, Zenon DEF SameLength
<1>5. DynamicKey(q, d) = a \o i /\ DynamicKey(q, e) = b \o j  BY Zenon DEF DynamicKey, s, t
<1> HIDE DEF a, b, i, j
<1>6. ASSUME a \o i = b \o j PROVE d = e  BY <1>1, <1>3, <1>4, <1>6, ConcatParts, Zenon DEF Same
<1> QED BY <1>5, <1>3, <1>4, ConcatProperties, <1>6, Zenon DEF KeysApart

\* The rows of a counted list stand in order, and each counts a word.
LEMMA DynamicArranged ==
    ASSUME NEW index, Totalled(index), NEW q, q.tag = ""
    PROVE  /\ Arranges(DynamicOrder(index.tokens, q), DynamicEntries(index.tokens, q))
           /\ \A e \in DynamicEntries(index.tokens, q) : CountOfWord(index.tokens, q, e)
           /\ Cardinality(DynamicEntries(index.tokens, q)) <= Cardinality(DOMAIN index.totals)
<1> DEFINE tokens == index.tokens
           keys == PlainKeys(tokens, q)
           S == DynamicEntries(tokens, q)
           key == [e \in S |-> DynamicKey(q, e)]
           f == [e \in S |-> <<q.lang, e.key[1]>>]
           D == DOMAIN index.totals
<1>1. Tokens(tokens) /\ IsFiniteSet(D)  BY TotalsOfWords, Zenon DEF Totalled
<1>2. \A e \in S : \E w : DynamicEntry(tokens, q, e, w)  BY <1>1, EntriesOfPlain, Zenon DEF DynamicEntries
<1> HIDE DEF S
<1>3. \A e \in S : CountOfWord(tokens, q, e)
  <2> SUFFICES ASSUME NEW e \in S PROVE CountOfWord(tokens, q, e)
    BY Zenon
  <2>1. PICK w : DynamicEntry(tokens, q, e, w)  BY <1>2, Zenon
  <2> QED BY <2>1, Zenon DEF DynamicEntry, CountOfWord, Tallied
<1>4. \A d, e \in S : KeysApart(q, d, e)  BY <1>1, <1>2, DynamicKeys, Zenon
<1>5. /\ \A e \in S : <<q.lang, e.key[1]>> \in D
      /\ \A d, e \in S : <<q.lang, d.key[1]>> = <<q.lang, e.key[1]>> => d = e
  <2>1. \A e \in S : <<q.lang, e.key[1]>> \in D /\ e.key = WordKey(e.key[1]) /\ e = TallyRow(tokens, keys, e.key)
    <3> SUFFICES ASSUME NEW e \in S
                 PROVE <<q.lang, e.key[1]>> \in D /\ e.key = WordKey(e.key[1]) /\ e = TallyRow(tokens, keys, e.key)
      BY Zenon
    <3>1. PICK w : DynamicEntry(tokens, q, e, w)  BY <1>2, Zenon
    <3> QED BY <3>1, WordKeys, TotalsOfWords, Zenon DEF DynamicEntry, Wanted, Tallied
  <2>2. ASSUME NEW d \in S, NEW e \in S, <<q.lang, d.key[1]>> = <<q.lang, e.key[1]>> PROVE d = e
    <3>1. d.key[1] = e.key[1]  BY <2>2
    <3> QED BY <2>1, <3>1, Zenon
  <2> QED BY <2>1, <2>2, Zenon
<1> HIDE DEF D
<1>6. f \in Injection(S, D)
  <2>1. f \in [S -> D]  BY <1>5, Zenon
  <2>2. \A d, e \in S : f[d] = f[e] => d = e  BY <1>5, Zenon
  <2> HIDE DEF f
  <2> QED BY <2>1, <2>2, Zenon DEF Injection, IsInjective
<1>7. IsFiniteSet(S) /\ Cardinality(S) <= Cardinality(D)  BY <1>1, <1>6, FS_Injection, Zenon
<1>8. DOMAIN key = S /\ key = [x \in S |-> key[x]] /\ \A x \in S : key[x] = DynamicKey(q, x)  BY Zenon
<1> HIDE DEF key
<1>9. Keyed(S, key)
  <2>1. \A x \in S : key[x] \in Seq(Int)
    <3> TAKE x \in S
    <3> QED BY <1>4, <1>8, Zenon DEF KeysApart
  <2>2. \A x, y \in S : key[x] = key[y] => x = y
    <3> SUFFICES ASSUME NEW x \in S, NEW y \in S, key[x] = key[y] PROVE x = y
      BY Zenon
    <3>1. DynamicKey(q, x) = DynamicKey(q, y) /\ KeysApart(q, x, y)  BY <1>4, <1>8, Zenon
    <3> QED BY <3>1, Zenon DEF KeysApart
  <2> QED BY <2>1, <2>2, <1>7, <1>8, Zenon DEF Keyed
<1> QED BY <1>3, <1>7, <1>8, <1>9, KeyOrderArranges, Zenon DEF S, D, DynamicOrder

\* A counted list that leaves nothing out has every word that is wanted.
LEMMA DynamicHasAll ==
    ASSUME NEW tokens, Tokens(tokens), NEW q, q.tag = "", Unfiltered(q), q.listMode = "none", NEW w, Wanted(tokens, q, w)
    PROVE  \E e \in DynamicEntries(tokens, q) : e.key = WordKey(w)
<1> DEFINE keys == PlainKeys(tokens, q)
<1>1. DOMAIN keys = PlainKept(tokens, q)  BY Zenon DEF PlainKeys
<1>2. DOMAIN keys \subseteq DOMAIN tokens  BY <1>1, Zenon DEF PlainKept, RowsOf
<1>3. PICK g \in RowsOfWord(tokens, q.lang, w) : TRUE  BY Zenon DEF Wanted
<1>4. g \in DOMAIN tokens /\ tokens[g].word.lang = q.lang /\ NormalAt(tokens, g) = w  BY Zenon DEF RowsOfWord
<1>5. g \in PlainKept(tokens, q)  BY <1>4, <1>3, Zenon DEF PlainKept, Filtered, Unfiltered, RowsOf, Wanted
<1>6. keys[g] = WordKey(w)  BY <1>4, <1>5, Zenon DEF PlainKeys
<1> HIDE DEF keys
<1>7. HasEveryKey(Tally(tokens, keys), keys)  BY <1>2, TallyEntries, Zenon
<1>8. PICK e \in Tally(tokens, keys) : e.key = keys[g]  BY <1>1, <1>5, <1>7, Zenon DEF HasEveryKey
<1> QED BY <1>6, <1>8, <1>2, TallyEntries, Zenon DEF DynamicEntries, keys, Tallied, Enough, Unfiltered

\* The rows of a word list count words (word_list).
LEMMA WordListCounts ==
    ASSUME NEW index, Totalled(index), NEW q, WordsQuery(q), q.page >= 1, Untagged(q)
    PROVE  \A i \in DOMAIN WordList(index, q).rows : CountOfWord(index.tokens, q, WordList(index, q).rows[i])
<1> DEFINE tokens == index.tokens
           rows == WordList(index, q).rows
<1>1. q.tag = "" /\ q.page \in Nat \ {0} /\ q.size \in Nat \ {0}
  <2>1. q.page \in Int /\ q.size \in Nat \ {0}  BY Zenon DEF WordsQuery
  <2>2. q.page \in Nat \ {0}  BY <2>1
  <2> QED BY <2>1, <2>2, Zenon DEF Untagged
<1>2. \E S : rows \in Seq(S) /\ \A e \in S : CountOfWord(tokens, q, e)
  <2>1. CASE WordList(index, q) = DynamicWordList(index, q)
    <3> DEFINE S == DynamicEntries(tokens, q)
               ordered == DynamicOrder(tokens, q)
               all == IF q.invert THEN Reverse(ordered) ELSE ordered
    <3>1. rows = PageOf(all, q.page, q.size)  BY <2>1, DynamicListed, Zenon
    <3>2. Arranges(ordered, S) /\ \A e \in S : CountOfWord(tokens, q, e)  BY <1>1, DynamicArranged, Zenon
    <3> HIDE DEF S, ordered, rows
    <3>3. all \in Seq(S)  BY <3>2, ReverseTyped, Zenon DEF Arranges
    <3> HIDE DEF all
    <3> QED BY <3>2, <1>1, <3>1, <3>3, PageIsPart, Zenon
  <2>2. CASE WordList(index, q) = StaticWordList(index, q)
    <3> DEFINE S == StaticEntries(index, q)
               ordered == StaticOrder(index, q)
    <3>1. rows = PageOf(ordered, q.page, q.size)  BY <1>1, <2>2, StaticListed, Zenon
    <3>2. Arranges(ordered, S) /\ \A e \in S : CountOfWord(tokens, q, e)  BY StaticArranged, Zenon
    <3> HIDE DEF S, ordered, rows
    <3> QED BY <3>2, <1>1, <3>1, PageIsPart, Zenon DEF Arranges
  <2> QED BY <2>1, <2>2, Zenon DEF WordList
<1> HIDE DEF rows
<1>3. PICK S : rows \in Seq(S) /\ \A e \in S : CountOfWord(tokens, q, e)  BY <1>2, Zenon
<1>4. \A i \in DOMAIN rows : rows[i] \in S  BY <1>3
<1> QED BY <1>3, <1>4, Zenon DEF rows

\* The list of all words of a language on one page, from the highest frequency.
Listing(index, q) ==
    [q EXCEPT !.minFrequency = 1, !.minRange = 1, !.filter = "", !.page = 1, !.by = "frequency",
              !.size = Higher(1, Cardinality(DOMAIN index.totals)),
              !.invert = FALSE, !.listMode = "none", !.listTerms = {}]

\* What that list is asked for.
ListsAll(index, q, l) ==
    /\ Unfiltered(l) /\ Untagged(l) /\ l.page = 1 /\ ~l.invert /\ l.listMode = "none" /\ l.listTerms = {}
    /\ l.size \in Nat \ {0} /\ Cardinality(DOMAIN index.totals) <= l.size
    /\ l.lang = q.lang /\ l.symbols = q.symbols

\* It is asked for all words.
LEMMA ListingListsAll ==
    ASSUME NEW index, Totalled(index), NEW q, WordsQuery(q), Untagged(q)
    PROVE  ListsAll(index, q, Listing(index, q))
<1> DEFINE blank == ""
           n == Cardinality(DOMAIN index.totals)
           size == Higher(1, n)
           l == [q EXCEPT !.minFrequency = 1, !.minRange = 1, !.filter = blank, !.page = 1, !.by = "frequency",
                          !.size = size, !.invert = FALSE, !.listMode = "none", !.listTerms = {}]
<1>1. l = Listing(index, q)  BY Zenon DEF Listing
<1>2. n \in Nat  BY TotalsOfWords, FS_CardinalityType, Zenon
<1>3. WordsFields \subseteq DOMAIN q  BY Zenon DEF WordsQuery
<1> HIDE DEF blank, n
<1>4. size \in Nat \ {0} /\ n <= size  BY <1>2 DEF Higher
<1> HIDE DEF size
<1>5. /\ l.minFrequency = 1 /\ l.minRange = 1 /\ l.filter = blank /\ l.page = 1 /\ l.size = size /\ l.invert = FALSE
      /\ l.listMode = "none" /\ l.listTerms = {}
      /\ l.lang = q.lang /\ l.symbols = q.symbols /\ l.tag = q.tag /\ l.display = q.display /\ l.case = q.case
  BY <1>3 DEF WordsFields
<1> HIDE DEF l
<1> QED BY <1>1, <1>4, <1>5, Zenon DEF ListsAll, n, Unfiltered, Untagged, blank

-----------------------------------------------------------------------------
(* The frequency of a word in every list *)

\* A list of all words, stored or counted, holds the frequency of every word that is wanted.
LEMMA ListsHoldWord ==
    ASSUME NEW index, Totalled(index), NEW q, NEW l, ListsAll(index, q, l), NEW w, Wanted(index.tokens, q, w),
           NEW n, n = Cardinality(RowsOfWord(index.tokens, q.lang, w))
    PROVE  /\ HoldsCount(StaticWordList(index, l).rows, WordKey(w), n)
           /\ HoldsCount(DynamicWordList(index, l).rows, WordKey(w), n)
<1> DEFINE tokens == index.tokens
<1>1. /\ Unfiltered(l) /\ Untagged(l) /\ l.page = 1 /\ ~l.invert /\ l.listMode = "none" /\ l.tag = ""
      /\ l.size \in Nat \ {0} /\ l.size \in Nat /\ Cardinality(DOMAIN index.totals) <= l.size
      /\ l.lang = q.lang /\ l.symbols = q.symbols
  BY Zenon DEF ListsAll, Untagged
<1>2. Tokens(tokens) /\ Wanted(tokens, l, w) /\ n = Cardinality(RowsOfWord(tokens, l.lang, w))
  BY <1>1, Zenon DEF Totalled, Wanted
<1>3. HoldsCount(StaticWordList(index, l).rows, WordKey(w), n)
  <2> DEFINE S == StaticEntries(index, l)
             ordered == StaticOrder(index, l)
  <2>1. /\ Arranges(ordered, S) /\ \A e \in S : CountOfWord(tokens, l, e)
        /\ Cardinality(S) <= Cardinality(DOMAIN index.totals)
    BY StaticArranged, Zenon
  <2>2. \E e \in S : e.key = WordKey(w)  BY <1>1, <1>2, StaticHasAll, Zenon
  <2>3. StaticWordList(index, l).rows = PageOf(ordered, 1, l.size)  BY <1>1, StaticListed, Zenon
  <2> HIDE DEF S, ordered
  <2>4. ordered \in Seq(S) /\ Len(ordered) <= l.size
    <3>1. ordered \in Seq(S) /\ Len(ordered) = Cardinality(S) /\ Cardinality(S) \in Nat
      BY <2>1, Zenon DEF Arranges
    <3>2. \A a, b, c \in Nat : a <= b /\ b <= c => a <= c  OBVIOUS
    <3> QED BY <3>1, TotalsOfWords, FS_CardinalityType, <1>1, <2>1, <3>2, Zenon
  <2>5. HoldsCount(ordered, WordKey(w), Cardinality(RowsOfWord(tokens, l.lang, w)))
    BY <2>1, <2>2, WordListed, Zenon
  <2> QED BY <1>2, <2>3, <1>1, <2>4, PageOfAll, <2>5, Zenon
<1>4. HoldsCount(DynamicWordList(index, l).rows, WordKey(w), n)
  <2> DEFINE S == DynamicEntries(tokens, l)
             ordered == DynamicOrder(tokens, l)
  <2>1. /\ Arranges(ordered, S) /\ \A e \in S : CountOfWord(tokens, l, e)
        /\ Cardinality(S) <= Cardinality(DOMAIN index.totals)
    BY <1>1, DynamicArranged, Zenon
  <2>2. \E e \in S : e.key = WordKey(w)  BY <1>1, <1>2, DynamicHasAll, Zenon
  <2>3. DynamicWordList(index, l).rows = PageOf(ordered, 1, l.size)  BY <1>1, DynamicListed, Zenon
  <2> HIDE DEF S, ordered
  <2>4. ordered \in Seq(S) /\ Len(ordered) <= l.size
    <3>1. ordered \in Seq(S) /\ Len(ordered) = Cardinality(S) /\ Cardinality(S) \in Nat
      BY <2>1, Zenon DEF Arranges
    <3>2. \A a, b, c \in Nat : a <= b /\ b <= c => a <= c  OBVIOUS
    <3> QED BY <3>1, TotalsOfWords, FS_CardinalityType, <1>1, <2>1, <3>2, Zenon
  <2>5. HoldsCount(ordered, WordKey(w), Cardinality(RowsOfWord(tokens, l.lang, w)))
    BY <2>1, <2>2, WordListed, Zenon
  <2> QED BY <1>2, <2>3, <1>1, <2>4, PageOfAll, <2>5, Zenon
<1> QED BY <1>3, <1>4, Zenon

\* The words of a cloud that leaves nothing out.
CloudWords(index, l) == {k[2] : k \in StaticKept(index, l)}
CloudOrder(index, l) ==
    InKeyOrder(CloudWords(index, l),
               [s \in CloudWords(index, l) |-> <<0 - index.totals[<<l.lang, s>>].frequency, Rank[s]>>])

\* A word cloud draws these words in their order.
CloudDrawn(index, l) ==
    Wordcloud(index, l).rows =
        [i \in 1..Lower(l.size, Len(CloudOrder(index, l))) |->
            [key |-> CloudOrder(index, l)[i],
             frequency |-> index.totals[<<l.lang, CloudOrder(index, l)[i]>>].frequency]]

\* A word cloud of all words does (wordcloud).
LEMMA CloudListed ==
    ASSUME NEW index, Totalled(index), NEW l, Unfiltered(l), l.listTerms = {}
    PROVE  CloudDrawn(index, l)
<1> DEFINE shown == {k \in DOMAIN index.totals : k[1] = l.lang /\ (l.symbols \/ ~index.totals[k].symbol)}
           all == {k[2] : k \in shown}
           words == {s \in DOMAIN Snapshot(index, l) : index.totals[<<l.lang, s>>].frequency >= l.minFrequency}
           kept == {s \in words : s \notin {Normal[t] : t \in l.listTerms}}
           Order(S) == InKeyOrder(S, [s \in S |-> <<0 - index.totals[<<l.lang, s>>].frequency, Rank[s]>>])
           Rows(s) == [i \in 1..Lower(l.size, Len(s)) |->
                          [key |-> s[i], frequency |-> index.totals[<<l.lang, s[i]>>].frequency]]
           cloud == [rows |-> Rows(Order(kept)), total |-> Lower(l.size, Len(Order(kept))),
                     excluded |-> Cardinality(words) - Cardinality(kept)]
<1>1. Wordcloud(index, l) = cloud  BY Zenon DEF Wordcloud
<1>2. cloud.rows = Rows(Order(kept))
  <2> HIDE DEF Rows, Order, kept, words
  <2> QED OBVIOUS
<1>3. DOMAIN Snapshot(index, l) = all  BY Zenon DEF Snapshot
<1>4. shown = StaticKept(index, l)
  <2>1. \A k \in StaticKept(index, l) : k \in shown  BY Zenon DEF StaticKept
  <2>2. ASSUME NEW k \in shown PROVE k \in StaticKept(index, l)
    <3> DEFINE rows == RowsOfWord(index.tokens, k[1], k[2])
    <3>1. k = <<k[1], k[2]>> /\ index.totals[k] = Counted(index.tokens, rows)  BY TotalsOfWords, Zenon
    <3>2. rows # {} /\ rows \in SUBSET (DOMAIN index.tokens) /\ Tokens(index.tokens)
      <4>1. rows # {}  BY TotalsOfWords, Zenon
      <4> HIDE DEF rows
      <4>2. Tokens(index.tokens)  BY Zenon DEF Totalled
      <4> QED BY <4>1, <4>2, Zenon DEF rows, RowsOfWord
    <3> QED BY <3>2, <3>1, RowsCounted, Zenon DEF StaticKept, CountsRows, Enough, Filtered, Unfiltered
  <2> HIDE DEF shown
  <2> QED BY <2>1, <2>2, Zenon
<1>5. kept = CloudWords(index, l)
  <2>1. all = CloudWords(index, l)
    <3> HIDE DEF shown
    <3> QED BY <1>4, Zenon DEF CloudWords
  <2>2. \A s \in all : index.totals[<<l.lang, s>>].frequency >= l.minFrequency
    <3> SUFFICES ASSUME NEW k \in StaticKept(index, l)
                 PROVE index.totals[<<l.lang, k[2]>>].frequency >= l.minFrequency
      BY <2>1, Zenon DEF CloudWords
    <3>1. StaticCount(index, l, k)  BY StaticCounts, Zenon
    <3> QED BY <3>1, Zenon DEF Enough, StaticKept, StaticCount
  <2> HIDE DEF all
  <2> QED BY <2>1, <1>3, <2>2, Zenon
<1>6. Order(kept) = CloudOrder(index, l)
  <2> HIDE DEF kept
  <2> QED BY <1>5, Zenon DEF CloudOrder
<1>7. Wordcloud(index, l).rows = Rows(CloudOrder(index, l))
  <2> HIDE DEF Rows, Order, kept, cloud
  <2> QED BY <1>1, <1>2, <1>6, Zenon
<1> QED BY <1>7, Zenon DEF CloudDrawn

\* Two words of a cloud that are as frequent stand where their places are.
CloudKey(index, l, s) == <<0 - index.totals[<<l.lang, s>>].frequency, Rank[s]>>

\* A word of a cloud and its count.
CloudCount(index, l, s) ==
    /\ Wanted(index.tokens, l, s)
    /\ index.totals[<<l.lang, s>>].frequency = Cardinality(RowsOfWord(index.tokens, l.lang, s))
    /\ CloudKey(index, l, s) \in Seq(Int)
    /\ CloudKey(index, l, s)[2] = Rank[s]

\* Every word of a cloud is counted.
LEMMA CloudCounts ==
    ASSUME NEW index, Totalled(index), NEW l, NEW s \in CloudWords(index, l)
    PROVE  CloudCount(index, l, s)
<1> DEFINE tokens == index.tokens
           rows == RowsOfWord(tokens, l.lang, s)
           f == index.totals[<<l.lang, s>>].frequency
<1>1. PICK k \in StaticKept(index, l) : k[2] = s  BY Zenon DEF CloudWords
<1>2. StaticCount(index, l, k)  BY StaticCounts, Zenon
<1>3. Wanted(tokens, l, s) /\ index.totals[<<l.lang, s>>] = Counted(tokens, rows)
  BY <1>1, <1>2, Zenon DEF StaticCount
<1>4. Tokens(tokens) /\ rows \in SUBSET (DOMAIN tokens)  BY Zenon DEF Totalled, RowsOfWord
<1>5. CountsRows(index.totals[<<l.lang, s>>], tokens, rows)  BY <1>3, <1>4, RowsCounted, Zenon
<1>6. f = Cardinality(rows) /\ f \in Nat /\ Rank[s] \in Int
  BY <1>3, <1>4, <1>5, WantedPlaced, Zenon DEF CountsRows, Counting
<1> HIDE DEF f
<1>7. <<0 - f, Rank[s]>> \in Seq(Int) /\ <<0 - f, Rank[s]>>[2] = Rank[s]  BY <1>6
<1> QED BY <1>3, <1>6, <1>7, Zenon DEF CloudCount, f, CloudKey

\* The words of a cloud stand in order, and they are not more than the totals.
LEMMA CloudArranged ==
    ASSUME NEW index, Totalled(index), NEW l
    PROVE  /\ Arranges(CloudOrder(index, l), CloudWords(index, l))
           /\ Cardinality(CloudWords(index, l)) <= Cardinality(DOMAIN index.totals)
<1> DEFINE tokens == index.tokens
           J == StaticKept(index, l)
           S == CloudWords(index, l)
           f == [k \in J |-> k[2]]
           key == [s \in S |-> CloudKey(index, l, s)]
<1>1. IsFiniteSet(DOMAIN index.totals) /\ J \subseteq DOMAIN index.totals
  BY TotalsOfWords, Zenon DEF StaticKept
<1>2. IsFiniteSet(J) /\ Cardinality(J) <= Cardinality(DOMAIN index.totals)  BY <1>1, FS_Subset, Zenon
<1>3. Image(S, f, J)  BY Zenon DEF Image, CloudWords
<1>4. \A s \in S : CloudCount(index, l, s)  BY CloudCounts, Zenon
<1>5. Tokens(tokens)  BY Zenon DEF Totalled
<1> HIDE DEF J, f
<1>6. IsFiniteSet(S) /\ Cardinality(S) <= Cardinality(J)  BY <1>2, <1>3, ImageFinite, ImageSmaller, Zenon
<1>7. Cardinality(S) <= Cardinality(DOMAIN index.totals)
  <2>1. Cardinality(S) \in Nat /\ Cardinality(J) \in Nat /\ Cardinality(DOMAIN index.totals) \in Nat
    BY <1>1, <1>2, <1>6, FS_CardinalityType, Zenon
  <2> QED BY <2>1, <1>2, <1>6
<1>8. CloudOrder(index, l) = InKeyOrder(S, key)  BY Zenon DEF CloudOrder, CloudKey
<1> HIDE DEF S
<1>9. DOMAIN key = S /\ key = [x \in S |-> key[x]] /\ \A x \in S : key[x] = CloudKey(index, l, x)  BY Zenon
<1> HIDE DEF key
<1>10. \A s \in S : key[s] \in Seq(Int)  BY <1>4, <1>9, Zenon DEF CloudCount
<1>11. ASSUME NEW s \in S, NEW t \in S, key[s] = key[t] PROVE s = t
  <2>1. CloudKey(index, l, s) = CloudKey(index, l, t)  BY <1>9, <1>11, Zenon
  <2>2. Rank[s] = Rank[t] /\ Wanted(tokens, l, s) /\ Wanted(tokens, l, t)  BY <1>4, <2>1, Zenon DEF CloudCount
  <2> QED BY <1>5, <2>2, WantedPlaced, Zenon
<1>12. Keyed(S, key)  BY <1>6, <1>9, <1>10, <1>11, Zenon DEF Keyed
<1> QED BY <1>7, <1>8, <1>9, <1>12, KeyOrderArranges, Zenon DEF S

\* A cloud of all words holds the frequency of every word that is wanted.
LEMMA CloudHoldsWord ==
    ASSUME NEW index, Totalled(index), NEW q, NEW l, ListsAll(index, q, l), NEW w, Wanted(index.tokens, q, w),
           NEW n, n = Cardinality(RowsOfWord(index.tokens, q.lang, w))
    PROVE  HoldsCount(Wordcloud(index, l).rows, w, n)
<1> DEFINE tokens == index.tokens
           S == CloudWords(index, l)
           ordered == CloudOrder(index, l)
           rows == Wordcloud(index, l).rows
           Freq(s) == index.totals[<<l.lang, s>>].frequency
           k == <<l.lang, w>>
<1>1. /\ Unfiltered(l) /\ l.listTerms = {} /\ l.size \in Nat /\ Cardinality(DOMAIN index.totals) <= l.size
      /\ l.lang = q.lang /\ l.symbols = q.symbols
  BY Zenon DEF ListsAll
<1>2. Tokens(tokens) /\ Wanted(tokens, l, w) /\ n = Cardinality(RowsOfWord(tokens, l.lang, w))
  BY <1>1, Zenon DEF Totalled, Wanted
<1>3. Arranges(ordered, S) /\ Cardinality(S) <= Cardinality(DOMAIN index.totals)  BY CloudArranged, Zenon
<1>4. \A s \in S : CloudCount(index, l, s)  BY CloudCounts, Zenon
<1>5. rows = [i \in 1..Lower(l.size, Len(ordered)) |-> [key |-> ordered[i], frequency |-> Freq(ordered[i])]]
  <2>1. CloudDrawn(index, l)  BY <1>1, CloudListed, Zenon
  <2> QED BY <2>1, Zenon DEF CloudDrawn
<1>6. w \in S
  <2>1. PICK e \in StaticEntries(index, l) : e.key = WordKey(w)  BY <1>1, <1>2, StaticHasAll, Zenon
  <2>2. PICK j \in StaticKept(index, l) : e = StaticRow(index, j)  BY Zenon DEF StaticEntries
  <2>3. StaticRow(index, j).key = WordKey(j[2])  BY StaticCounts, Zenon DEF StaticCount
  <2>4. j[2] = w  BY <2>1, <2>2, <2>3, WordKeys, Zenon
  <2> QED BY <2>4, Zenon DEF CloudWords
<1> HIDE DEF S, ordered, rows
<1>7. /\ ordered \in Seq(S) /\ Len(ordered) = Cardinality(S) /\ Cardinality(S) \in Nat
      /\ \A x \in S : \E i \in 1..Len(ordered) : ordered[i] = x
  BY <1>3, Zenon DEF Arranges
<1>8. Lower(l.size, Len(ordered)) = Len(ordered)
  <2>1. Cardinality(DOMAIN index.totals) \in Nat  BY TotalsOfWords, FS_CardinalityType, Zenon
  <2>2. \A a, b, c \in Nat : a <= b /\ b <= c => Lower(c, a) = a  BY DEF Lower
  <2> QED BY <1>1, <1>3, <1>7, <2>1, <2>2, Zenon
<1>9. /\ DOMAIN rows = 1..Len(ordered)
      /\ \A i \in 1..Len(ordered) : rows[i].key = ordered[i] /\ rows[i].frequency = Freq(ordered[i])
  <2> HIDE DEF Freq
  <2> QED BY <1>5, <1>8
<1>10. \A i \in DOMAIN rows : rows[i].key = w => rows[i].frequency = n
  <2> SUFFICES ASSUME NEW i \in DOMAIN rows, rows[i].key = w PROVE rows[i].frequency = n
    BY Zenon
  <2>1. Freq(w) = n  BY <1>2, <1>4, <1>6, Zenon DEF CloudCount
  <2> QED BY <1>9, <2>1, Zenon
<1>11. PICK i \in DOMAIN rows : rows[i].key = w
  <2>1. PICK j \in 1..Len(ordered) : ordered[j] = w  BY <1>6, <1>7, Zenon
  <2>2. j \in DOMAIN rows  BY <1>9, <2>1, Zenon
  <2>3. rows[j].key = w  BY <1>9, <2>1, Zenon
  <2> QED BY <2>2, <2>3, Zenon
<1>12. Frequencies(rows, w) = {n}  BY <1>10, <1>11, Zenon DEF Frequencies
<1> QED BY <1>12, Zenon DEF HoldsCount, rows

-----------------------------------------------------------------------------
(* The concordance of a word *)

\* The concordance of a word that its query takes as it stands.
TakesWord(lang, w) == (w \in DOMAIN Compound => lang = "zh") /\ w \notin DOMAIN Pattern

\* The matches of a word are its rows.
LEMMA MatchesOfWord ==
    ASSUME NEW tokens, Tokens(tokens), NEW lang, NEW w, w \notin DOMAIN Pattern, Normal[w] = w
    PROVE  Cardinality(Matches(tokens, lang, <<Matcher(w, WordQuery(w, lang))>>, "")) = Cardinality(RowsOfWord(tokens, lang, w))
<1> DEFINE q == WordQuery(w, lang)
           m == Matcher(w, q)
           matchers == <<m>>
           rows == RowsOfWord(tokens, lang, w)
           found == Matches(tokens, lang, matchers, "")
           f == [g \in rows |-> MatchOf(tokens, g, 1)]
<1>1. m.term = w /\ m.whole = TRUE /\ m.case = FALSE  BY DEF Matcher, WordQuery
<1>2. Len(matchers) = 1 /\ DOMAIN matchers = {1} /\ matchers[1] = m  OBVIOUS
<1> HIDE DEF m, matchers, q
<1>3. ASSUME NEW text PROVE Accepts(m, text) <=> Normal[text] = w  BY <1>1, Zenon DEF Accepts, Seen
<1>4. ASSUME NEW h \in DOMAIN tokens
      PROVE  (\A i \in DOMAIN matchers : \E k \in Beside(tokens, h, i - 1) : Accepts(matchers[i], tokens[k].word.text))
                  <=> NormalAt(tokens, h) = w
  <2>1. 1 - 1 = 0  OBVIOUS
  <2>2. Beside(tokens, h, 1 - 1) = {h}  BY <2>1, BesideIsOne, Zenon
  <2> QED BY <1>2, <1>3, <2>2, Zenon DEF NormalAt
<1>5. \A x : x \in found <=> \E g \in rows : x = MatchOf(tokens, g, 1)
  <2> DEFINE starts == {h \in DOMAIN tokens :
                          /\ tokens[h].word.lang = lang
                          /\ "" # "" => tokens[h].word.tag = ""
                          /\ \A i \in DOMAIN matchers : \E k \in Beside(tokens, h, i - 1) :
                                  Accepts(matchers[i], tokens[k].word.text)}
  <2>1. found = {MatchOf(tokens, g, Len(matchers)) : g \in starts}  BY Zenon DEF Matches
  <2>2. \A g : g \in starts <=> g \in rows  BY <1>4, Zenon DEF RowsOfWord
  <2> HIDE DEF starts, rows, found
  <2> QED BY <1>2, <2>1, <2>2, Zenon
<1>6. IsFiniteSet(rows)  BY TokensFinite, FS_Subset, Zenon DEF RowsOfWord
<1>7. \A g : MatchOf(tokens, g, 1).row = g  BY DEF MatchOf
<1> HIDE DEF rows, found
<1>8. f \in [rows -> found] /\ \A g \in rows : f[g] = MatchOf(tokens, g, 1)  BY <1>5, Zenon
<1> HIDE DEF f
<1>8a. f \in [rows -> found]  BY <1>8, Zenon
<1>9. \A g, h \in rows : f[g] = f[h] => g = h
  <2>1. \A g \in rows : f[g].row = g  BY <1>7, <1>8, Zenon
  <2> QED BY <2>1, Zenon
<1>10. \A x \in found : \E g \in rows : f[g] = x  BY <1>5, <1>8, Zenon
<1> QED BY <1>6, <1>8a, <1>9, <1>10, CountedAlike, Zenon DEF found, rows, matchers, m, q

\* What the concordance of a word counts.
TotalIs(answer, n) == ~IsError(answer) => answer.total = n

\* It counts the rows of the word (KwicSearchEngine.search).
LEMMA ConcordanceOfWord ==
    ASSUME NEW index, Tokens(index.tokens), NEW lang, NEW w, TakesWord(lang, w), Normal[w] = w,
           RowsOfWord(index.tokens, lang, w) # {}
    PROVE  TotalIs(SearchSimple(index, WordQuery(w, lang)), Cardinality(RowsOfWord(index.tokens, lang, w)))
<1> DEFINE q == WordQuery(w, lang)
           tokens == index.tokens
           n == Cardinality(RowsOfWord(tokens, lang, w))
           matchers == CompileQuery(q.terms, q)
           whole == <<Matcher(w, q)>>
           resolved == ResolvedTerms(tokens, q, q.terms)
           found == Matches(tokens, q.lang, resolved, q.tag)
           answer == SearchSimple(index, q)
<1>1. /\ q.terms = <<w>> /\ q.lang = lang /\ q.tag = "" /\ q.sample = 0 /\ q.whole = TRUE
      /\ q.terms[1] = w /\ Len(q.terms) = 1
  BY DEF WordQuery
<1> HIDE DEF q
<1> SUFFICES ASSUME ~IsError(answer) PROVE answer.total = n
  BY Zenon DEF TotalIs, q
<1>2. matchers # <<>> /\ answer.total = Cardinality(found)
  <2> DEFINE keys == NormalizeSortKeys(q.sort)
             sampled == Sample(found, q)
             ordered == Sorted(tokens, found, DOMAIN tokens, keys, q.order, TRUE)
             shown == IF q.sample = 0 THEN PageOf(ordered, q.page, q.size)
                      ELSE IF keys = <<>> THEN SampleOrder(sampled, q)
                      ELSE Sorted(tokens, sampled, Context(tokens, sampled, 5), keys, q.order, FALSE)
             total == IF q.sample > 0 THEN Len(shown) ELSE Cardinality(found)
             counted == IF keys # <<>> /\ q.sample = 0 THEN found ELSE ToSet(shown)
             page == PageAnswer(tokens, q, keys, shown, total, Cardinality(found), counted)
  <2>1. answer = IF ~ValidOptions(q) \/ matchers = <<>> THEN QueryError ELSE page  BY Zenon DEF SearchSimple
  <2>2. IsError(QueryError)  BY DEF IsError, QueryError
  <2>3. total = Cardinality(found)
    <3>0. ~(0 > 0)  OBVIOUS
    <3> QED BY <1>1, <3>0, Zenon
  <2> HIDE DEF keys, sampled, ordered, shown, total, counted, found, matchers, answer
  <2>4. page.total = total  BY DEF PageAnswer
  <2> HIDE DEF page
  <2> QED BY <2>1, <2>2, <2>3, <2>4, Zenon
<1>3. Cardinality(Matches(tokens, lang, whole, "")) = n  BY MatchesOfWord, Zenon DEF TakesWord, q
<1>4. Matches(tokens, lang, whole, "") # {}
  <2>1. n # 0 /\ n = Cardinality(RowsOfWord(tokens, lang, w))
    BY TokensFinite, FS_Subset, FS_EmptySet, Zenon DEF RowsOfWord
  <2> QED BY <1>3, <2>1, FS_EmptySet, Zenon
<1>5. resolved = whole
  <2>1. resolved = IF /\ q.lang = "zh" /\ q.whole
                      /\ Len(q.terms) = 1 /\ q.terms[1] \notin DOMAIN Pattern
                      /\ Matches(tokens, q.lang, <<Matcher(q.terms[1], q)>>, q.tag) # {}
                   THEN <<Matcher(q.terms[1], q)>> ELSE matchers
    BY Zenon DEF ResolvedTerms
  <2>2. CASE lang = "zh"  BY <1>1, <1>4, <2>1, <2>2, Zenon DEF TakesWord
  <2>3. CASE lang # "zh"
    <3>1. Segmented(<<w>>) = <<w>>  BY <2>3, TokenizedWord, Zenon DEF Segmented, TakesWord
    <3>2. matchers = [i \in DOMAIN <<w>> |-> Matcher(<<w>>[i], q)]  BY <1>2, <1>1, <3>1, Zenon DEF CompileQuery
    <3> HIDE DEF matchers, resolved
    <3>3. matchers = [i \in {1} |-> Matcher(w, q)]  BY <3>2
    <3>4. [i \in {1} |-> Matcher(w, q)] = <<Matcher(w, q)>>  OBVIOUS
    <3> QED BY <1>1, <2>1, <2>3, <3>3, <3>4, Zenon
  <2> QED BY <2>2, <2>3, Zenon
<1> HIDE DEF resolved, matchers, whole, answer, n
<1> QED BY <1>1, <1>2, <1>3, <1>5, Zenon

-----------------------------------------------------------------------------
(* Counts in one sequence of sequences after the other *)

\* The elements of P that have their place in s.
Placed(P, place, s) == {x \in P : place[x] \in s}

InParts(P, place, s, k) ==
    Cardinality(Placed(P, place, s)) = Cardinality(Placed(P, place, s \ {k})) + Cardinality(Placed(P, place, {k}))

\* What is at some places is what is at one of them and what is at the others.
LEMMA PlacedInParts ==
    ASSUME NEW P, IsFiniteSet(P), NEW place, NEW s, NEW k \in s
    PROVE  InParts(P, place, s, k)
<1> DEFINE all == Placed(P, place, s)
           rest == Placed(P, place, s \ {k})
           one == Placed(P, place, {k})
<1>1. all = rest \cup one /\ rest \cap one = {} /\ all \subseteq P /\ rest \subseteq P /\ one \subseteq P
  BY DEF Placed
<1> HIDE DEF all, rest, one
<1>2. IsFiniteSet(rest) /\ IsFiniteSet(one) /\ IsFiniteSet(all)  BY <1>1, FS_Subset, Zenon
<1>3. Cardinality(rest \cap one) = 0  BY <1>1, FS_EmptySet, Zenon
<1>4. Cardinality(rest) \in Nat /\ Cardinality(one) \in Nat /\ Cardinality(all) \in Nat
  BY <1>2, FS_CardinalityType, Zenon
<1>5. Cardinality(all) = Cardinality(rest) + Cardinality(one) - 0  BY <1>1, <1>2, FS_Union, <1>3, Zenon
<1>6. Cardinality(all) = Cardinality(rest) + Cardinality(one)  BY <1>4, <1>5
<1> QED BY <1>6, Zenon DEF InParts, all, rest, one

\* The sums over the subsets of S, one element after the other.
SumsUp(iter, S, f, pick) ==
    /\ iter[{}] = 0
    /\ \A s \in SUBSET S : s # {} => iter[s] = iter[s \ {pick[s]}] + f[pick[s]]

\* Numbers that count what is at each place of S.
CountsPlaces(S, f, pick, P, place) ==
    /\ IsFiniteSet(S) /\ IsFiniteSet(P) /\ \A x \in P : place[x] \in S
    /\ \A k \in S : f[k] = Cardinality(Placed(P, place, {k}))
    /\ \A s \in SUBSET S : s # {} => pick[s] \in s

\* How many are at the places of every subset.
PlacedCounts(S, P, place) == [s \in SUBSET S |-> Cardinality(Placed(P, place, s))]

\* These counts are such sums.
LEMMA CountsSumUp ==
    ASSUME NEW S, NEW f, NEW pick, NEW P, NEW place, CountsPlaces(S, f, pick, P, place)
    PROVE  SumsUp(PlacedCounts(S, P, place), S, f, pick)
<1> DEFINE g == PlacedCounts(S, P, place)
<1>1. g[{}] = 0
  <2>1. {} \in SUBSET S /\ Placed(P, place, {}) = {}  BY DEF Placed
  <2> QED BY <2>1, FS_EmptySet, Zenon DEF PlacedCounts
<1>2. ASSUME NEW s \in SUBSET S, s # {} PROVE g[s] = g[s \ {pick[s]}] + f[pick[s]]
  <2> DEFINE k == pick[s]
  <2>1. k \in s /\ k \in S /\ s \ {k} \in SUBSET S
    <3>1. k \in s  BY <1>2, Zenon DEF CountsPlaces
    <3> QED BY <3>1
  <2> HIDE DEF k
  <2>2. Cardinality(Placed(P, place, s)) =
          Cardinality(Placed(P, place, s \ {k})) + Cardinality(Placed(P, place, {k}))
    <3>1. InParts(P, place, s, k)  BY <2>1, PlacedInParts, Zenon DEF CountsPlaces
    <3> QED BY <3>1, Zenon DEF InParts
  <2> QED BY <2>2, <2>1, Zenon DEF k, CountsPlaces, PlacedCounts
<1> QED BY <1>1, <1>2, Zenon DEF SumsUp

\* The same, as far as the sums are numbers.
SumsWithin(iter, S, f, pick) ==
    /\ iter[{}] = 0
    /\ \A s \in SUBSET S : s # {} /\ iter[s \ {pick[s]}] \in Nat => iter[s] = iter[s \ {pick[s]}] + f[pick[s]]

SumsTo(iter, S, P) == iter[S] = Cardinality(P)

\* There are no others: the sum over S counts P.
LEMMA SumCounts ==
    ASSUME NEW S, NEW f, NEW pick, NEW P, NEW place, CountsPlaces(S, f, pick, P, place),
           NEW iter, SumsWithin(iter, S, f, pick)
    PROVE  SumsTo(iter, S, P)
<1> DEFINE g == PlacedCounts(S, P, place)
           T == {Cardinality(s) : s \in {t \in SUBSET S : iter[t] # g[t]}}
<1>1. SumsUp(g, S, f, pick)  BY CountsSumUp, Zenon
<1>2. IsFiniteSet(S) /\ IsFiniteSet(P) /\ \A x \in P : place[x] \in S  BY Zenon DEF CountsPlaces
<1>3. \A s \in SUBSET S : IsFiniteSet(s) /\ Cardinality(s) \in Nat
  BY <1>2, FS_Subset, FS_CardinalityType, Zenon
<1> HIDE DEF g
<1>4. ASSUME T # {} PROVE FALSE
  <2>1. T \subseteq Nat  BY <1>3
  <2>2. PICK c \in T : \A j \in T : c <= j
    <3> HIDE DEF T
    <3> QED BY <1>4, <2>1, LeastNumber
  <2>3. PICK s \in SUBSET S : iter[s] # g[s] /\ c = Cardinality(s)  BY <2>2
  <2>4. s # {}  BY <1>1, <2>3, Zenon DEF SumsUp, SumsWithin
  <2> DEFINE k == pick[s]
  <2>5. k \in s /\ s \ {k} \in SUBSET S
    <3>1. k \in s  BY <2>4, Zenon DEF CountsPlaces
    <3> QED BY <3>1
  <2>6. g[s] = g[s \ {k}] + f[k] /\ (iter[s \ {k}] \in Nat => iter[s] = iter[s \ {k}] + f[k])
    BY <1>1, <2>4, Zenon DEF SumsUp, SumsWithin
  <2> HIDE DEF k
  <2>6a. g[s \ {k}] \in Nat
    <3>1. IsFiniteSet(Placed(P, place, s \ {k}))  BY <1>2, FS_Subset, Zenon DEF Placed
    <3> QED BY <3>1, <2>5, FS_CardinalityType, Zenon DEF g, PlacedCounts
  <2>7. iter[s \ {k}] # g[s \ {k}]  BY <2>3, <2>6, <2>6a, Zenon
  <2>8. Cardinality(s \ {k}) \in T  BY <2>5, <2>7
  <2>9. Cardinality(s \ {k}) = Cardinality(s) - 1 /\ Cardinality(s) \in Nat
    BY <1>3, <2>5, FS_RemoveElement, Zenon
  <2> HIDE DEF T
  <2>10. Cardinality(s) <= Cardinality(s \ {k})  BY <2>2, <2>3, <2>8, Zenon
  <2> QED BY <2>9, <2>10
<1>5. iter[S] = g[S]
  <2>1. iter[S] # g[S] => Cardinality(S) \in T  OBVIOUS
  <2> QED BY <1>4, <2>1, Zenon
<1>6. g[S] = Cardinality(P)
  <2>1. S \in SUBSET S /\ Placed(P, place, S) = P  BY <1>2 DEF Placed
  <2> QED BY <2>1, Zenon DEF g, PlacedCounts
<1> QED BY <1>5, <1>6, Zenon DEF SumsTo

\* The sum of a list is n.
AddsUpTo(s, n) == FoldLeft(+, 0, s) = n

\* A list of the counts of what is at its places adds up to all there is.
LEMMA ListAddsUp ==
    ASSUME NEW n \in Nat, NEW s, DOMAIN s = 1..n, NEW P, IsFiniteSet(P), NEW place, \A x \in P : place[x] \in 1..n,
           \A k \in 1..n : s[k] = Cardinality(Placed(P, place, {k}))
    PROVE  AddsUpTo(s, Cardinality(P))
<1> DEFINE S == 1..n
           pick == [t \in SUBSET S |-> Max(t)]
           F(h) == [t \in SUBSET S |-> IF t = {} THEN 0 ELSE h[t \ {Max(t)}] + s[Max(t)]]
           iter == CHOOSE h : h = F(h)
           g == PlacedCounts(S, P, place)
<1>1. FoldLeft(+, 0, s) = iter[S]  BY Zenon DEF FoldLeft, MapThenFoldSet
<1>2. CountsPlaces(S, s, pick, P, place)
  <2>1. IsFiniteSet(S)  BY FS_Interval
  <2>2. \A t \in SUBSET S : t # {} => pick[t] \in t
    <3> SUFFICES ASSUME NEW t \in SUBSET S, t # {} PROVE pick[t] \in t
      BY Zenon
    <3> QED BY LargestPlace, Zenon
  <2> HIDE DEF pick
  <2> QED BY <2>1, <2>2, Zenon DEF CountsPlaces
<1>3. SumsUp(g, S, s, pick)  BY <1>2, CountsSumUp, Zenon
<1>4. \A t \in SUBSET S : pick[t] = Max(t)  BY Zenon
<1> HIDE DEF pick
<1>5. g = F(g)
  <2>1. g = [t \in SUBSET S |-> g[t]]  BY Zenon DEF PlacedCounts
  <2> HIDE DEF g, S
  <2> QED BY <1>3, <1>4, <2>1, Zenon DEF SumsUp
<1>6. iter = F(iter)
  <2> HIDE DEF g, F
  <2> QED BY <1>5, Zenon
<1> HIDE DEF iter, g
<1>7. SumsWithin(iter, S, s, pick)
  <2>1. {} \in SUBSET S  OBVIOUS
  <2>2. \A t \in SUBSET S : iter[t] = IF t = {} THEN 0 ELSE iter[t \ {Max(t)}] + s[Max(t)]  BY <1>6, Zenon
  <2> HIDE DEF F, S
  <2> QED BY <1>4, <2>1, <2>2, Zenon DEF SumsWithin
<1> HIDE DEF S
<1>8. SumsTo(iter, S, P)  BY <1>2, <1>7, SumCounts, Zenon
<1> QED BY <1>1, <1>8, Zenon DEF AddsUpTo, SumsTo

\* How many elements the first sequences of a list have.
Parts(off, seqs, n) ==
    /\ n \in Nat /\ off \in [0..n -> Nat] /\ off[0] = 0
    /\ \A i \in 1..n : Len(seqs[i]) \in Nat /\ off[i] = off[i - 1] + Len(seqs[i])

\* Every sequence stands behind the earlier ones.
JoinedAt(flat, off, seqs, n) == \A i \in 1..n : \A j \in 1..Len(seqs[i]) : flat[off[i - 1] + j] = seqs[i][j]

\* A part behind another begins where it ends, or later.
LEMMA PartsGrow ==
    ASSUME NEW off, NEW seqs, NEW n, Parts(off, seqs, n)
    PROVE  \A i, k \in 0..n : i <= k => off[i] <= off[k]
<1>1. /\ n \in Nat /\ \A i \in 0..n : off[i] \in Nat
      /\ \A i \in 1..n : Len(seqs[i]) \in Nat /\ off[i] = off[i - 1] + Len(seqs[i])
  BY DEF Parts
<1> SUFFICES ASSUME NEW i \in 0..n, \E k \in 0..n : i <= k /\ ~(off[i] <= off[k]) PROVE FALSE
  BY Zenon
<1> DEFINE T == {k \in 0..n : i <= k /\ ~(off[i] <= off[k])}
<1>2. T \subseteq Nat /\ T # {}  OBVIOUS
<1>3. PICK k \in T : \A j \in T : k <= j
  <2> HIDE DEF T
  <2> QED BY <1>2, LeastNumber
<1>4. k # i /\ k \in 1..n /\ i <= k - 1 /\ k - 1 \in 0..n  BY <1>1, <1>3
<1>5. k - 1 \notin T
  <2>1. ~(k <= k - 1)  BY <1>4
  <2> HIDE DEF T
  <2> QED BY <1>3, <2>1, Zenon
<1>6. off[k] = off[k - 1] + Len(seqs[k]) /\ Len(seqs[k]) \in Nat /\ off[k - 1] \in Nat /\ off[i] \in Nat
  BY <1>1, <1>4
<1> QED BY <1>3, <1>4, <1>5, <1>6

\* A place in a part, and in one alone: a place in an earlier part is an earlier place.
InPart(off, seqs, n, p) == \E i \in 1..n : \E j \in 1..Len(seqs[i]) : p = off[i - 1] + j
InOnePart(off, n, i, j, k, l) ==
    /\ i < k => off[i - 1] + j < off[k - 1] + l
    /\ off[i - 1] + j = off[k - 1] + l => i = k /\ j = l
    /\ off[i - 1] + j \in 1..off[n]

\* Every place is in a part.
LEMMA PlaceInPart ==
    ASSUME NEW off, NEW seqs, NEW n, Parts(off, seqs, n), NEW p \in 1..off[n]
    PROVE  InPart(off, seqs, n, p)
<1>1. /\ n \in Nat /\ off[0] = 0 /\ \A i \in 0..n : off[i] \in Nat
      /\ \A i \in 1..n : Len(seqs[i]) \in Nat /\ off[i] = off[i - 1] + Len(seqs[i])
  BY DEF Parts
<1> DEFINE T == {k \in 0..n : p <= off[k]}
<1>2. T \subseteq Nat /\ n \in T  BY <1>1
<1>3. PICK i \in T : \A j \in T : i <= j
  <2> HIDE DEF T
  <2> QED BY <1>2, LeastNumber
<1>4. i \in 1..n /\ p <= off[i] /\ p \in Nat \ {0}  BY <1>1, <1>3
<1>5. i - 1 \in 0..n /\ ~(i <= i - 1)  BY <1>4, <1>1
<1>6. i - 1 \notin T
  <2> HIDE DEF T
  <2> QED BY <1>3, <1>5, Zenon
<1>7. ~(p <= off[i - 1])  BY <1>5, <1>6
<1> DEFINE j == p - off[i - 1]
<1>8. j \in 1..Len(seqs[i]) /\ p = off[i - 1] + j
  <2>1. off[i] = off[i - 1] + Len(seqs[i]) /\ off[i - 1] \in Nat /\ Len(seqs[i]) \in Nat  BY <1>1, <1>4, <1>5
  <2> QED BY <1>4, <1>7, <2>1
<1> QED BY <1>4, <1>8, Zenon DEF InPart

\* And in one alone.
LEMMA PlaceInOnePart ==
    ASSUME NEW off, NEW seqs, NEW n, Parts(off, seqs, n),
           NEW i \in 1..n, NEW j \in 1..Len(seqs[i]), NEW k \in 1..n, NEW l \in 1..Len(seqs[k])
    PROVE  InOnePart(off, n, i, j, k, l)
<1>1. /\ n \in Nat /\ off[0] = 0 /\ \A m \in 0..n : off[m] \in Nat
      /\ \A m \in 1..n : Len(seqs[m]) \in Nat /\ off[m] = off[m - 1] + Len(seqs[m])
  BY DEF Parts
<1>2. \A a, b \in 0..n : a <= b => off[a] <= off[b]  BY PartsGrow, Zenon
<1>3. /\ i - 1 \in 0..n /\ i \in 0..n /\ k - 1 \in 0..n /\ k \in 0..n /\ n \in 0..n  BY <1>1
<1>4. /\ off[i] = off[i - 1] + Len(seqs[i]) /\ off[i - 1] \in Nat /\ Len(seqs[i]) \in Nat /\ off[i] \in Nat
      /\ off[k] = off[k - 1] + Len(seqs[k]) /\ off[k - 1] \in Nat /\ Len(seqs[k]) \in Nat /\ off[k] \in Nat
      /\ off[n] \in Nat
  BY <1>1, <1>3
<1>5. i < k => off[i] <= off[k - 1]  BY <1>2, <1>3
<1>6. k < i => off[k] <= off[i - 1]  BY <1>2, <1>3
<1>7. off[i] <= off[n]  BY <1>1, <1>2, <1>3
<1> DEFINE a == off[i - 1]
           b == off[k - 1]
           x == Len(seqs[i])
           y == Len(seqs[k])
           c == off[n]
<1>8. /\ a \in Nat /\ b \in Nat /\ x \in Nat /\ y \in Nat /\ c \in Nat /\ j \in 1..x /\ l \in 1..y
      /\ i < k => a + x <= b
      /\ k < i => b + y <= a
      /\ i = k => a = b
      /\ a + x <= c
  BY <1>4, <1>5, <1>6, <1>7, Zenon
<1> HIDE DEF a, b, c, x, y
<1>9. (i < k => a + j < b + l) /\ (a + j = b + l => i = k /\ j = l) /\ a + j \in 1..c  BY <1>1, <1>8
<1> QED BY <1>9, Zenon DEF a, b, c, InOnePart

\* So the places of a list are the places of its parts.
Partition(off, seqs, n) ==
    /\ \A p \in 1..off[n] : InPart(off, seqs, n, p)
    /\ \A i, k \in 1..n : \A j \in 1..Len(seqs[i]) : \A l \in 1..Len(seqs[k]) : InOnePart(off, n, i, j, k, l)

\* Each is in one.
LEMMA PartsPartition ==
    ASSUME NEW off, NEW seqs, NEW n, Parts(off, seqs, n)
    PROVE  Partition(off, seqs, n)
  BY PlaceInPart, PlaceInOnePart, Zenon DEF Partition

\* What is joined out of a list of sequences has each at its place.
Joins(flat, seqs, n) == \E off : Parts(off, seqs, n) /\ JoinedAt(flat, off, seqs, n) /\ Len(flat) = off[n]

\* FlattenSeq does.
LEMMA FlattenJoins ==
    ASSUME NEW X, NEW n \in Nat, NEW seqs \in [1..n -> Seq(X)]
    PROVE  Joins(FlattenSeq(seqs), seqs, n)
<1>0. Len(seqs) = n  BY LenOfFunction
<1>a. \A i \in 1..n : seqs[i] \in Seq(X) /\ Len(seqs[i]) \in Nat
  <2>1. \A i \in 1..n : seqs[i] \in Seq(X)  OBVIOUS
  <2> QED BY <2>1, LenProperties, Zenon
<1>1. CASE n = 0
  <2> DEFINE off == [i \in 0..0 |-> 0]
  <2>1. Parts(off, seqs, n) /\ JoinedAt(seqs, off, seqs, n) /\ Len(seqs) = off[n]
    BY <1>0, <1>1 DEF Parts, JoinedAt
  <2> QED BY <1>0, <1>1, <2>1, Zenon DEF Joins, FlattenSeq
<1>2. CASE n # 0
  <2>1. PICK g \in [1..n -> Seq(X)] : Flattens(g, seqs)  BY <1>2, FlattenFunction
  <2>2. n \in Nat \ {0} /\ n \in 1..n  BY <1>2
  <2>3. FlattenSeq(seqs) = g[n]  BY <2>1, <2>2, <1>0, FlattenIs, Zenon
  <2>4. \A k \in 1..n : g[k] = (IF k = 1 THEN seqs[k] ELSE g[k - 1] \o seqs[k]) /\ g[k] \in Seq(X)
    BY <1>0, <2>1 DEF Flattens
  <2> DEFINE off == [i \in 0..n |-> IF i = 0 THEN 0 ELSE Len(g[i])]
  <2>5. \A i \in 1..n : off[i] = Len(g[i]) /\ off[i] \in Nat
    <3> TAKE i \in 1..n
    <3>1. i \in 0..n /\ i # 0  OBVIOUS
    <3>2. off[i] = Len(g[i])  BY <3>1, Zenon
    <3> HIDE DEF off
    <3>3. g[i] \in Seq(X)  BY <2>4, Zenon
    <3> QED BY <3>2, <3>3, LenProperties, Zenon
  <2>6. off[0] = 0  OBVIOUS
  <2>7. \A i \in 1..n : i # 1 => i - 1 \in 1..n  OBVIOUS
  <2>8. \A i \in 1..n : off[i] = off[i - 1] + Len(seqs[i])
    <3> SUFFICES ASSUME NEW i \in 1..n PROVE off[i] = off[i - 1] + Len(seqs[i])
      BY Zenon
    <3>1. CASE i = 1
      <4>1. i - 1 = 0  BY <3>1
      <4> HIDE DEF off
      <4>2. off[i] = Len(seqs[i]) /\ off[i - 1] = 0  BY <2>5, <2>6, <2>4, <3>1, <4>1, Zenon
      <4> QED BY <1>a, <4>2
    <3>2. CASE i # 1
      <4>1. g[i] = g[i - 1] \o seqs[i] /\ g[i - 1] \in Seq(X) /\ i - 1 \in 1..n  BY <2>4, <2>7, <3>2, Zenon
      <4>2. Len(g[i]) = Len(g[i - 1]) + Len(seqs[i])  BY <1>a, <4>1, ConcatProperties, Zenon
      <4> HIDE DEF off
      <4> QED BY <2>5, <4>1, <4>2, Zenon
    <3> QED BY <3>1, <3>2
  <2>9. off \in [0..n -> Nat]
    <3>1. \A i \in 0..n : off[i] \in Nat  BY <2>5, <2>6
    <3>2. off = [i \in 0..n |-> off[i]]  BY Zenon
    <3> HIDE DEF off
    <3> QED BY <3>1, <3>2, Zenon
  <2> HIDE DEF off
  <2>10. Parts(off, seqs, n)  BY <1>a, <2>6, <2>8, <2>9, Zenon DEF Parts
  <2>11. \A a, b \in 0..n : a <= b => off[a] <= off[b]  BY <2>10, PartsGrow, Zenon
  <2> DEFINE Good(m) == \A i \in 1..m : \A j \in 1..Len(seqs[i]) : g[m][off[i - 1] + j] = seqs[i][j]
             T == {m \in 1..n : ~Good(m)}
  <2>12. ASSUME T # {} PROVE FALSE
    <3>1. T \subseteq Nat  OBVIOUS
    <3> HIDE DEF T, Good
    <3>2. PICK m \in T : \A j \in T : m <= j  BY <2>12, <3>1, LeastNumber
    <3>3. m \in 1..n /\ ~Good(m)  BY Zenon DEF T
    <3>4. PICK i \in 1..m : \E j \in 1..Len(seqs[i]) : g[m][off[i - 1] + j] # seqs[i][j]
      BY <3>3, Zenon DEF Good
    <3>5. PICK j \in 1..Len(seqs[i]) : g[m][off[i - 1] + j] # seqs[i][j]  BY <3>4
    <3>6. i \in 1..n /\ i - 1 \in 0..n /\ off[i - 1] \in Nat /\ Len(seqs[i]) \in Nat  BY <1>a, <2>9, <3>3
    <3>7. CASE m = 1
      <4>1. i = 1 /\ off[i - 1] + j = j  BY <2>6, <3>6, <3>7
      <4> QED BY <3>5, <4>1, <2>4, <3>3, <3>7, Zenon
    <3>8. CASE m # 1
      <4>1. g[m] = g[m - 1] \o seqs[m] /\ g[m - 1] \in Seq(X) /\ m - 1 \in 1..n /\ seqs[m] \in Seq(X)
        BY <1>a, <2>4, <2>7, <3>3, <3>8, Zenon
      <4>2. Len(g[m - 1]) = off[m - 1] /\ off[m - 1] \in Nat /\ Len(seqs[m]) \in Nat
        BY <1>a, <2>5, <3>3, <4>1, Zenon
      <4>3. \A p \in 1..(off[m - 1] + Len(seqs[m])) :
              g[m][p] = IF p <= off[m - 1] THEN g[m - 1][p] ELSE seqs[m][p - off[m - 1]]
        <5>1. \A p \in 1..(Len(g[m - 1]) + Len(seqs[m])) :
                  (g[m - 1] \o seqs[m])[p] = IF p <= Len(g[m - 1]) THEN g[m - 1][p] ELSE seqs[m][p - Len(g[m - 1])]
          BY <4>1, ConcatProperties, Zenon
        <5> QED BY <4>1, <4>2, <5>1, Zenon
      <4>0. \A a, b, x \in Nat : x \in 1..b => a + x \in 1..(a + b) /\ ~(a + x <= a) /\ (a + x) - a = x
        OBVIOUS
      <4>4. \A a, b, c, x \in Nat : x \in 1..b /\ a + b <= c => a + x \in 1..c /\ a + x <= c  OBVIOUS
      <4>5. j \in Nat  BY <3>5, <3>6
      <4>6. CASE i = m
        <5> DEFINE p == off[m - 1] + j
        <5>1. p \in 1..(off[m - 1] + Len(seqs[m])) /\ ~(p <= off[m - 1]) /\ p - off[m - 1] = j
          <6>1. j \in 1..Len(seqs[m])  BY <4>6
          <6> QED BY <4>0, <4>5, <6>1, <4>2, Zenon
        <5>2. p = off[i - 1] + j  BY <4>6, Zenon
        <5> HIDE DEF p
        <5> QED BY <3>5, <4>3, <4>6, <5>1, <5>2, Zenon
      <4>7. CASE i # m
        <5>1. i \in 1..(m - 1) /\ i <= m - 1 /\ i \in 0..n /\ m - 1 \in 0..n  BY <3>3, <4>1, <4>7
        <5>2. Good(m - 1)
          <6>1. ~(m <= m - 1)  BY <3>3
          <6> QED BY <4>1, <3>2, <6>1, Zenon DEF T
        <5> DEFINE p == off[i - 1] + j
        <5>3. off[i] <= off[m - 1] /\ off[i] = off[i - 1] + Len(seqs[i])  BY <2>8, <2>11, <3>6, <5>1, Zenon
        <5>4. p \in 1..(off[m - 1] + Len(seqs[m])) /\ p <= off[m - 1]
          <6>1. p \in 1..off[m - 1] /\ p <= off[m - 1]  BY <3>6, <4>2, <4>4, <4>5, <5>3, Zenon
          <6>2. \A a, b \in Nat : \A x \in 1..a : x \in 1..(a + b)  OBVIOUS
          <6> HIDE DEF p
          <6> QED BY <4>2, <6>1, <6>2, Zenon
        <5>5. g[m][p] = g[m - 1][p]
          <6> HIDE DEF p
          <6> QED BY <4>3, <5>4, Zenon
        <5> QED BY <3>5, <5>1, <5>2, <5>5, Zenon DEF Good
      <4> QED BY <4>6, <4>7
    <3> QED BY <3>7, <3>8
  <2>13. Good(n)
    <3> HIDE DEF Good
    <3> QED BY <2>2, <2>12, Zenon DEF T
  <2>14. JoinedAt(FlattenSeq(seqs), off, seqs, n)  BY <2>3, <2>13, Zenon DEF JoinedAt
  <2> QED BY <2>3, <2>10, <2>2, <2>5, <2>14, Zenon DEF Joins
<1> QED BY <1>1, <1>2

-----------------------------------------------------------------------------
(* The plot of a word *)

\* The plot of one word, by documents.
PlotQuery(w, lang) ==
    [terms |-> <<w>>, lang |-> lang, overlay |-> <<>>, bins |-> 3, by |-> "doc_id", invert |-> FALSE, zero |-> FALSE]

\* A document in the plot, and when it is drawn (concordance_plot).
PlotCells(tokens, rows, d, bins) ==
    [b \in 1..bins |-> Cardinality({g \in rows : tokens[g].word.doc = d /\ BinOf(tokens, g, bins) = b - 1})]
PlotEntry(tokens, q, nodes, d) ==
    LET stream == StreamOf(tokens, d, q.lang)
        hits == Cardinality({g \in nodes : tokens[g].word.doc = d})
    IN  [doc |-> d, hits |-> hits, cells |-> PlotCells(tokens, nodes, d, q.bins),
         overlay |-> PlotCells(tokens, {}, d, q.bins),
         tokens |-> Cardinality(stream), share |-> <<hits, Cardinality(stream)>>,
         dispersion |-> Dispersion(PlotCells(tokens, nodes, d, q.bins), q.bins),
         first |-> CHOOSE g \in stream : \A h \in stream : g <= h]
PlotDocs(tokens, lang) == {tokens[g].word.doc : g \in RowsOf(tokens, lang, "", TRUE)}
PlotKept(tokens, q, nodes) ==
    {e \in {PlotEntry(tokens, q, nodes, d) : d \in PlotDocs(tokens, q.lang)} :
        e.hits > 0 \/ \E b \in DOMAIN e.overlay : e.overlay[b] > 0}
PlotLess(d, e) ==
    \/ FractionLess(<<d.doc, 1>>, <<e.doc, 1>>)
    \/ ~FractionLess(<<e.doc, 1>>, <<d.doc, 1>>) /\ d.first < e.first
PlotNodes(tokens, q) == NodeRows(tokens, q.lang, NodeTerms(tokens, q))
PlotRows(tokens, q) == InOrder(PlotKept(tokens, q, PlotNodes(tokens, q)), LAMBDA d, e : PlotLess(d, e))

\* What the plot of a word shows.
PlotShows(index, q) ==
    /\ ConcordancePlot(index, q).rows = PlotRows(index.tokens, q)
    /\ ConcordancePlot(index, q).total = Cardinality(PlotNodes(index.tokens, q))

\* The plot of a word by documents draws them in their order.
LEMMA PlotDrawn ==
    ASSUME NEW index, NEW w, NEW lang, ~QueryFails(PlotQuery(w, lang))
    PROVE  PlotShows(index, PlotQuery(w, lang))
<1> DEFINE q == PlotQuery(w, lang)
           tokens == index.tokens
           nodes == NodeRows(tokens, q.lang, NodeTerms(tokens, q))
           overlay == IF q.overlay = <<>> THEN {}
                      ELSE NodeRows(tokens, q.lang, NodeTerms(tokens, [q EXCEPT !.terms = q.overlay]))
           Bins(rows, d) == [b \in 1..q.bins |-> Cardinality({g \in rows :
                               tokens[g].word.doc = d /\ BinOf(tokens, g, q.bins) = b - 1})]
           Document(d) ==
              LET stream == StreamOf(tokens, d, q.lang)
                  hits == Cardinality({g \in nodes : tokens[g].word.doc = d})
              IN  [doc |-> d, hits |-> hits, cells |-> Bins(nodes, d), overlay |-> Bins(overlay, d),
                   tokens |-> Cardinality(stream), share |-> <<hits, Cardinality(stream)>>,
                   dispersion |-> Dispersion(Bins(nodes, d), q.bins),
                   first |-> CHOOSE g \in stream : \A h \in stream : g <= h]
           all == {Document(d) : d \in {tokens[g].word.doc : g \in RowsOf(tokens, q.lang, "", TRUE)}}
           kept == {e \in all : q.zero \/ e.hits > 0 \/ \E b \in DOMAIN e.overlay : e.overlay[b] > 0}
           Value(e) == CASE q.by = "filename" -> <<FilePlace(e.doc, FALSE), 1>>
                         [] q.by = "tokens" -> <<e.tokens, 1>>
                         [] q.by = "frequency" -> <<e.hits, 1>>
                         [] q.by = "normalized_frequency" -> e.share
                         [] q.by = "dispersion" -> e.dispersion
                         [] OTHER -> <<e.doc, 1>>
           Before(d, e) == IF q.invert THEN FractionLess(Value(e), Value(d)) ELSE FractionLess(Value(d), Value(e))
           Less(d, e) == Before(d, e) \/ (~Before(e, d) /\ d.first < e.first)
           plot == [rows |-> InOrder(kept, Less), total |-> Cardinality(nodes), overlay |-> Cardinality(overlay)]
<1>1. q.overlay = <<>> /\ q.by = "doc_id" /\ q.invert = FALSE /\ q.zero = FALSE  BY DEF PlotQuery
<1>2. ConcordancePlot(index, q) =
          IF QueryFails(q) \/ (q.overlay # <<>> /\ QueryFails([q EXCEPT !.terms = q.overlay])) THEN QueryError ELSE plot
  BY Zenon DEF ConcordancePlot
<1>3. overlay = {}  BY <1>1, Zenon
<1>4. all = {PlotEntry(tokens, q, nodes, d) : d \in PlotDocs(tokens, q.lang)}
  <2>1. \A d : Document(d) = PlotEntry(tokens, q, nodes, d)
    <3> HIDE DEF overlay, nodes, q
    <3> QED BY <1>3, Zenon DEF PlotEntry, PlotCells
  <2> HIDE DEF Document, q, nodes
  <2> QED BY <2>1, Zenon DEF PlotDocs
<1>5. kept = PlotKept(tokens, q, nodes)
  <2> HIDE DEF all, q, nodes
  <2> QED BY <1>1, <1>4, Zenon DEF PlotKept
<1>6. \A e : Value(e) = <<e.doc, 1>>
  <2> HIDE DEF q
  <2> QED BY <1>1
<1>7. \A d, e : Less(d, e) <=> PlotLess(d, e)
  <2> HIDE DEF Value, q
  <2> QED BY <1>1, <1>6, Zenon DEF PlotLess
<1>8. InOrder(kept, Less) = PlotRows(tokens, q)
  <2> DEFINE A(x) == [at |-> Cardinality({y \in kept : Less(y, x)}), element |-> x]
             B(x) == [at |-> Cardinality({y \in kept : PlotLess(y, x)}), element |-> x]
             List(places) == [i \in 1..Cardinality(kept) |-> (CHOOSE p \in places : p.at = i - 1).element]
  <2> HIDE DEF kept, Less, q
  <2>1. InOrder(kept, Less) = List({A(x) : x \in kept})  BY Zenon DEF InOrder
  <2>2. PlotRows(tokens, q) = List({B(x) : x \in kept})
    <3> DEFINE Ordered(S) == InOrder(S, LAMBDA d, e : PlotLess(d, e))
    <3>1. PlotRows(tokens, q) = Ordered(PlotKept(tokens, q, nodes))  BY Zenon DEF PlotRows, PlotNodes, nodes
    <3>2. Ordered(kept) = List({B(x) : x \in kept})  BY Zenon DEF InOrder
    <3> HIDE DEF Ordered, nodes
    <3> QED BY <1>5, <3>1, <3>2, Zenon
  <2>3. \A x : A(x) = B(x)
    <3> TAKE x
    <3> QED BY <1>7, Zenon
  <2> HIDE DEF A, B, List
  <2>4. {A(x) : x \in kept} = {B(x) : x \in kept}  BY <2>3
  <2> QED BY <2>1, <2>2, <2>4, Zenon
<1> HIDE DEF overlay, kept, Less, q
<1>9. plot.rows = InOrder(kept, Less) /\ plot.total = Cardinality(nodes)  OBVIOUS
<1> HIDE DEF plot
<1> QED BY <1>8, <1>9, <1>1, <1>2, Zenon DEF PlotShows, PlotNodes, q

\* A natural number is divided into a natural number.
LEMMA DivTyped ==
    ASSUME NEW a \in Nat, NEW b \in Nat \ {0}
    PROVE  a \div b \in Nat
<1> DEFINE d == a \div b
           r == a % b
<1>1. d \in Int /\ r \in 0..(b - 1) /\ a = (b * d) + r  OBVIOUS
<1> HIDE DEF d, r
<1> QED BY <1>1 DEF d

\* A row is in one of the bins of its document (concordance_plot).
LEMMA BinsHoldRows ==
    ASSUME NEW tokens, Tokens(tokens), NEW g \in DOMAIN tokens
    PROVE  BinOf(tokens, g, 3) \in 0..2
<1> DEFINE stream == StreamOf(tokens, tokens[g].word.doc, tokens[g].word.lang)
           first == CHOOSE h \in stream : \A k \in stream : h <= k
           last == CHOOSE h \in stream : \A k \in stream : k <= h
<1>1. g \in stream /\ stream \subseteq DOMAIN tokens  BY Zenon DEF StreamOf
<1>2. PICK n \in Nat : DOMAIN tokens = 1..n  BY Zenon DEF Tokens
<1> HIDE DEF stream
<1>3. stream \subseteq Nat /\ stream \in SUBSET (1..n) /\ stream # {}  BY <1>1, <1>2
<1>4. first \in stream /\ \A k \in stream : first <= k  BY <1>3, LeastNumber, Zenon
<1>5. last \in stream /\ \A k \in stream : k <= last  BY <1>3, LargestPlace, Zenon
<1>6. BinOf(tokens, g, 3) = IF first = last THEN 0 ELSE Lower(3 - 1, ((g - first) * (3 - 1)) \div (last - first))
  BY Zenon DEF BinOf, stream
<1> HIDE DEF first, last
<1> DEFINE a == (g - first) * (3 - 1)
           b == last - first
           c == a \div b
<1>7. CASE first = last  BY <1>6, <1>7
<1>8. CASE first # last
  <2>1. a \in Nat /\ b \in Nat \ {0}  BY <1>8, <1>1, <1>3, <1>4, <1>5
  <2> HIDE DEF a, b
  <2>2. c \in Nat  BY <2>1, DivTyped, Zenon
  <2>3. BinOf(tokens, g, 3) = Lower(3 - 1, c)  BY <1>6, <1>8, Zenon DEF a, b
  <2> HIDE DEF c
  <2>4. Lower(3 - 1, c) \in 0..2  BY <2>2 DEF Lower
  <2> QED BY <2>3, <2>4, Zenon
<1> QED BY <1>7, <1>8

\* The rows of a word are what a query for it finds, unless it is split.
LEMMA NodesOfWord ==
    ASSUME NEW tokens, Tokens(tokens), NEW lang, NEW w, w \in DOMAIN Compound => lang = "zh", Normal[w] = w,
           RowsOfWord(tokens, lang, w) # {}
    PROVE  PlotNodes(tokens, PlotQuery(w, lang)) = RowsOfWord(tokens, lang, w)
<1> DEFINE q == PlotQuery(w, lang)
           words == Folded(q.terms)
           nodes == NodeRows(tokens, lang, <<w>>)
<1>1. q.terms = <<w>> /\ q.lang = lang /\ Len(q.terms) = 1 /\ q.terms[1] = w  BY DEF PlotQuery
<1> HIDE DEF q
<1>2. Folded(<<w>>) = <<w>>
  <2>1. [i \in DOMAIN <<w>> |-> Normal[<<w>>[i]]] = <<Normal[w]>>  OBVIOUS
  <2> QED BY <2>1, Zenon DEF Folded
<1>3. words = <<w>>  BY <1>1, <1>2, Zenon
<1>4. nodes = RowsOfWord(tokens, lang, w)
  <2>1. \A g : PlaceMeans(tokens, lang, w, g)  BY StreamsIncrease, NodeOfOne, Zenon
  <2>2. \A g : g \in nodes <=> g \in RowsOfWord(tokens, lang, w)  BY <2>1, Zenon DEF PlaceMeans, RowsOfWord
  <2> HIDE DEF nodes
  <2> QED BY <2>2, Zenon
<1> HIDE DEF words
<1>5. NodeTerms(tokens, q) = <<w>>
  <2>1. NodeTerms(tokens, q) = IF q.lang = "zh" /\ NodeRows(tokens, q.lang, words) # {}
                               THEN words ELSE Folded(Tokenized(q.terms))
    BY Zenon DEF NodeTerms, words
  <2>2. CASE lang = "zh"  BY <1>1, <1>3, <1>4, <2>1, <2>2, Zenon
  <2>3. CASE lang # "zh"  BY <1>1, <1>2, <2>1, <2>3, TokenizedWord, Zenon
  <2> QED BY <2>2, <2>3, Zenon
<1> QED BY <1>1, <1>4, <1>5, Zenon DEF PlotNodes, q

\* What the plot of a word says of a document.
PlotMeans(tokens, w, lang, d) ==
    LET q == PlotQuery(w, lang)
        nodes == PlotNodes(tokens, q)
        e == PlotEntry(tokens, q, nodes, d)
    IN  /\ e.doc = d
        /\ e.hits = Cardinality({g \in nodes : tokens[g].word.doc = d})
        /\ e.cells = PlotCells(tokens, nodes, d, 3)
        /\ d \in PlotDocs(tokens, lang) => d \in Nat /\ e.first \in Nat

\* Its documents are numbers, and each has a first row.
LEMMA PlotEntries ==
    ASSUME NEW tokens, Tokens(tokens), NEW w, NEW lang, NEW d
    PROVE  PlotMeans(tokens, w, lang, d)
<1> DEFINE q == PlotQuery(w, lang)
           nodes == PlotNodes(tokens, q)
           stream == StreamOf(tokens, d, q.lang)
           e == PlotEntry(tokens, q, nodes, d)
           first == CHOOSE g \in stream : \A h \in stream : g <= h
           hits == Cardinality({g \in nodes : tokens[g].word.doc = d})
<1>1. q.lang = lang /\ q.bins = 3  BY DEF PlotQuery
<1> HIDE DEF q
<1>2. e.doc = d /\ e.hits = hits /\ e.cells = PlotCells(tokens, nodes, d, q.bins) /\ e.first = first
  <2> HIDE DEF nodes, hits, stream
  <2> QED BY DEF PlotEntry, stream, hits
<1>3. ASSUME d \in PlotDocs(tokens, lang) PROVE d \in Nat /\ first \in Nat
  <2>1. PICK g \in DOMAIN tokens : d = tokens[g].word.doc /\ tokens[g].word.lang = lang
    BY <1>3, Zenon DEF PlotDocs, RowsOf
  <2>2. tokens[g].word \in WordRecords /\ \A h \in DOMAIN tokens : h \in Nat \ {0}  BY StreamsIncrease, Zenon
  <2>3. d \in Nat  BY <2>1, <2>2, DocumentsAssumption DEF WordRecords
  <2>4. g \in stream /\ stream \subseteq DOMAIN tokens  BY <1>1, <2>1, Zenon DEF StreamOf
  <2> HIDE DEF stream
  <2>5. stream \subseteq Nat  BY <2>2, <2>4
  <2>6. first \in stream  BY <2>4, <2>5, LeastNumber, Zenon
  <2> QED BY <2>3, <2>5, <2>6
<1> HIDE DEF e, first, hits, nodes
<1> QED BY <1>1, <1>2, <1>3, Zenon DEF PlotMeans, e, hits, nodes, q

\* The rows of the plot of a word stand in order.
LEMMA PlotArranged ==
    ASSUME NEW tokens, Tokens(tokens), NEW w, NEW lang
    PROVE  Arranges(PlotRows(tokens, PlotQuery(w, lang)),
                    PlotKept(tokens, PlotQuery(w, lang), PlotNodes(tokens, PlotQuery(w, lang))))
<1> DEFINE q == PlotQuery(w, lang)
           nodes == PlotNodes(tokens, q)
           docs == PlotDocs(tokens, lang)
           Entry(d) == PlotEntry(tokens, q, nodes, d)
           kept == PlotKept(tokens, q, nodes)
           key == [e \in kept |-> <<e.doc>>]
           f == [d \in docs |-> Entry(d)]
           all == {Entry(d) : d \in docs}
           h == [g \in RowsOf(tokens, lang, "", TRUE) |-> tokens[g].word.doc]
<1>1. q.lang = lang  BY DEF PlotQuery
<1>2. IsFiniteSet(kept)
  <2>1. IsFiniteSet(RowsOf(tokens, lang, "", TRUE))  BY TokensFinite, FS_Subset, Zenon DEF RowsOf
  <2>2. Image(docs, h, RowsOf(tokens, lang, "", TRUE))  BY Zenon DEF Image, PlotDocs
  <2> HIDE DEF Entry, docs
  <2>3. Image(all, f, docs)  BY Zenon DEF Image
  <2>4. IsFiniteSet(all)  BY <2>1, <2>2, <2>3, ImageFinite, Zenon
  <2> QED BY <2>4, <1>1, FS_Subset, Zenon DEF PlotKept, Entry, docs
<1>3. \A e \in kept : \E d \in docs : e = Entry(d)  BY <1>1, Zenon DEF PlotKept
<1>4. \A d \in docs : Entry(d).doc = d /\ d \in Nat /\ Entry(d).first \in Nat
  <2>1. \A d : PlotMeans(tokens, w, lang, d)  BY PlotEntries, Zenon
  <2>2. \A d : /\ Entry(d).doc = d
               /\ d \in docs => d \in Nat /\ Entry(d).first \in Nat
    BY <2>1, Zenon DEF PlotMeans
  <2> HIDE DEF Entry, docs
  <2> QED BY <2>2, Zenon
<1> HIDE DEF kept, Entry, docs, f, all, h
<1>5. \A e \in kept : e = Entry(e.doc) /\ e.doc \in Nat /\ e.first \in Nat  BY <1>3, <1>4, Zenon
<1>6. \A d, e \in kept : d.doc = e.doc => d = e  BY <1>5, Zenon
<1>7. \A e \in kept : key[e] = <<e.doc>>  BY Zenon
<1>8. Keyed(kept, key) /\ key = [e \in kept |-> key[e]]
  <2>1. DOMAIN key = kept /\ key = [e \in kept |-> key[e]]  BY Zenon
  <2> HIDE DEF key
  <2>2. \A e \in kept : key[e] \in Seq(Int)
    <3>1. \A n \in Nat : <<n>> \in Seq(Int)  OBVIOUS
    <3> QED BY <1>5, <1>7, <3>1, Zenon
  <2>3. \A d, e \in kept : key[d] = key[e] => d = e
    <3> SUFFICES ASSUME NEW d \in kept, NEW e \in kept, key[d] = key[e] PROVE d = e
      BY Zenon
    <3>1. <<d.doc>> = <<e.doc>>  BY <1>7, Zenon
    <3>2. d.doc = e.doc  BY <3>1
    <3> QED BY <1>6, <3>2, Zenon
  <2> QED BY <1>2, <2>1, <2>2, <2>3, Zenon DEF Keyed
<1>9. \A d, e \in kept : PlotLess(d, e) <=> SeqLess(key[d], key[e])
  <2> SUFFICES ASSUME NEW d \in kept, NEW e \in kept PROVE PlotLess(d, e) <=> SeqLess(key[d], key[e])
    BY Zenon
  <2>1. d.doc \in Nat /\ e.doc \in Nat /\ d.first \in Nat /\ e.first \in Nat  BY <1>5, Zenon
  <2>2. FractionLess(<<d.doc, 1>>, <<e.doc, 1>>) <=> d.doc < e.doc  BY <2>1 DEF FractionLess
  <2>3. FractionLess(<<e.doc, 1>>, <<d.doc, 1>>) <=> e.doc < d.doc  BY <2>1 DEF FractionLess
  <2>4. d.doc = e.doc => d.first = e.first  BY <1>6, Zenon
  <2>5. PlotLess(d, e) <=> d.doc < e.doc
    <3>1. PlotLess(d, e) <=> d.doc < e.doc \/ (~(e.doc < d.doc) /\ d.first < e.first)
      BY <2>2, <2>3, Zenon DEF PlotLess
    <3> QED BY <2>1, <2>4, <3>1
  <2>6. SeqLess(<<d.doc>>, <<e.doc>>) <=> d.doc < e.doc  BY <2>1 DEF SeqLess
  <2> QED BY <1>7, <2>5, <2>6, Zenon
<1> HIDE DEF key
<1>10. PlotRows(tokens, q) = InKeyOrder(kept, key)
  <2> DEFINE A(x) == [at |-> Cardinality({y \in kept : PlotLess(y, x)}), element |-> x]
             B(x) == [at |-> Cardinality({y \in kept : SeqLess(key[y], key[x])}), element |-> x]
             List(places) == [i \in 1..Cardinality(kept) |-> (CHOOSE p \in places : p.at = i - 1).element]
             Ordered(S) == InOrder(S, LAMBDA d, e : PlotLess(d, e))
  <2>1. PlotRows(tokens, q) = Ordered(kept)  BY Zenon DEF PlotRows, kept
  <2>2. Ordered(kept) = List({A(x) : x \in kept})  BY Zenon DEF InOrder
  <2>3. InKeyOrder(kept, key) = List({B(x) : x \in kept})  BY Zenon DEF InOrder, InKeyOrder
  <2>4. \A x \in kept : A(x) = B(x)
    <3> TAKE x \in kept
    <3> QED BY <1>9, Zenon
  <2> HIDE DEF A, B, List, Ordered
  <2>5. {A(x) : x \in kept} = {B(x) : x \in kept}  BY <2>4
  <2> QED BY <2>1, <2>2, <2>3, <2>5, Zenon
<1> QED BY <1>10, <1>8, KeyOrderArranges, Zenon DEF kept

\* The plot of a word draws it n times, once in every cell that counts it.
PlotHolds(plot, n) ==
    plot.total = n /\ AddsUpTo(FlattenSeq([d \in DOMAIN plot.rows |-> plot.rows[d].cells]), n)

\* The rows of a plot of N: each of another document, with the cells of that document.
PlotTable(tokens, N, rows) ==
    /\ \E n \in Nat : DOMAIN rows = 1..n
    /\ \A i \in DOMAIN rows : rows[i].cells = PlotCells(tokens, N, rows[i].doc, 3)
    /\ \A i, j \in DOMAIN rows : rows[i].doc = rows[j].doc => i = j
    /\ \A g \in N : \E i \in DOMAIN rows : rows[i].doc = tokens[g].word.doc

\* The cells of the plot are those of the documents, and each document with the word has its row.
LEMMA PlotRowsCells ==
    ASSUME NEW tokens, Tokens(tokens), NEW w, NEW lang, NEW N, N = PlotNodes(tokens, PlotQuery(w, lang)),
           \A g \in N : g \in DOMAIN tokens /\ tokens[g].word.doc \in PlotDocs(tokens, lang)
    PROVE  PlotTable(tokens, N, PlotRows(tokens, PlotQuery(w, lang)))
<1> DEFINE q == PlotQuery(w, lang)
           kept == PlotKept(tokens, q, N)
           docs == PlotDocs(tokens, lang)
           Entry(d) == PlotEntry(tokens, q, N, d)
           rows == PlotRows(tokens, q)
<1>1. q.lang = lang  BY DEF PlotQuery
<1>2. Arranges(rows, kept)  BY PlotArranged, Zenon DEF kept, q
<1>3. \A d : /\ Entry(d).doc = d /\ Entry(d).hits = Cardinality({g \in N : tokens[g].word.doc = d})
             /\ Entry(d).cells = PlotCells(tokens, N, d, 3)
  <2>1. \A d : PlotMeans(tokens, w, lang, d)  BY PlotEntries, Zenon
  <2> QED BY <2>1, Zenon DEF PlotMeans
<1>4. \A e \in kept : \E d \in docs : e = Entry(d)  BY <1>1, Zenon DEF PlotKept
<1>5. \A d \in docs : Entry(d).hits > 0 => Entry(d) \in kept  BY <1>1, Zenon DEF PlotKept
<1> HIDE DEF kept, Entry, q, rows
<1>6. rows \in Seq(kept) /\ \A i, j \in 1..Len(rows) : rows[i] = rows[j] => i = j  BY <1>2, Zenon DEF Arranges
<1>7. Len(rows) \in Nat /\ DOMAIN rows = 1..Len(rows) /\ \A i \in 1..Len(rows) : rows[i] \in kept  BY <1>6
<1>8. \A i \in DOMAIN rows : rows[i] = Entry(rows[i].doc) /\ rows[i].cells = PlotCells(tokens, N, rows[i].doc, 3)
  <2> SUFFICES ASSUME NEW i \in DOMAIN rows
               PROVE  rows[i] = Entry(rows[i].doc) /\ rows[i].cells = PlotCells(tokens, N, rows[i].doc, 3)
    BY Zenon
  <2>1. PICK d \in docs : rows[i] = Entry(d)  BY <1>4, <1>7, Zenon
  <2>2. rows[i].doc = d  BY <1>3, <2>1, Zenon
  <2> QED BY <1>3, <2>1, <2>2, Zenon
<1>9. \A i, j \in DOMAIN rows : rows[i].doc = rows[j].doc => i = j
  <2> SUFFICES ASSUME NEW i \in DOMAIN rows, NEW j \in DOMAIN rows, rows[i].doc = rows[j].doc PROVE i = j
    BY Zenon
  <2>1. rows[i] = rows[j]  BY <1>8, Zenon
  <2> QED BY <1>6, <1>7, <2>1, Zenon
<1>10. ASSUME NEW g \in N PROVE \E i \in DOMAIN rows : rows[i].doc = tokens[g].word.doc
  <2> DEFINE d == tokens[g].word.doc
             here == {h \in N : tokens[h].word.doc = d}
  <2>1. g \in here /\ here \subseteq DOMAIN tokens  BY Zenon
  <2> HIDE DEF here
  <2>2. Cardinality(here) \in Nat /\ Cardinality(here) # 0
    BY <2>1, TokensFinite, FS_Subset, FS_CardinalityType, FS_EmptySet, Zenon
  <2>3. Cardinality(here) > 0  BY <2>2
  <2>4. Entry(d) \in kept /\ Entry(d).doc = d  BY <1>3, <1>5, <2>3, Zenon DEF here
  <2>5. \E i \in 1..Len(rows) : rows[i] = Entry(d)  BY <1>2, <2>4, Zenon DEF Arranges
  <2> QED BY <1>7, <2>4, <2>5, Zenon
<1> QED BY <1>7, <1>8, <1>9, <1>10, Zenon DEF PlotTable, rows, q

\* Cells by documents and bins count every row in one of them.
LEMMA CellsAddUp ==
    ASSUME NEW tokens, NEW N, IsFiniteSet(N), \A g \in N : BinOf(tokens, g, 3) \in 0..2, NEW rows,
           PlotTable(tokens, N, rows)
    PROVE  AddsUpTo(FlattenSeq([d \in DOMAIN rows |-> rows[d].cells]), Cardinality(N))
<1>1. PICK n \in Nat : DOMAIN rows = 1..n  BY Zenon DEF PlotTable
<1> DEFINE seqs == [d \in DOMAIN rows |-> rows[d].cells]
           flat == FlattenSeq(seqs)
           In(i, b) == {g \in N : tokens[g].word.doc = rows[i].doc /\ BinOf(tokens, g, 3) = b - 1}
           at == [g \in N |-> CHOOSE i \in 1..n : rows[i].doc = tokens[g].word.doc]
           bin == [g \in N |-> BinOf(tokens, g, 3) + 1]
<1>2. \A i \in 1..n : seqs[i] = [b \in 1..3 |-> Cardinality(In(i, b))]  BY <1>1, Zenon DEF PlotTable, PlotCells
<1>3. \A i, b : Cardinality(In(i, b)) \in Nat  BY FS_Subset, FS_CardinalityType, Zenon
<1>4. \A g \in N : at[g] \in 1..n /\ rows[at[g]].doc = tokens[g].word.doc  BY <1>1, Zenon DEF PlotTable
<1>5. \A g \in N : bin[g] \in 1..3 /\ \A b \in 1..3 : bin[g] = b <=> BinOf(tokens, g, 3) = b - 1
  <2>1. \A x \in 0..2 : x + 1 \in 1..3 /\ \A b \in 1..3 : x + 1 = b <=> x = b - 1  OBVIOUS
  <2> QED BY <2>1, Zenon
<1>6. \A g \in N : \A i \in 1..n : at[g] = i <=> tokens[g].word.doc = rows[i].doc
  BY <1>1, <1>4, Zenon DEF PlotTable
<1>7. \A i \in 1..n : \A b \in 1..3 : seqs[i][b] = Cardinality({g \in N : at[g] = i /\ bin[g] = b})
  <2> SUFFICES ASSUME NEW i \in 1..n, NEW b \in 1..3
               PROVE  seqs[i][b] = Cardinality({g \in N : at[g] = i /\ bin[g] = b})
    BY Zenon
  <2> HIDE DEF at, bin, seqs
  <2>1. {g \in N : at[g] = i /\ bin[g] = b} = In(i, b)  BY <1>5, <1>6, Zenon
  <2>2. seqs[i][b] = Cardinality(In(i, b))
    <3> HIDE DEF In
    <3> QED BY <1>2, Zenon
  <2> QED BY <2>1, <2>2, Zenon
<1>8. seqs \in [1..n -> Seq(Nat)] /\ \A i \in 1..n : Len(seqs[i]) = 3
  <2>1. seqs = [d \in 1..n |-> seqs[d]]  BY <1>1, Zenon
  <2>2. \A i \in 1..n : seqs[i] \in Seq(Nat) /\ Len(seqs[i]) = 3
    <3> SUFFICES ASSUME NEW i \in 1..n PROVE seqs[i] \in Seq(Nat) /\ Len(seqs[i]) = 3
      BY Zenon
    <3> DEFINE s == seqs[i]
    <3>1. s = [b \in 1..3 |-> Cardinality(In(i, b))] /\ \A b \in 1..3 : Cardinality(In(i, b)) \in Nat
      <4> HIDE DEF In, seqs
      <4> QED BY <1>2, <1>3, Zenon
    <3> HIDE DEF In, s
    <3>2. s \in [1..3 -> Nat]  BY <3>1, Zenon
    <3>3. s \in Seq(Nat) /\ Len(s) = 3  BY <3>2, LenOfFunction
    <3> QED BY <3>3, Zenon DEF s
  <2> HIDE DEF seqs
  <2> QED BY <2>1, <2>2, Zenon
<1> HIDE DEF seqs, In, at, bin
<1>9. PICK off : Parts(off, seqs, n) /\ JoinedAt(flat, off, seqs, n) /\ Len(flat) = off[n]
  BY <1>8, FlattenJoins, Zenon DEF Joins
<1>10. flat \in Seq(Nat)  BY <1>8, FlattenTyped, Zenon
<1> HIDE DEF flat
<1>11. off[n] \in Nat /\ DOMAIN flat = 1..off[n]
  <2>1. n \in 0..n  OBVIOUS
  <2>2. DOMAIN flat = 1..Len(flat)  BY <1>10
  <2> QED BY <1>9, <2>1, <2>2, Zenon DEF Parts
<1> DEFINE place == [g \in N |-> off[at[g] - 1] + bin[g]]
<1>12. \A i, k \in 1..n : \A j, l \in 1..3 :
          (off[i - 1] + j = off[k - 1] + l => i = k /\ j = l) /\ off[i - 1] + j \in 1..off[n]
  <2> SUFFICES ASSUME NEW i \in 1..n, NEW k \in 1..n, NEW j \in 1..3, NEW l \in 1..3
               PROVE  (off[i - 1] + j = off[k - 1] + l => i = k /\ j = l) /\ off[i - 1] + j \in 1..off[n]
    BY Zenon
  <2>1. InOnePart(off, n, i, j, k, l)  BY <1>8, <1>9, PartsPartition, Zenon DEF Partition
  <2> QED BY <2>1, Zenon DEF InOnePart
<1>13. \A g \in N : place[g] \in 1..off[n]  BY <1>4, <1>5, <1>12, Zenon
<1>14. ASSUME NEW k \in 1..off[n] PROVE flat[k] = Cardinality(Placed(N, place, {k}))
  <2>0. InPart(off, seqs, n, k)  BY <1>9, PlaceInPart, Zenon
  <2>1. PICK i \in 1..n : \E j \in 1..Len(seqs[i]) : k = off[i - 1] + j  BY <2>0, Zenon DEF InPart
  <2>2. PICK j \in 1..3 : k = off[i - 1] + j  BY <1>8, <2>1, Zenon
  <2>3. flat[k] = seqs[i][j]  BY <1>8, <1>9, <2>2, Zenon DEF JoinedAt
  <2>4. \A g \in N : place[g] = k <=> at[g] = i /\ bin[g] = j
    <3> SUFFICES ASSUME NEW g \in N PROVE place[g] = k <=> at[g] = i /\ bin[g] = j
      BY Zenon
    <3>1. place[g] = off[at[g] - 1] + bin[g] /\ at[g] \in 1..n /\ bin[g] \in 1..3  BY <1>4, <1>5, Zenon
    <3> HIDE DEF place
    <3> QED BY <2>2, <3>1, <1>12, Zenon
  <2> HIDE DEF place
  <2>5. Placed(N, place, {k}) = {g \in N : at[g] = i /\ bin[g] = j}  BY <2>4, Zenon DEF Placed
  <2> QED BY <1>7, <2>3, <2>5, Zenon
<1> HIDE DEF place
<1> QED BY <1>11, <1>13, <1>14, ListAddsUp, Zenon DEF flat, seqs

\* The plot of a word shows it as often as it occurs (concordance_plot).
LEMMA PlotOfWord ==
    ASSUME NEW index, Tokens(index.tokens), NEW w, NEW lang, w \in DOMAIN Compound => lang = "zh", Normal[w] = w,
           RowsOfWord(index.tokens, lang, w) # {}, ~QueryFails(PlotQuery(w, lang))
    PROVE  PlotHolds(ConcordancePlot(index, PlotQuery(w, lang)), Cardinality(RowsOfWord(index.tokens, lang, w)))
<1> DEFINE tokens == index.tokens
           q == PlotQuery(w, lang)
           N == RowsOfWord(tokens, lang, w)
           rows == PlotRows(tokens, q)
           plot == ConcordancePlot(index, q)
<1>1. N = PlotNodes(tokens, q)  BY NodesOfWord, Zenon
<1>2. \A g \in N : g \in DOMAIN tokens /\ tokens[g].word.doc \in PlotDocs(tokens, lang)
  BY Zenon DEF RowsOfWord, RowsOf, PlotDocs
<1>3. plot.rows = rows /\ plot.total = Cardinality(N)
  <2>1. PlotShows(index, q)  BY PlotDrawn, Zenon
  <2> QED BY <1>1, <2>1, Zenon DEF PlotShows
<1> HIDE DEF N
<1>4. IsFiniteSet(N)  BY <1>2, TokensFinite, FS_Subset, Zenon
<1>5. PlotTable(tokens, N, rows)  BY <1>1, <1>2, PlotRowsCells, Zenon
<1> HIDE DEF rows, q
<1> HIDE DEF plot
<1> QED BY <1>3, <1>2, BinsHoldRows, <1>4, <1>5, CellsAddUp, Zenon DEF plot, N, q, PlotHolds

-----------------------------------------------------------------------------
(* A word has one frequency *)

\* A row of a word list says what the other lists, the cloud, the concordance and the plot say of its word.
WordAgrees(index, q, e) ==
    LET w == e.key[1]
        Split == w \in DOMAIN Compound /\ q.lang # "zh"
    IN  /\ HoldsCount(StaticWordList(index, Listing(index, q)).rows, e.key, e.frequency)
        /\ HoldsCount(DynamicWordList(index, Listing(index, q)).rows, e.key, e.frequency)
        /\ HoldsCount(Wordcloud(index, Listing(index, q)).rows, w, e.frequency)
        /\ ~Split /\ w \notin DOMAIN Pattern => TotalIs(SearchSimple(index, WordQuery(w, q.lang)), e.frequency)
        /\ ~Split /\ ~QueryFails([terms |-> <<w>>, lang |-> q.lang]) =>
                PlotHolds(ConcordancePlot(index, PlotQuery(w, q.lang)), e.frequency)

\* A query for the plot fails if one with its word and its language does.
LEMMA PlotFails ==
    ASSUME NEW w, NEW lang, ~QueryFails([terms |-> <<w>>, lang |-> lang])
    PROVE  ~QueryFails(PlotQuery(w, lang))
<1> DEFINE q == PlotQuery(w, lang)
           p == [terms |-> <<w>>, lang |-> lang]
<1>1. q.terms = p.terms /\ q.lang = p.lang  BY DEF PlotQuery
<1>2. ~QueryFails(p)  OBVIOUS
<1> HIDE DEF q, p
<1> QED BY <1>1, <1>2, Zenon DEF q, QueryFails

\* Every row that counts a word does.
LEMMA RowAgrees ==
    ASSUME NEW index, Totalled(index), NEW q, WordsQuery(q), Untagged(q), NEW e, CountOfWord(index.tokens, q, e)
    PROVE  WordAgrees(index, q, e)
<1> DEFINE tokens == index.tokens
           l == Listing(index, q)
<1>1. Tokens(tokens)  BY Zenon DEF Totalled
<1>2. PICK w : /\ Wanted(tokens, q, w) /\ e.key = WordKey(w)
               /\ e.frequency = Cardinality(RowsOfWord(tokens, q.lang, w))
  BY Zenon DEF CountOfWord
<1>3. Normal[w] = w /\ RowsOfWord(tokens, q.lang, w) # {}  BY <1>1, <1>2, WantedPlaced, Zenon DEF Wanted
<1>4. ListsAll(index, q, l)  BY ListingListsAll, Zenon
<1> HIDE DEF l
<1>5. HoldsCount(StaticWordList(index, l).rows, e.key, e.frequency) /\ HoldsCount(DynamicWordList(index, l).rows, e.key, e.frequency)
  BY <1>2, <1>4, ListsHoldWord, Zenon
<1>6. HoldsCount(Wordcloud(index, l).rows, w, e.frequency)  BY <1>2, <1>4, CloudHoldsWord, Zenon
<1>7. ASSUME w \in DOMAIN Compound => q.lang = "zh", w \notin DOMAIN Pattern
      PROVE  TotalIs(SearchSimple(index, WordQuery(w, q.lang)), e.frequency)
  BY <1>1, <1>2, <1>3, <1>7, ConcordanceOfWord, Zenon DEF TakesWord
<1>8. ASSUME w \in DOMAIN Compound => q.lang = "zh", ~QueryFails([terms |-> <<w>>, lang |-> q.lang])
      PROVE  PlotHolds(ConcordancePlot(index, PlotQuery(w, q.lang)), e.frequency)
  BY <1>1, <1>2, <1>3, <1>8, PlotFails, PlotOfWord, Zenon
<1> QED BY <1>2, WordKeys, <1>5, <1>6, <1>7, <1>8, Zenon DEF WordAgrees, l

\* What is published was indexed from the results of the importers.
LEMMA IndexTotalled ==
    ASSUME NEW c \in Corpora
    PROVE  Totalled(Artifacts(c).index)
<1> DEFINE i == Artifacts(c).index
<1>1. Index(c.results).tokens = TokenRows(c.results) /\ Index(c.results).totals = WordTotals(TokenRows(c.results))
  BY DEF Index
<1> HIDE DEF i
<1> QED BY ArtifactsFields, <1>1, Zenon DEF i, Totalled

\* A word has one frequency in every state that the reader can come to.
LEMMA FrequenciesShown == PagesInvariant => FrequenciesAgree
<1>0. \A page : page.view = "words" => page # NoVisit  BY DEF NoVisit
<1> SUFFICES ASSUME PagesInvariant, Shows("words"), visit.query.display = "type", ~visit.query.case, visit.query.tag = ""
             PROVE  FrequenciesAgree
  BY Zenon DEF FrequenciesAgree
<1> DEFINE q == visit.query
           index == visit.corpus.index
           rows == visit.answer.rows
<1>1. visit.view = "words" /\ ~IsError(visit.answer)  BY Zenon DEF Shows
<1>2. ShownPage(visit)  BY <1>0, <1>1, Zenon DEF PagesInvariant
<1>3. WordsQuery(q) /\ visit.answer = WordList(index, q) /\ q.page >= 1
  BY <1>1, <1>2, Zenon DEF ShownPage, WordsShown
<1>4. Totalled(index)  BY <1>2, IndexTotalled, Zenon DEF ShownPage
<1>5. Untagged(q)  BY Zenon DEF Untagged
<1>6. \A i \in DOMAIN rows : CountOfWord(index.tokens, q, rows[i])  BY <1>3, <1>4, <1>5, WordListCounts, Zenon
<1>7. \A i \in DOMAIN visit.answer.rows : WordAgrees(visit.corpus.index, visit.query, visit.answer.rows[i])
  BY <1>3, <1>4, <1>5, <1>6, RowAgrees, Zenon
<1> HIDE DEF q, index, rows
<1> QED
  BY <1>7, Zenon DEF FrequenciesAgree, WordAgrees, HoldsCount, Frequencies, Listing, TotalIs, PlotHolds, AddsUpTo, PlotQuery

-----------------------------------------------------------------------------
(* Rows of the words of a result *)

\* Every word of every sentence has its row, behind the rows of the earlier words of the sentence.
Laid(tokens, results, base) ==
    /\ \A r \in DOMAIN results : \A s \in DOMAIN results[r] : \A w \in 1..Len(results[r][s].words) :
            /\ base[<<r, s>>] \in Nat /\ base[<<r, s>>] + w \in DOMAIN tokens
            /\ tokens[base[<<r, s>>] + w].word = WordAt(results, r, s, w)
    /\ \A g \in DOMAIN tokens : \E r \in DOMAIN results : \E s \in DOMAIN results[r] :
            \E w \in 1..Len(results[r][s].words) : g = base[<<r, s>>] + w

\* The words of a sentence stand in it as in its rows.
SentenceLaid(results, r, s) ==
    LET words == SentenceWords(results, r, s)
        n == Len(results[r][s].words)
    IN  n \in Nat /\ Len(words) = n /\ \A w \in 1..n : words[w] = WordAt(results, r, s, w)

\* They do.
LEMMA SentencesLaid ==
    ASSUME NEW results, NEW r, NEW s, results[r][s] \in SentenceRecords
    PROVE  SentenceLaid(results, r, s)
<1> DEFINE list == results[r][s].words
           words == SentenceWords(results, r, s)
           n == Len(list)
<1>1. list \in Seq([text : DOMAIN Normal, tag : STRING])  BY DEF SentenceRecords
<1>2. n \in Nat /\ DOMAIN list = 1..n
  <2> HIDE DEF list
  <2> QED BY <1>1, LenProperties, Zenon
<1>3. words = [w \in 1..n |-> WordAt(results, r, s, w)]  BY <1>2, Zenon DEF SentenceWords
<1> HIDE DEF words, list
<1>4. Len(words) = n /\ \A w \in 1..n : words[w] = WordAt(results, r, s, w)  BY <1>2, <1>3, LenOfFunction
<1> QED BY <1>2, <1>4, Zenon DEF SentenceLaid, words, list

\* The table of words has them there (TokenRows).
LEMMA TokensLaid ==
    ASSUME NEW results, results \in Seq(Seq(SentenceRecords))
    PROVE  \E base : Laid(TokenRows(results), results, base)
<1> DEFINE tokens == TokenRows(results)
           written == WrittenWords(results)
           m == Len(results)
           Size(r) == Len(results[r])
           Parts1 == [r \in 1..m |-> ResultWords(results, r)]
           Parts2(r) == [s \in 1..Size(r) |-> SentenceWords(results, r, s)]
           Inner(r, o) == Parts(o, Parts2(r), Size(r)) /\ JoinedAt(ResultWords(results, r), o, Parts2(r), Size(r))
                       /\ Len(ResultWords(results, r)) = o[Size(r)]
           inner == [r \in 1..m |-> CHOOSE o : Inner(r, o)]
<1>1. /\ m \in Nat /\ DOMAIN results = 1..m /\ Parts1 \in [1..m -> Seq(WordRecords)]
      /\ written = FlattenSeq(Parts1) /\ written \in Seq(WordRecords)
      /\ \A r \in 1..m : ResultTyped(results, r)
  BY WrittenWordsTyped, Zenon DEF AllWritten
<1>2. \A r \in 1..m : /\ Size(r) \in Nat /\ DOMAIN results[r] = 1..Size(r)
                      /\ \A s \in 1..Size(r) : results[r][s] \in SentenceRecords
                      /\ Parts2(r) \in [1..Size(r) -> Seq(WordRecords)]
                      /\ ResultWords(results, r) = FlattenSeq(Parts2(r))
  BY <1>1, Zenon DEF ResultTyped
<1>3. DOMAIN tokens = DOMAIN written /\ \A g \in DOMAIN tokens : tokens[g].word = written[g]
  <2> DEFINE Stream(g) == Cardinality({h \in 1..g : written[h].doc = written[g].doc /\ written[h].lang = written[g].lang})
  <2>1. tokens = [g \in DOMAIN written |-> [word |-> written[g], row |-> g, stream |-> Stream(g)]]
    BY Zenon DEF TokenRows, WrittenWords, ResultWords, SentenceWords, WordAt
  <2> HIDE DEF Stream, written, tokens
  <2> QED BY <2>1
<1>4. \A r \in 1..m : \A s \in 1..Size(r) : SentenceLaid(results, r, s)  BY <1>2, SentencesLaid, Zenon
<1>5. /\ \A r \in 1..m : Parts1[r] = ResultWords(results, r)
      /\ \A r \in 1..m : \A s \in 1..Size(r) : Parts2(r)[s] = SentenceWords(results, r, s)
  BY Zenon
<1> HIDE DEF tokens, written, m, Size, Parts1, Parts2
<1>6. PICK off : Parts(off, Parts1, m) /\ JoinedAt(written, off, Parts1, m) /\ Len(written) = off[m]
  BY <1>1, FlattenJoins, Zenon DEF Joins
<1>7. \A r \in 1..m : Inner(r, inner[r])
  <2> TAKE r \in 1..m
  <2> QED BY <1>2, FlattenJoins, Zenon DEF Joins
<1> HIDE DEF inner
<1>8. Partition(off, Parts1, m) /\ \A r \in 1..m : Partition(inner[r], Parts2(r), Size(r))
  BY <1>6, <1>7, PartsPartition, Zenon
<1>9. m \in 0..m /\ DOMAIN written = 1..Len(written)  BY <1>1
<1> DEFINE base == [p \in Nat \X Nat |-> off[p[1] - 1] + inner[p[1]][p[2] - 1]]
<1>10. ASSUME NEW r \in 1..m, NEW s \in 1..Size(r)
       PROVE  /\ off[r - 1] \in Nat /\ inner[r][s - 1] \in Nat /\ base[<<r, s>>] \in Nat
              /\ \A w \in Nat : base[<<r, s>>] + w = off[r - 1] + (inner[r][s - 1] + w)
  <2>1. Size(r) \in Nat  BY <1>2, Zenon
  <2>2. r - 1 \in 0..m /\ s - 1 \in 0..Size(r) /\ r \in Nat /\ s \in Nat  BY <1>1, <2>1
  <2>3. off[r - 1] \in Nat /\ inner[r][s - 1] \in Nat  BY <1>6, <1>7, <2>2, Zenon DEF Parts
  <2>4. <<r, s>> \in Nat \X Nat /\ <<r, s>>[1] = r /\ <<r, s>>[2] = s  BY <2>2
  <2>5. base[<<r, s>>] = off[r - 1] + inner[r][s - 1]  BY <2>4, Zenon
  <2> DEFINE a == off[r - 1]
             b == inner[r][s - 1]
  <2>6. a \in Nat /\ b \in Nat  BY <2>3, Zenon
  <2> HIDE DEF base, a, b
  <2>7. a + b \in Nat /\ \A w \in Nat : (a + b) + w = a + (b + w)  BY <2>6
  <2> QED BY <2>3, <2>5, <2>7, Zenon DEF a, b
<1> HIDE DEF base
<1>11. ASSUME NEW r \in 1..m, NEW s \in 1..Size(r), NEW w \in 1..Len(results[r][s].words)
       PROVE  /\ base[<<r, s>>] \in Nat /\ base[<<r, s>>] + w \in DOMAIN tokens
              /\ tokens[base[<<r, s>>] + w].word = WordAt(results, r, s, w)
  <2> DEFINE p == inner[r][s - 1] + w
  <2>1. w \in Nat /\ w \in 1..Len(Parts2(r)[s]) /\ Parts2(r)[s][w] = WordAt(results, r, s, w)
    <3>1. Len(results[r][s].words) \in Nat => w \in Nat  OBVIOUS
    <3> QED BY <1>5, <1>4, <3>1, Zenon DEF SentenceLaid
  <2>2. InOnePart(inner[r], Size(r), s, w, s, w)  BY <1>8, <2>1, Zenon DEF Partition
  <2>3. p \in 1..Len(Parts1[r]) /\ Parts1[r][p] = Parts2(r)[s][w]
    BY <1>5, <1>7, <2>1, <2>2, Zenon DEF InOnePart, JoinedAt
  <2> HIDE DEF p
  <2>4. off[r - 1] + p \in 1..off[m] /\ written[off[r - 1] + p] = Parts1[r][p]
    BY <1>6, <2>3, <1>8, Zenon DEF InOnePart, JoinedAt, Partition
  <2>5. base[<<r, s>>] + w = off[r - 1] + p /\ base[<<r, s>>] \in Nat  BY <1>10, <2>1, Zenon DEF p
  <2> QED BY <1>3, <1>6, <1>9, <2>1, <2>3, <2>4, <2>5, Zenon
<1>12. ASSUME NEW g \in DOMAIN tokens
       PROVE  \E r \in 1..m : \E s \in 1..Size(r) : \E w \in 1..Len(results[r][s].words) : g = base[<<r, s>>] + w
  <2>1. PICK r \in 1..m : \E p \in 1..Len(Parts1[r]) : g = off[r - 1] + p
    BY <1>3, <1>6, <1>8, <1>9, Zenon DEF InPart, Partition
  <2>2. PICK p \in 1..Len(Parts1[r]) : g = off[r - 1] + p  BY <2>1, Zenon
  <2>3. InPart(inner[r], Parts2(r), Size(r), p)  BY <1>5, <1>7, <1>8, <2>2, Zenon DEF Partition
  <2>4. PICK s \in 1..Size(r) : \E w \in 1..Len(Parts2(r)[s]) : p = inner[r][s - 1] + w
    BY <2>3, Zenon DEF InPart
  <2>5. PICK w \in 1..Len(Parts2(r)[s]) : p = inner[r][s - 1] + w  BY <2>4, Zenon
  <2>6. w \in Nat /\ w \in 1..Len(results[r][s].words)
    <3>1. Len(results[r][s].words) \in Nat => \A v \in 1..Len(results[r][s].words) : v \in Nat  OBVIOUS
    <3> QED BY <1>5, <1>4, <3>1, <2>5, Zenon DEF SentenceLaid
  <2> QED BY <2>6, <1>10, <2>2, <2>5, Zenon
<1>13. Laid(tokens, results, base)
  <2>1. \A r \in 1..m : r \in DOMAIN results /\ \A s \in 1..Size(r) : s \in DOMAIN results[r]
    BY <1>1, <1>2, Zenon
  <2>2. \A g \in DOMAIN tokens : \E r \in DOMAIN results : \E s \in DOMAIN results[r] :
          \E w \in 1..Len(results[r][s].words) : g = base[<<r, s>>] + w
    BY <1>12, <2>1, Zenon
  <2> QED BY <1>11, <1>1, <1>2, <2>2, Zenon DEF Laid
<1> QED BY <1>13, Zenon DEF tokens

-----------------------------------------------------------------------------
(* The n-grams of the table of words *)

\* A window of n words from row g that stays inside its sentence, and the gram in it.
Reaches(tokens, g, n) == g + n - 1 \in DOMAIN tokens /\ tokens[g + n - 1].word.sentence = tokens[g].word.sentence
GramAtRow(tokens, g, n) == <<tokens[g].word.lang, WindowText(tokens, g, n)>>

\* A window of a result stands at row g of the table of words.
StandsAt(tokens, result, r, at, g) ==
    /\ g \in DOMAIN tokens /\ tokens[g].word.sentence[1] = r /\ Reaches(tokens, g, at.size)
    /\ GramAtRow(tokens, g, at.size) = GramAt(result, at)
    /\ tokens[g].word.doc = result[at.sentence].doc
    /\ \A i \in 1..at.size : tokens[g + i - 1].word.text = result[at.sentence].words[at.first + i - 1].text

\* The words of a window are in the rows behind its first.
LEMMA WindowStands ==
    ASSUME NEW tokens, NEW results, NEW base, Laid(tokens, results, base), NEW r \in DOMAIN results,
           NEW s \in DOMAIN results[r], Len(results[r][s].words) \in Nat, NEW n \in Nat \ {0},
           NEW f \in 1..(Len(results[r][s].words) - n + 1), NEW at, at.sentence = s, at.size = n, at.first = f
    PROVE  StandsAt(tokens, results[r], r, at, base[<<r, s>>] + f)
<1> DEFINE words == results[r][s].words
           m == Len(words)
           b == base[<<r, s>>]
           g == b + f
<1>1. \A w \in 1..m : b \in Nat /\ b + w \in DOMAIN tokens /\ tokens[b + w].word = WordAt(results, r, s, w)
  BY Zenon DEF Laid
<1>2. m \in Nat /\ f \in 1..(m - n + 1)  BY Zenon
<1> HIDE DEF m, b
<1>3. \A i \in 1..n : f + i - 1 \in 1..m  BY <1>2
<1>4. f \in 1..m /\ f + n - 1 \in 1..m /\ n \in 1..n  BY <1>2
<1>5. b \in Nat  BY <1>1, <1>4, Zenon
<1>6. \A i \in 1..n : g + i - 1 = b + (f + i - 1)  BY <1>2, <1>5
<1>7. \A i \in 1..n : g + i - 1 \in DOMAIN tokens /\ tokens[g + i - 1].word = WordAt(results, r, s, f + i - 1)
  BY <1>1, <1>3, <1>6, Zenon
<1>8. g \in DOMAIN tokens /\ tokens[g].word = WordAt(results, r, s, f)  BY <1>1, <1>4, Zenon
<1>9. \A w : /\ WordAt(results, r, s, w).text = words[w].text /\ WordAt(results, r, s, w).doc = results[r][s].doc
             /\ WordAt(results, r, s, w).lang = results[r][s].lang /\ WordAt(results, r, s, w).sentence = <<r, s>>
  BY DEF WordAt
<1> HIDE DEF g, words
<1>10. tokens[g].word.sentence[1] = r /\ Reaches(tokens, g, n) /\ tokens[g].word.doc = results[r][s].doc
       /\ tokens[g].word.lang = results[r][s].lang
  <2>1. <<r, s>>[1] = r  OBVIOUS
  <2>2. g + n - 1 \in DOMAIN tokens /\ tokens[g + n - 1].word.sentence = <<r, s>>  BY <1>4, <1>7, <1>9, Zenon
  <2> QED BY <2>1, <1>8, <1>9, <2>2, Zenon DEF Reaches
<1>11. \A i \in 1..n : tokens[g + i - 1].word.text = words[f + i - 1].text  BY <1>7, <1>9, Zenon
<1>12. GramAtRow(tokens, g, n) = GramAt(results[r], at)
  BY <1>10, <1>11, Zenon DEF GramAtRow, WindowText, NormalAt, GramAt, words
<1> QED BY <1>8, <1>10, <1>11, <1>12, Zenon DEF g, b, StandsAt, words

\* A row from which n words stand in its sentence.
BeginsWindow(results, base, g, n) ==
    \E r \in DOMAIN results : \E s \in DOMAIN results[r] : \E f \in 1..(Len(results[r][s].words) - n + 1) :
        g = base[<<r, s>>] + f

\* It is the first of a window.
LEMMA RowInWindow ==
    ASSUME NEW tokens, NEW results, NEW base, Laid(tokens, results, base),
           \A r \in DOMAIN results : \A s \in DOMAIN results[r] : Len(results[r][s].words) \in Nat,
           NEW n \in Nat \ {0}, NEW g \in DOMAIN tokens, Reaches(tokens, g, n)
    PROVE  BeginsWindow(results, base, g, n)
<1>1. PICK r \in DOMAIN results : \E s \in DOMAIN results[r] : \E w \in 1..Len(results[r][s].words) :
          g = base[<<r, s>>] + w
  BY Zenon DEF Laid
<1>2. PICK s \in DOMAIN results[r] : \E w \in 1..Len(results[r][s].words) : g = base[<<r, s>>] + w
  BY <1>1, Zenon
<1>3. PICK f \in 1..Len(results[r][s].words) : g = base[<<r, s>>] + f  BY <1>2, Zenon
<1> DEFINE h == g + n - 1
<1>4. h \in DOMAIN tokens /\ tokens[h].word.sentence = tokens[g].word.sentence  BY Zenon DEF Reaches
<1> HIDE DEF h
<1>5. PICK t \in DOMAIN results : \E u \in DOMAIN results[t] : \E w \in 1..Len(results[t][u].words) :
          h = base[<<t, u>>] + w
  BY <1>4, Zenon DEF Laid
<1>6. PICK u \in DOMAIN results[t] : \E w \in 1..Len(results[t][u].words) : h = base[<<t, u>>] + w
  BY <1>5, Zenon
<1>7. PICK w \in 1..Len(results[t][u].words) : h = base[<<t, u>>] + w  BY <1>6, Zenon
<1>8. tokens[g].word = WordAt(results, r, s, f) /\ tokens[h].word = WordAt(results, t, u, w) /\ base[<<r, s>>] \in Nat
  BY <1>3, <1>7, Zenon DEF Laid
<1>9. <<r, s>> = <<t, u>>
  <2>1. \A a, b, c : WordAt(results, a, b, c).sentence = <<a, b>>  BY DEF WordAt
  <2> QED BY <1>4, <1>8, <2>1, Zenon
<1>10. r = t /\ s = u  BY <1>9
<1> DEFINE b == base[<<r, s>>]
           m == Len(results[r][s].words)
<1>11. g = b + f /\ h = b + w /\ b \in Nat /\ m \in Nat /\ f \in 1..m /\ w \in 1..m
  BY <1>3, <1>7, <1>8, <1>10, Zenon
<1> HIDE DEF b, m
<1>12. f \in 1..(m - n + 1)
  <2>1. h = g + n - 1  BY Zenon DEF h
  <2> QED BY <1>11, <2>1
<1> QED BY <1>11, <1>12, Zenon DEF BeginsWindow, b, m

\* The rows from which a gram stands in the results of t, and the table that counts them.
GramRows(tokens, t, k) ==
    {g \in DOMAIN tokens : /\ tokens[g].word.sentence[1] \in t /\ Reaches(tokens, g, Len(k[2]))
                           /\ GramAtRow(tokens, g, Len(k[2])) = k}
GramKeys(tokens, t) ==
    UNION {{GramAtRow(tokens, g, n) : g \in {h \in DOMAIN tokens : tokens[h].word.sentence[1] \in t /\ Reaches(tokens, h, n)}} :
            n \in GramSizes}
GramEntry(tokens, rows, n) ==
    [frequency |-> Cardinality(rows), range |-> Cardinality({tokens[g].word.doc : g \in rows}),
     symbol |-> \E g \in rows : \E i \in 1..n : tokens[g + i - 1].word.text \in Symbols]
GramTable(tokens, t) == [k \in GramKeys(tokens, t) |-> GramEntry(tokens, GramRows(tokens, t, k), Len(k[2]))]

\* A gram is as long as its window.
LEMMA GramLength ==
    ASSUME NEW tokens, NEW g, NEW n \in Nat
    PROVE  Len(GramAtRow(tokens, g, n)[2]) = n
<1> DEFINE text == WindowText(tokens, g, n)
<1>1. text = [i \in 1..n |-> NormalAt(tokens, g + i - 1)]  BY Zenon DEF WindowText
<1> HIDE DEF text
<1>2. Len(text) = n
  <2> DEFINE X == {text[i] : i \in 1..n}
  <2> HIDE DEF X
  <2> QED BY <1>1, LenOfFunction
<1>3. GramAtRow(tokens, g, n)[2] = text  BY DEF GramAtRow, text
<1> QED BY <1>2, <1>3, Zenon

\* A gram is in the table if it has the size of one and stands somewhere.
IsKey(tokens, t, k) == k \in GramKeys(tokens, t) <=> Len(k[2]) \in GramSizes /\ GramRows(tokens, t, k) # {}

\* It is.
LEMMA KeysOfGrams ==
    ASSUME NEW tokens, NEW t, NEW k
    PROVE  IsKey(tokens, t, k)
<1>1. ASSUME k \in GramKeys(tokens, t) PROVE Len(k[2]) \in GramSizes /\ GramRows(tokens, t, k) # {}
  <2>1. PICK n \in GramSizes : \E g \in DOMAIN tokens :
          tokens[g].word.sentence[1] \in t /\ Reaches(tokens, g, n) /\ k = GramAtRow(tokens, g, n)
    BY <1>1, Zenon DEF GramKeys
  <2>2. PICK g \in DOMAIN tokens : tokens[g].word.sentence[1] \in t /\ Reaches(tokens, g, n) /\ k = GramAtRow(tokens, g, n)
    BY <2>1, Zenon
  <2>3. n \in Nat  BY GramSizesAssumption
  <2> QED BY <2>3, GramLength, <2>2, Zenon DEF GramRows
<1>2. ASSUME Len(k[2]) \in GramSizes, GramRows(tokens, t, k) # {} PROVE k \in GramKeys(tokens, t)
  <2>1. PICK g \in DOMAIN tokens : /\ tokens[g].word.sentence[1] \in t /\ Reaches(tokens, g, Len(k[2]))
                                   /\ GramAtRow(tokens, g, Len(k[2])) = k
    BY <1>2, Zenon DEF GramRows
  <2> DEFINE Of(n) == {GramAtRow(tokens, h, n) : h \in {h \in DOMAIN tokens : tokens[h].word.sentence[1] \in t /\ Reaches(tokens, h, n)}}
  <2>2. k \in Of(Len(k[2]))  BY <2>1, Zenon
  <2>3. GramKeys(tokens, t) = UNION {Of(n) : n \in GramSizes}  BY Zenon DEF GramKeys
  <2> HIDE DEF Of
  <2>4. \A n \in GramSizes : k \in Of(n) => k \in UNION {Of(m) : m \in GramSizes}  BY SMT
  <2> QED BY <1>2, <2>2, <2>3, <2>4, Zenon
<1> QED BY <1>1, <1>2, Zenon DEF IsKey

\* The windows of a result: of each size in GramSizes, from each word of a sentence that has enough behind it.
IsWindow(result, at) ==
    at \in GramWindows(result) <=>
        \E s \in DOMAIN result : \E n \in GramSizes : \E f \in 1..(Len(result[s].words) - n + 1) :
            at = [sentence |-> s, size |-> n, first |-> f]

\* They are these.
LEMMA WindowsOfResult ==
    ASSUME NEW result, \A s \in DOMAIN result : Len(result[s].words) \in Nat, NEW at
    PROVE  IsWindow(result, at)
<1> DEFINE sizes == {m \in GramSizes : \E s \in DOMAIN result : m <= Len(result[s].words)}
           Of(s, n) == [sentence : {s}, size : {n}, first : 1..(Len(result[s].words) - n + 1)]
<1>1. at \in GramWindows(result) <=> \E s \in DOMAIN result : \E n \in sizes : at \in Of(s, n)
  <2> DEFINE D == DOMAIN result
  <2>1. GramWindows(result) = UNION {Of(s, n) : s \in D, n \in sizes}  BY DEF GramWindows
  <2> HIDE DEF Of, D, sizes
  <2>2. at \in UNION {Of(s, n) : s \in D, n \in sizes} <=> \E s \in D : \E n \in sizes : at \in Of(s, n)
    BY SMT
  <2> QED BY <2>1, <2>2 DEF D
<1>2. \A s, n : at \in Of(s, n) <=> \E f \in 1..(Len(result[s].words) - n + 1) : at = [sentence |-> s, size |-> n, first |-> f]
  <2> SUFFICES ASSUME NEW s, NEW n
               PROVE  at \in Of(s, n) <=> \E f \in 1..(Len(result[s].words) - n + 1) : at = [sentence |-> s, size |-> n, first |-> f]
    BY Zenon
  <2> DEFINE F == 1..(Len(result[s].words) - n + 1)
  <2> HIDE DEF F
  <2>1. at \in [sentence : {s}, size : {n}, first : F] <=> \E f \in F : at = [sentence |-> s, size |-> n, first |-> f]
    OBVIOUS
  <2> QED BY <2>1, Zenon DEF F
<1>3. \A s \in DOMAIN result : \A n \in GramSizes : \A f \in 1..(Len(result[s].words) - n + 1) : n \in sizes
  <2> SUFFICES ASSUME NEW s \in DOMAIN result, NEW n \in GramSizes, NEW f \in 1..(Len(result[s].words) - n + 1)
               PROVE  n <= Len(result[s].words)
    BY Zenon
  <2> QED BY GramSizesAssumption
<1>4. \A n \in sizes : n \in GramSizes  BY Zenon
<1> HIDE DEF sizes, Of
<1> QED BY <1>1, <1>2, <1>3, <1>4, Zenon DEF IsWindow

-----------------------------------------------------------------------------
(* The n-grams of a result *)

\* The sentences of the results have lengths.
Sized(results) == \A r \in DOMAIN results : \A s \in DOMAIN results[r] : Len(results[r][s].words) \in Nat

\* Where a window of result r begins.
PlaceAt(base, r, at) == base[<<r, at.sentence>>] + at.first

\* The windows of a result are the windows of its rows: a window stands where its words are, ...
WindowsPlaced(tokens, results, base, r) ==
    \A at \in GramWindows(results[r]) :
        at.size \in GramSizes /\ StandsAt(tokens, results[r], r, at, PlaceAt(base, r, at))

\* ... where there is room for one, there is one, ...
WindowsComplete(tokens, results, base, r) ==
    \A n \in GramSizes : \A g \in DOMAIN tokens : tokens[g].word.sentence[1] = r /\ Reaches(tokens, g, n) =>
        \E at \in GramWindows(results[r]) : at.size = n /\ PlaceAt(base, r, at) = g

\* ... and no more than one of a size.
WindowsApart(results, base, r) ==
    \A at, bt \in GramWindows(results[r]) :
        at.size = bt.size /\ PlaceAt(base, r, at) = PlaceAt(base, r, bt) => at = bt

\* A window of a result begins at a word of a sentence.
IsWindowOf(results, r, at, s, n, f) ==
    /\ s \in DOMAIN results[r] /\ n \in GramSizes /\ f \in 1..(Len(results[r][s].words) - n + 1)
    /\ at = [sentence |-> s, size |-> n, first |-> f]

\* It does.
LEMMA WindowFields ==
    ASSUME NEW results, Sized(results), NEW r \in DOMAIN results, NEW at \in GramWindows(results[r])
    PROVE  IsWindowOf(results, r, at, at.sentence, at.size, at.first)
<1>1. PICK s \in DOMAIN results[r] : \E n \in GramSizes : \E f \in 1..(Len(results[r][s].words) - n + 1) :
          at = [sentence |-> s, size |-> n, first |-> f]
  BY WindowsOfResult, Zenon DEF IsWindow, Sized
<1>2. PICK n \in GramSizes : \E f \in 1..(Len(results[r][s].words) - n + 1) : at = [sentence |-> s, size |-> n, first |-> f]
  BY <1>1, Zenon
<1>3. PICK f \in 1..(Len(results[r][s].words) - n + 1) : at = [sentence |-> s, size |-> n, first |-> f]
  BY <1>2, Zenon
<1>4. at.sentence = s /\ at.size = n /\ at.first = f  BY <1>3
<1> QED BY <1>1, <1>2, <1>3, <1>4, Zenon DEF IsWindowOf

\* Windows stand where their words are.
LEMMA WindowsArePlaced ==
    ASSUME NEW tokens, NEW results, NEW base, Laid(tokens, results, base), Sized(results), NEW r \in DOMAIN results
    PROVE  WindowsPlaced(tokens, results, base, r)
<1> SUFFICES ASSUME NEW at \in GramWindows(results[r])
             PROVE  at.size \in GramSizes /\ StandsAt(tokens, results[r], r, at, PlaceAt(base, r, at))
  BY Zenon DEF WindowsPlaced
<1> DEFINE s == at.sentence
           n == at.size
           f == at.first
<1> QED BY WindowFields, GramSizesAssumption, WindowStands, Zenon DEF PlaceAt, Sized, IsWindowOf

\* Where there is room for a window, there is one.
LEMMA WindowsAreComplete ==
    ASSUME NEW tokens, NEW results, NEW base, Laid(tokens, results, base), Sized(results), NEW r \in DOMAIN results
    PROVE  WindowsComplete(tokens, results, base, r)
<1> SUFFICES ASSUME NEW n \in GramSizes, NEW g \in DOMAIN tokens, tokens[g].word.sentence[1] = r, Reaches(tokens, g, n)
             PROVE  \E at \in GramWindows(results[r]) : at.size = n /\ PlaceAt(base, r, at) = g
  BY Zenon DEF WindowsComplete
<1>1. n \in Nat \ {0}  BY GramSizesAssumption
<1>2. BeginsWindow(results, base, g, n)  BY <1>1, RowInWindow, Zenon DEF Sized
<1>3. PICK q \in DOMAIN results : \E s \in DOMAIN results[q] : \E f \in 1..(Len(results[q][s].words) - n + 1) :
          g = base[<<q, s>>] + f
  BY <1>2, Zenon DEF BeginsWindow
<1>4. PICK s \in DOMAIN results[q] : \E f \in 1..(Len(results[q][s].words) - n + 1) : g = base[<<q, s>>] + f
  BY <1>3, Zenon
<1>5. PICK f \in 1..(Len(results[q][s].words) - n + 1) : g = base[<<q, s>>] + f  BY <1>4, Zenon
<1> DEFINE at == [sentence |-> s, size |-> n, first |-> f]
<1>6. at.sentence = s /\ at.size = n /\ at.first = f  OBVIOUS
<1> HIDE DEF at
<1>7. StandsAt(tokens, results[q], q, at, g)  BY <1>1, <1>5, <1>6, WindowStands, Zenon DEF Sized
<1>8. at \in GramWindows(results[q])  BY <1>4, <1>5, WindowsOfResult, Zenon DEF IsWindow, at, Sized
<1> QED BY <1>5, <1>6, <1>7, <1>8, Zenon DEF PlaceAt, StandsAt

\* Windows of the same size begin at different rows.
LEMMA WindowsAreApart ==
    ASSUME NEW tokens, NEW results, NEW base, Laid(tokens, results, base), Sized(results), NEW r \in DOMAIN results
    PROVE  WindowsApart(results, base, r)
<1> SUFFICES ASSUME NEW at \in GramWindows(results[r]), NEW bt \in GramWindows(results[r]), at.size = bt.size,
                    PlaceAt(base, r, at) = PlaceAt(base, r, bt)
             PROVE  at = bt
  BY Zenon DEF WindowsApart
<1> DEFINE Word(x) == /\ base[<<r, x.sentence>>] \in Nat /\ x.first \in Nat
                      /\ tokens[PlaceAt(base, r, x)].word.sentence = <<r, x.sentence>>
                      /\ x = [sentence |-> x.sentence, size |-> x.size, first |-> x.first]
<1>1. \A x \in GramWindows(results[r]) : Word(x)
  <2> SUFFICES ASSUME NEW x \in GramWindows(results[r]) PROVE Word(x)
    BY Zenon
  <2> DEFINE s == x.sentence
             n == x.size
             f == x.first
             m == Len(results[r][s].words)
  <2>1. s \in DOMAIN results[r] /\ n \in GramSizes /\ f \in 1..(m - n + 1) /\ x = [sentence |-> s, size |-> n, first |-> f]
    BY WindowFields, Zenon DEF IsWindowOf
  <2>2. n \in Nat \ {0} /\ m \in Nat  BY <2>1, GramSizesAssumption, Zenon DEF Sized
  <2>3. f \in 1..m /\ f \in Nat
    <3> HIDE DEF n, m, f
    <3> QED BY <2>1, <2>2
  <2>4. WordAt(results, r, s, f).sentence = <<r, s>>  BY DEF WordAt
  <2> QED BY <2>1, <2>3, <2>4, Zenon DEF PlaceAt, Laid
<1>2. Word(at) /\ Word(bt)  BY <1>1, Zenon
<1>3. <<r, at.sentence>> = <<r, bt.sentence>>  BY <1>2, Zenon
<1>4. at.sentence = bt.sentence  BY <1>3
<1> DEFINE b == base[<<r, at.sentence>>]
<1>5. b \in Nat /\ at.first \in Nat /\ bt.first \in Nat /\ b + at.first = b + bt.first
  BY <1>2, <1>4, Zenon DEF PlaceAt
<1>6. at.first = bt.first
  <2> DEFINE i == at.first
             j == bt.first
  <2> HIDE DEF b, i, j
  <2> QED BY <1>5 DEF i, j
<1> QED BY <1>2, <1>4, <1>6, Zenon

\* The windows of a result that hold a gram, and the rows from which it stands there.
Held(result, k) == {at \in GramWindows(result) : GramAt(result, at) = k}

\* They are as many; the rows have the documents and the words of the windows.
HeldInRows(tokens, result, rows, k) ==
    /\ Cardinality(Held(result, k)) = Cardinality(rows)
    /\ {result[at.sentence].doc : at \in Held(result, k)} = {tokens[g].word.doc : g \in rows}
    /\ (\E at \in Held(result, k) : \E i \in 1..at.size : result[at.sentence].words[at.first + i - 1].text \in Symbols)
            <=> \E g \in rows : \E i \in 1..Len(k[2]) : tokens[g + i - 1].word.text \in Symbols

\* A window that holds the gram is as long as it, and stands at one of the rows.
WindowFits(tokens, results, base, r, k, at) ==
    /\ at.size = Len(k[2]) /\ PlaceAt(base, r, at) \in GramRows(tokens, {r}, k)
    /\ StandsAt(tokens, results[r], r, at, PlaceAt(base, r, at))

\* It does.
LEMMA WindowsFit ==
    ASSUME NEW tokens, NEW results, NEW base, NEW r, WindowsPlaced(tokens, results, base, r), NEW k,
           NEW at \in Held(results[r], k)
    PROVE  WindowFits(tokens, results, base, r, k, at)
<1> DEFINE g == PlaceAt(base, r, at)
<1>1. at \in GramWindows(results[r]) /\ GramAt(results[r], at) = k  BY Zenon DEF Held
<1>2. at.size \in GramSizes /\ StandsAt(tokens, results[r], r, at, g)  BY <1>1, Zenon DEF WindowsPlaced
<1> HIDE DEF g
<1>3. at.size \in Nat  BY <1>2, GramSizesAssumption
<1>4. GramAtRow(tokens, g, at.size) = k /\ g \in DOMAIN tokens /\ tokens[g].word.sentence[1] = r /\ Reaches(tokens, g, at.size)
  BY <1>1, <1>2, Zenon DEF StandsAt
<1>5. Len(k[2]) = at.size  BY <1>3, <1>4, GramLength, Zenon
<1>6. g \in GramRows(tokens, {r}, k)  BY <1>4, <1>5, Zenon DEF GramRows
<1> QED BY <1>2, <1>5, <1>6, Zenon DEF WindowFits, g

\* Where a gram of the table stands there is a window that holds it.
RowsHold(tokens, results, base, r, k) ==
    \A g \in GramRows(tokens, {r}, k) : \E at \in Held(results[r], k) : PlaceAt(base, r, at) = g

\* There is.
LEMMA RowsHoldWindows ==
    ASSUME NEW tokens, NEW results, NEW base, NEW r, WindowsPlaced(tokens, results, base, r),
           WindowsComplete(tokens, results, base, r), NEW k, Len(k[2]) \in GramSizes
    PROVE  RowsHold(tokens, results, base, r, k)
<1> SUFFICES ASSUME NEW g \in GramRows(tokens, {r}, k)
             PROVE  \E at \in Held(results[r], k) : PlaceAt(base, r, at) = g
  BY Zenon DEF RowsHold
<1> DEFINE n == Len(k[2])
<1>1. g \in DOMAIN tokens /\ tokens[g].word.sentence[1] = r /\ Reaches(tokens, g, n) /\ GramAtRow(tokens, g, n) = k
  BY Zenon DEF GramRows
<1>2. PICK at \in GramWindows(results[r]) : at.size = n /\ PlaceAt(base, r, at) = g
  BY <1>1, Zenon DEF WindowsComplete
<1> QED BY <1>2, <1>1, Zenon DEF Held, StandsAt, WindowsPlaced

\* The windows of a gram are as many as its rows, with their documents and words.
LEMMA HeldAreRows ==
    ASSUME NEW tokens, IsFiniteSet(DOMAIN tokens), NEW results, NEW base, NEW r, WindowsPlaced(tokens, results, base, r),
           WindowsComplete(tokens, results, base, r), WindowsApart(results, base, r), NEW k, Len(k[2]) \in GramSizes
    PROVE  HeldInRows(tokens, results[r], GramRows(tokens, {r}, k), k)
<1> DEFINE rows == GramRows(tokens, {r}, k)
           H == Held(results[r], k)
           P(at) == PlaceAt(base, r, at)
           result == results[r]
           n == Len(k[2])
<1>1. \A at \in H : WindowFits(tokens, results, base, r, k, at)  BY WindowsFit, Zenon
<1>2. \A g \in rows : \E at \in H : P(at) = g
  <2>1. RowsHold(tokens, results, base, r, k)  BY RowsHoldWindows, Zenon
  <2> QED BY <2>1, Zenon DEF RowsHold
<1>3. \A at, bt \in H : P(at) = P(bt) => at = bt  BY <1>1, Zenon DEF WindowsApart, WindowFits, Held
<1>4. \A at \in H : /\ at.size = n /\ P(at) \in rows /\ tokens[P(at)].word.doc = result[at.sentence].doc
                    /\ \A i \in 1..n : tokens[P(at) + i - 1].word.text = result[at.sentence].words[at.first + i - 1].text
  BY <1>1, Zenon DEF WindowFits, StandsAt
<1>5. IsFiniteSet(rows)  BY FS_Subset, Zenon DEF GramRows
<1> HIDE DEF rows, H, P, result, n
<1>6. Cardinality(rows) = Cardinality(H)
  <2> DEFINE f == [g \in rows |-> CHOOSE at \in H : P(at) = g]
  <2>1. \A g \in rows : f[g] \in H /\ P(f[g]) = g  BY <1>2, Zenon
  <2>2. f \in [rows -> H]  BY <2>1, Zenon
  <2>3. \A x, y \in rows : f[x] = f[y] => x = y  BY <2>1, Zenon
  <2>4. \A at \in H : \E g \in rows : f[g] = at  BY <1>3, <1>4, <2>1, Zenon
  <2> HIDE DEF f
  <2> QED BY <1>5, <2>2, <2>3, <2>4, CountedAlike, Zenon
<1>7. {result[at.sentence].doc : at \in H} = {tokens[g].word.doc : g \in rows}
  <2> DEFINE A(at) == result[at.sentence].doc
             B(g) == tokens[g].word.doc
  <2>1. \A at \in H : P(at) \in rows /\ B(P(at)) = A(at)  BY <1>4, Zenon
  <2> HIDE DEF A, B
  <2> QED BY <1>2, <2>1 DEF A, B
<1>8. (\E at \in H : \E i \in 1..at.size : result[at.sentence].words[at.first + i - 1].text \in Symbols)
          <=> \E g \in rows : \E i \in 1..n : tokens[g + i - 1].word.text \in Symbols
  <2> DEFINE A(at, i) == result[at.sentence].words[at.first + i - 1].text
             B(g, i) == tokens[g + i - 1].word.text
  <2>1. \A at \in H : at.size = n /\ P(at) \in rows /\ \A i \in 1..n : B(P(at), i) = A(at, i)  BY <1>4, Zenon
  <2> HIDE DEF A, B
  <2>2. ASSUME NEW at \in H, NEW i \in 1..at.size, A(at, i) \in Symbols
        PROVE  \E g \in rows : \E j \in 1..n : B(g, j) \in Symbols
    BY <2>1, <2>2, Zenon
  <2>3. ASSUME NEW g \in rows, NEW i \in 1..n, B(g, i) \in Symbols
        PROVE  \E at \in H : \E j \in 1..at.size : A(at, j) \in Symbols
    <3>1. PICK at \in H : P(at) = g  BY <1>2, Zenon
    <3> QED BY <2>1, <2>3, <3>1, Zenon
  <2> QED BY <2>2, <2>3, Zenon DEF A, B
<1> QED BY <1>6, <1>7, <1>8, Zenon DEF HeldInRows, rows, H, result, n

\* Two functions that are equal, as what they are and where they are.
SameTable(f, g) == f = g

\* The n-grams of a result are those of its rows.
LEMMA ResultGramsOfRows ==
    ASSUME NEW tokens, IsFiniteSet(DOMAIN tokens), NEW results, NEW base, Laid(tokens, results, base), Sized(results),
           NEW r \in DOMAIN results
    PROVE  SameTable(ResultGrams(results[r]), GramTable(tokens, {r}))
<1> DEFINE result == results[r]
           keys == {GramAt(result, at) : at \in GramWindows(result)}
           Entry(k) == [frequency |-> Cardinality(Held(result, k)),
                        range |-> Cardinality({result[at.sentence].doc : at \in Held(result, k)}),
                        symbol |-> \E at \in Held(result, k) : \E i \in 1..at.size :
                                      result[at.sentence].words[at.first + i - 1].text \in Symbols]
<1>1. /\ WindowsPlaced(tokens, results, base, r) /\ WindowsComplete(tokens, results, base, r)
      /\ WindowsApart(results, base, r)
  BY WindowsArePlaced, WindowsAreComplete, WindowsAreApart, Zenon
<1>2. \A k : k \in keys <=> k \in GramKeys(tokens, {r})
  <2>0. \A k : IsKey(tokens, {r}, k)  BY KeysOfGrams, Zenon
  <2>1. ASSUME NEW k \in keys PROVE k \in GramKeys(tokens, {r})
    <3>1. PICK at \in Held(result, k) : TRUE  BY <2>1, Zenon DEF Held
    <3>2. WindowFits(tokens, results, base, r, k, at)  BY <1>1, <3>1, WindowsFit, Zenon
    <3> QED BY <2>0, <3>2, <1>1, <3>1, Zenon DEF IsKey, WindowFits, WindowsPlaced, Held
  <2>2. ASSUME NEW k \in GramKeys(tokens, {r}) PROVE k \in keys
    <3>1. PICK at \in Held(result, k) : TRUE  BY <2>0, <2>2, <1>1, RowsHoldWindows, Zenon DEF RowsHold, IsKey
    <3> QED BY <3>1, Zenon DEF Held
  <2> QED BY <2>1, <2>2, Zenon
<1>3. \A k \in keys : Entry(k) = GramEntry(tokens, GramRows(tokens, {r}, k), Len(k[2]))
  <2> SUFFICES ASSUME NEW k \in keys
               PROVE  Entry(k) = GramEntry(tokens, GramRows(tokens, {r}, k), Len(k[2]))
    BY Zenon
  <2> HIDE DEF keys
  <2> DEFINE rows == GramRows(tokens, {r}, k)
             n == Len(k[2])
             a == \E at \in Held(result, k) : \E i \in 1..at.size :
                      result[at.sentence].words[at.first + i - 1].text \in Symbols
             b == \E g \in rows : \E i \in 1..n : tokens[g + i - 1].word.text \in Symbols
  <2>1. HeldInRows(tokens, result, rows, k)  BY <1>1, <1>2, KeysOfGrams, HeldAreRows, Zenon DEF IsKey
  <2>2. a <=> b  BY <2>1, Zenon DEF HeldInRows
  <2>3. a = b
    <3> HIDE DEF a, b
    <3> QED BY <2>2, Zenon
  <2>4. Entry(k) = [frequency |-> Cardinality(rows), range |-> Cardinality({tokens[g].word.doc : g \in rows}), symbol |-> b]
    <3>1. Entry(k) = [frequency |-> Cardinality(Held(result, k)),
                      range |-> Cardinality({result[at.sentence].doc : at \in Held(result, k)}), symbol |-> a]
      BY Zenon
    <3> HIDE DEF a, b, Entry, rows, result
    <3> QED BY <2>3, <2>1, <3>1, Zenon DEF HeldInRows
  <2> QED BY <2>4, Zenon DEF GramEntry
<1>4. ResultGrams(result) = [k \in keys |-> Entry(k)]  BY Zenon DEF ResultGrams, Held
<1>5. keys = GramKeys(tokens, {r})
  <2> HIDE DEF keys
  <2> QED BY <1>2, Zenon
<1>6. [k \in keys |-> Entry(k)] = [k \in keys |-> GramEntry(tokens, GramRows(tokens, {r}, k), Len(k[2]))]
  <2> HIDE DEF keys, Entry
  <2> QED BY <1>3, Zenon
<1> HIDE DEF keys, Entry
<1> QED BY <1>4, <1>5, <1>6, Zenon DEF GramTable, SameTable, result

-----------------------------------------------------------------------------
(* The n-grams of the results, joined one after the other *)

\* Disjoint finite sets are together as many as both.
AsMany(all, a, b) == Cardinality(all) = Cardinality(a) + Cardinality(b)

\* They are.
LEMMA TogetherAsMany ==
    ASSUME NEW a, IsFiniteSet(a), NEW b, IsFiniteSet(b), a \cap b = {}, NEW all, all = a \cup b
    PROVE  AsMany(all, a, b)
<1>1. Cardinality(a \cup b) = Cardinality(a) + Cardinality(b) - Cardinality(a \cap b)  BY FS_Union, Zenon
<1>2. Cardinality(a) \in Nat /\ Cardinality(b) \in Nat  BY FS_CardinalityType, Zenon
<1>3. Cardinality(a) + Cardinality(b) - 0 = Cardinality(a) + Cardinality(b)  BY <1>2
<1> QED BY <1>1, FS_EmptySet, <1>3, Zenon DEF AsMany

\* What a document holds is in one result.
DocumentsApart(tokens) ==
    \A g, h \in DOMAIN tokens : tokens[g].word.doc = tokens[h].word.doc => tokens[g].word.sentence[1] = tokens[h].word.sentence[1]

\* What ON CONFLICT ... DO UPDATE makes of two entries.
JoinedEntry(e, d) == [frequency |-> e.frequency + d.frequency, range |-> e.range + d.range, symbol |-> e.symbol \/ d.symbol]

\* An entry of the table for t is what the entries for its parts add up to.
EntryJoins(tokens, a, b, all, n) == GramEntry(tokens, all, n) = JoinedEntry(GramEntry(tokens, a, n), GramEntry(tokens, b, n))

\* It is, when no document has rows in both.
LEMMA EntriesJoin ==
    ASSUME NEW tokens, NEW a, IsFiniteSet(a), NEW b, IsFiniteSet(b), a \cap b = {},
           \A g \in a : \A h \in b : tokens[g].word.doc # tokens[h].word.doc, NEW all, all = a \cup b, NEW n
    PROVE  EntryJoins(tokens, a, b, all, n)
<1> DEFINE d == [g \in all |-> tokens[g].word.doc]
           A == {tokens[g].word.doc : g \in a}
           B == {tokens[g].word.doc : g \in b}
           D == {tokens[g].word.doc : g \in all}
           S(g) == \E i \in 1..n : tokens[g + i - 1].word.text \in Symbols
<1>1. IsFiniteSet(A) /\ IsFiniteSet(B)
  <2>1. \A g \in a : d[g] = tokens[g].word.doc  BY Zenon
  <2>2. \A g \in b : d[g] = tokens[g].word.doc  BY Zenon
  <2> HIDE DEF d
  <2>3. A = {d[g] : g \in a} /\ B = {d[g] : g \in b}  BY <2>1, <2>2
  <2> HIDE DEF A, B
  <2> QED BY <2>3, ImageFinite, Zenon DEF Image
<1>2. D = A \cup B /\ A \cap B = {}
  <2> DEFINE doc(g) == tokens[g].word.doc
  <2>1. \A g \in a : \A h \in b : doc(g) # doc(h)  BY Zenon
  <2> HIDE DEF doc
  <2> QED BY <2>1 DEF doc
<1> HIDE DEF A, B, D
<1>3. Cardinality(D) = Cardinality(A) + Cardinality(B)  BY <1>1, <1>2, TogetherAsMany, Zenon DEF AsMany
<1> HIDE DEF S
<1>4. (\E g \in all : S(g)) = ((\E g \in a : S(g)) \/ \E g \in b : S(g))
  <2> DEFINE x == \E g \in all : S(g)
             y == (\E g \in a : S(g)) \/ \E g \in b : S(g)
  <2>1. x \in BOOLEAN /\ y \in BOOLEAN /\ (x <=> y)  BY Zenon
  <2>2. x = y
    <3> HIDE DEF x, y
    <3> QED BY <2>1
  <2> QED BY <2>2
<1>5. \A rows : GramEntry(tokens, rows, n) =
          [frequency |-> Cardinality(rows), range |-> Cardinality({tokens[g].word.doc : g \in rows}), symbol |-> \E g \in rows : S(g)]
  BY DEF GramEntry, S
<1> DEFINE p == \E g \in a : S(g)
           q == \E g \in b : S(g)
           r == \E g \in all : S(g)
<1>6. r = (p \/ q)  BY <1>4
<1> HIDE DEF p, q, r
<1>7. JoinedEntry([frequency |-> Cardinality(a), range |-> Cardinality(A), symbol |-> p],
                  [frequency |-> Cardinality(b), range |-> Cardinality(B), symbol |-> q])
      = [frequency |-> Cardinality(a) + Cardinality(b), range |-> Cardinality(A) + Cardinality(B), symbol |-> p \/ q]
  BY DEF JoinedEntry
<1>8. GramEntry(tokens, all, n) = [frequency |-> Cardinality(all), range |-> Cardinality(D), symbol |-> r]
  BY <1>5, Zenon DEF r, D
<1>9. /\ GramEntry(tokens, a, n) = [frequency |-> Cardinality(a), range |-> Cardinality(A), symbol |-> p]
      /\ GramEntry(tokens, b, n) = [frequency |-> Cardinality(b), range |-> Cardinality(B), symbol |-> q]
  BY <1>5, Zenon DEF p, q, A, B
<1> QED BY TogetherAsMany, <1>3, <1>6, <1>7, <1>8, <1>9, Zenon DEF EntryJoins, AsMany

\* The rows of a gram in some results are those in one of them and those in the others.
GramRowsSplit(tokens, t, m, k) ==
    /\ GramRows(tokens, t, k) = GramRows(tokens, t \ {m}, k) \cup GramRows(tokens, {m}, k)
    /\ GramRows(tokens, t \ {m}, k) \cap GramRows(tokens, {m}, k) = {}

\* They are.
LEMMA GramRowsAreSplit ==
    ASSUME NEW tokens, NEW t, NEW m \in t, NEW k
    PROVE  GramRowsSplit(tokens, t, m, k)
<1> DEFINE In(g) == tokens[g].word.sentence[1]
           Has(g) == Reaches(tokens, g, Len(k[2])) /\ GramAtRow(tokens, g, Len(k[2])) = k
           D == DOMAIN tokens
<1>1. \A s : GramRows(tokens, s, k) = {g \in D : In(g) \in s /\ Has(g)}  BY DEF GramRows
<1> HIDE DEF In, Has, D
<1>2. {g \in D : In(g) \in t /\ Has(g)} = {g \in D : In(g) \in t \ {m} /\ Has(g)} \cup {g \in D : In(g) \in {m} /\ Has(g)}
      /\ {g \in D : In(g) \in t \ {m} /\ Has(g)} \cap {g \in D : In(g) \in {m} /\ Has(g)} = {}
  OBVIOUS
<1> QED BY <1>1, <1>2, Zenon DEF GramRowsSplit

\* The n-grams of a result added to those of others.
LEMMA TablesJoin ==
    ASSUME NEW tokens, IsFiniteSet(DOMAIN tokens), DocumentsApart(tokens), NEW t, NEW m \in t
    PROVE  SameTable(AddGrams(GramTable(tokens, t \ {m}), GramTable(tokens, {m})), GramTable(tokens, t))
<1> DEFINE u == t \ {m}
           v == {m}
           A == GramKeys(tokens, u)
           B == GramKeys(tokens, v)
           K == GramKeys(tokens, t)
           In(s, k) == GramRows(tokens, s, k)
           Of(s, k) == GramEntry(tokens, In(s, k), Len(k[2]))
           Left(k) == GramTable(tokens, u)[k]
           Right(k) == GramTable(tokens, v)[k]
           Sum(k) == IF k \notin A THEN Right(k) ELSE IF k \notin B THEN Left(k) ELSE JoinedEntry(Left(k), Right(k))
<1>1. \A s : GramTable(tokens, s) = [k \in GramKeys(tokens, s) |-> Of(s, k)]  BY Zenon DEF GramTable
<1>2. \A k : /\ k \in A <=> Len(k[2]) \in GramSizes /\ In(u, k) # {}
             /\ k \in B <=> Len(k[2]) \in GramSizes /\ In(v, k) # {}
             /\ k \in K <=> Len(k[2]) \in GramSizes /\ In(t, k) # {}
  BY KeysOfGrams, Zenon DEF IsKey
<1>3. \A k : In(t, k) = In(u, k) \cup In(v, k) /\ In(u, k) \cap In(v, k) = {}
  BY GramRowsAreSplit, Zenon DEF GramRowsSplit
<1>4. \A k : IsFiniteSet(In(u, k)) /\ IsFiniteSet(In(v, k))  BY FS_Subset, Zenon DEF GramRows
<1>5. \A k : \A g \in In(u, k) : \A h \in In(v, k) : tokens[g].word.doc # tokens[h].word.doc
  <2> SUFFICES ASSUME NEW k, NEW g \in In(u, k), NEW h \in In(v, k)
               PROVE  tokens[g].word.doc # tokens[h].word.doc
    BY Zenon
  <2> QED BY Zenon DEF DocumentsApart, GramRows
<1>6. \A k : Of(t, k) = JoinedEntry(Of(u, k), Of(v, k))
  <2> SUFFICES ASSUME NEW k PROVE Of(t, k) = JoinedEntry(Of(u, k), Of(v, k))
    BY Zenon
  <2> HIDE DEF In
  <2>1. EntryJoins(tokens, In(u, k), In(v, k), In(t, k), Len(k[2]))  BY <1>3, <1>4, <1>5, EntriesJoin, Zenon
  <2> QED BY <2>1, Zenon DEF EntryJoins
<1>7. \A k \in K : Sum(k) = Of(t, k)
  <2> SUFFICES ASSUME NEW k \in K PROVE Sum(k) = Of(t, k)
    BY Zenon
  <2>1. Len(k[2]) \in GramSizes  BY <1>2, Zenon
  <2>2. (k \in A => Left(k) = Of(u, k)) /\ (k \in B => Right(k) = Of(v, k))  BY <1>1, Zenon
  <2> HIDE DEF In, A, B, K, u, v, Left, Right
  <2>3. CASE k \notin A
    <3>1. In(u, k) = {}  BY <1>2, <2>1, <2>3, Zenon
    <3>2. In(t, k) = In(v, k)  BY <1>3, <3>1
    <3> QED BY <2>2, <2>3, <3>2, <1>2, Zenon
  <2>4. CASE k \in A /\ k \notin B
    <3>1. In(v, k) = {}  BY <1>2, <2>1, <2>4, Zenon
    <3>2. In(t, k) = In(u, k)  BY <1>3, <3>1
    <3> QED BY <2>2, <2>4, <3>2, Zenon
  <2>5. CASE k \in A /\ k \in B  BY <1>6, <2>2, <2>5, Zenon
  <2> QED BY <2>3, <2>4, <2>5, Zenon
<1>8. A \cup B = K
  <2>1. \A k : k \in A \/ k \in B <=> k \in K
    <3> HIDE DEF In, A, B, K, u, v
    <3> QED BY <1>2, <1>3
  <2> HIDE DEF A, B, K
  <2> QED BY <2>1
<1>9. AddGrams(GramTable(tokens, u), GramTable(tokens, v)) = [k \in A \cup B |-> Sum(k)]
  BY <1>1, Zenon DEF AddGrams, JoinedEntry
<1>10. [k \in K |-> Sum(k)] = [k \in K |-> Of(t, k)]
  <2> HIDE DEF Sum, K, Of
  <2> QED BY <1>7, Zenon
<1>11. GramTable(tokens, t) = [k \in K |-> Of(t, k)]  BY <1>1, Zenon
<1> HIDE DEF Sum, A, B, K, Of
<1> QED BY <1>8, <1>9, <1>10, <1>11, Zenon DEF SameTable, u, v

\* Before the first result the table is empty.
LEMMA EmptyTableOfNone ==
    ASSUME NEW tokens
    PROVE  SameTable(EmptyTable, GramTable(tokens, {}))
<1>1. \A k : k \notin GramKeys(tokens, {})
  <2> SUFFICES ASSUME NEW k PROVE k \notin GramKeys(tokens, {})
    BY Zenon
  <2>1. GramRows(tokens, {}, k) = {}  BY Zenon DEF GramRows
  <2> QED BY <2>1, KeysOfGrams, Zenon DEF IsKey
<1> QED BY <1>1, Zenon DEF SameTable, EmptyTable, GramTable

\* The n-grams that are stored file by file are those of the table of words.
LEMMA NgramTableOfRows ==
    ASSUME NEW tokens, IsFiniteSet(DOMAIN tokens), DocumentsApart(tokens), NEW results, NEW n \in Nat,
           DOMAIN results = 1..n, NEW base, Laid(tokens, results, base), Sized(results)
    PROVE  SameTable(NgramTable(results), GramTable(tokens, DOMAIN results))
<1> DEFINE S == 1..n
           rs == [r \in S |-> ResultGrams(results[r])]
           F(h) == [t \in SUBSET S |-> IF t = {} THEN EmptyTable ELSE AddGrams(h[t \ {Max(t)}], rs[Max(t)])]
           iter == CHOOSE h : h = F(h)
           T(t) == GramTable(tokens, t)
           g == [t \in SUBSET S |-> T(t)]
           A == {T(t) : t \in SUBSET S}
           step == [p \in A \X S |-> AddGrams(p[1], rs[p[2]])]
<1>1. NgramTable(results) = iter[S]
  <2>1. NgramTable(results) = FoldLeft(AddGrams, EmptyTable, rs)  BY Zenon DEF NgramTable
  <2>2. DOMAIN rs = S  BY Zenon
  <2> HIDE DEF rs
  <2> QED BY <2>1, <2>2, Zenon DEF FoldLeft, MapThenFoldSet
<1>2. \A r \in S : rs[r] = T({r})  BY ResultGramsOfRows, Zenon DEF SameTable
<1>3. \A t \in SUBSET S : t # {} => Max(t) \in t /\ Max(t) \in S /\ t \ {Max(t)} \in SUBSET S
  BY LargestPlace, Zenon
<1>4. EmptyTable = T({})  BY EmptyTableOfNone, Zenon DEF SameTable
<1>5. \A t \in SUBSET S : t # {} => AddGrams(T(t \ {Max(t)}), rs[Max(t)]) = T(t)
  <2> SUFFICES ASSUME NEW t \in SUBSET S, t # {} PROVE AddGrams(T(t \ {Max(t)}), rs[Max(t)]) = T(t)
    BY Zenon
  <2> DEFINE m == Max(t)
  <2> HIDE DEF m
  <2> QED BY <1>3, TablesJoin, <1>2, Zenon DEF m, SameTable
<1> HIDE DEF T, rs
<1>6. g = F(g)  BY <1>3, <1>4, <1>5, Zenon
<1>7. iter = F(iter)
  <2> HIDE DEF g, F
  <2> QED BY <1>6, Zenon
<1>8. EmptyTable \in A  BY <1>4, Zenon
<1>9. \A t \in SUBSET S : g[t] \in A  BY Zenon
<1>10. \A x \in A : \A m \in S : step[<<x, m>>] = AddGrams(x, rs[m])
  <2> HIDE DEF A, S
  <2> QED OBVIOUS
<1> HIDE DEF iter
<1>11. Folds(g, EmptyTable, step, n)
  <2>1. \A t \in SUBSET S : T(t) = IF t = {} THEN EmptyTable ELSE step[<<g[t \ {Max(t)}], Max(t)>>]
    <3> SUFFICES ASSUME NEW t \in SUBSET S, t # {} PROVE T(t) = step[<<g[t \ {Max(t)}], Max(t)>>]
      BY <1>4, Zenon
    <3>1. Max(t) \in S /\ t \ {Max(t)} \in SUBSET S  BY <1>3, Zenon
    <3>2. g[t \ {Max(t)}] \in A /\ g[t \ {Max(t)}] = T(t \ {Max(t)})  BY <1>9, <3>1, Zenon
    <3> HIDE DEF g, A, step
    <3> QED BY <1>5, <1>10, <3>1, <3>2, Zenon
  <2> HIDE DEF step
  <2> QED BY <2>1, Zenon DEF Folds
<1>12. FoldsWithin(iter, A, EmptyTable, step, n)
  <2> SUFFICES ASSUME NEW t \in SUBSET (1..n)
               PROVE  /\ t = {} => iter[t] = EmptyTable
                      /\ t # {} /\ iter[t \ {Max(t)}] \in A => iter[t] = step[<<iter[t \ {Max(t)}], Max(t)>>]
    BY Zenon DEF FoldsWithin
  <2>1. iter[t] = IF t = {} THEN EmptyTable ELSE AddGrams(iter[t \ {Max(t)}], rs[Max(t)])  BY <1>7, Zenon
  <2> HIDE DEF F, A, step
  <2> QED BY <1>3, <1>10, <2>1, Zenon
<1>13. FoldedTwice(g, iter, A, EmptyTable, step, n)
  <2>1. g \in [SUBSET S -> A]  BY <1>9, Zenon
  <2> HIDE DEF g, A, step
  <2> QED BY <1>8, <1>11, <1>12, <2>1, Zenon DEF FoldedTwice, FoldOf
<1>14. iter[1..n] = g[1..n]
  <2> HIDE DEF g, A, step, F
  <2> QED BY <1>13, FoldIs, SMT
<1> QED BY <1>1, <1>14, Zenon DEF SameTable, T

-----------------------------------------------------------------------------
(* The n-grams that are published *)

\* The rows from which a gram stands.
Standing(tokens, k) ==
    {g \in DOMAIN tokens : Reaches(tokens, g, Len(k[2])) /\ GramAtRow(tokens, g, Len(k[2])) = k}

\* The stored n-grams are those that stand in the table of words, each with its counts.
Grammed(index) ==
    /\ \A k \in DOMAIN index.ngrams :
            /\ Len(k[2]) \in GramSizes /\ Standing(index.tokens, k) # {}
            /\ index.ngrams[k] = GramEntry(index.tokens, Standing(index.tokens, k), Len(k[2]))
    /\ \A n \in GramSizes : \A g \in DOMAIN index.tokens :
            Reaches(index.tokens, g, n) => GramAtRow(index.tokens, g, n) \in DOMAIN index.ngrams

\* The table of all results holds them.
LEMMA TableGrammed ==
    ASSUME NEW index, NEW t, index.ngrams = GramTable(index.tokens, t),
           \A g \in DOMAIN index.tokens : index.tokens[g].word.sentence[1] \in t
    PROVE  Grammed(index)
<1> DEFINE tokens == index.tokens
<1>1. \A k : GramRows(tokens, t, k) = Standing(tokens, k)  BY Zenon DEF GramRows, Standing
<1>2. \A k : k \in GramKeys(tokens, t) <=> Len(k[2]) \in GramSizes /\ Standing(tokens, k) # {}
  BY <1>1, KeysOfGrams, Zenon DEF IsKey
<1>3. DOMAIN index.ngrams = GramKeys(tokens, t)  BY Zenon DEF GramTable
<1>4. \A k \in GramKeys(tokens, t) : index.ngrams[k] = GramEntry(tokens, Standing(tokens, k), Len(k[2]))
  <2> SUFFICES ASSUME NEW k \in GramKeys(tokens, t)
               PROVE  index.ngrams[k] = GramEntry(tokens, Standing(tokens, k), Len(k[2]))
    BY Zenon
  <2> QED BY <1>1, Zenon DEF GramTable
<1>5. ASSUME NEW n \in GramSizes, NEW g \in DOMAIN tokens, Reaches(tokens, g, n)
      PROVE  GramAtRow(tokens, g, n) \in DOMAIN index.ngrams
  <2> DEFINE k == GramAtRow(tokens, g, n)
  <2>1. n \in Nat  BY GramSizesAssumption
  <2> HIDE DEF k
  <2> QED BY <1>2, <1>3, <2>1, GramLength, <1>5, Zenon DEF k, Standing
<1> QED BY <1>5, <1>2, <1>3, <1>4, Zenon DEF Grammed

\* No two results share a document.
LEMMA ResultsApart ==
    ASSUME NEW c \in Corpora, NEW tokens, NEW base, Laid(tokens, c.results, base)
    PROVE  DocumentsApart(tokens)
<1> DEFINE results == c.results
<1>1. \A r, t \in DOMAIN results : r # t => DocumentsOf(results[r]) \cap DocumentsOf(results[t]) = {}
  BY CorporaAssumption, Zenon
<1>2. \A g \in DOMAIN tokens : /\ tokens[g].word.sentence[1] \in DOMAIN results
                               /\ tokens[g].word.doc \in DocumentsOf(results[tokens[g].word.sentence[1]])
  <2> SUFFICES ASSUME NEW g \in DOMAIN tokens
               PROVE  /\ tokens[g].word.sentence[1] \in DOMAIN results
                      /\ tokens[g].word.doc \in DocumentsOf(results[tokens[g].word.sentence[1]])
    BY Zenon
  <2>1. PICK r \in DOMAIN results : \E s \in DOMAIN results[r] : \E w \in 1..Len(results[r][s].words) :
          g = base[<<r, s>>] + w
    BY Zenon DEF Laid
  <2>2. PICK s \in DOMAIN results[r] : \E w \in 1..Len(results[r][s].words) : g = base[<<r, s>>] + w
    BY <2>1, Zenon
  <2>3. PICK w \in 1..Len(results[r][s].words) : g = base[<<r, s>>] + w  BY <2>2, Zenon
  <2>4. WordAt(results, r, s, w).sentence[1] = r /\ WordAt(results, r, s, w).doc = results[r][s].doc
    BY DEF WordAt
  <2> QED BY <2>3, <2>4, Zenon DEF Laid, DocumentsOf
<1> HIDE DEF results
<1> SUFFICES ASSUME NEW g \in DOMAIN tokens, NEW h \in DOMAIN tokens, tokens[g].word.doc = tokens[h].word.doc
             PROVE  tokens[g].word.sentence[1] = tokens[h].word.sentence[1]
  BY Zenon DEF DocumentsApart
<1> DEFINE r == tokens[g].word.sentence[1]
           t == tokens[h].word.sentence[1]
<1>3. r \in DOMAIN results /\ t \in DOMAIN results
      /\ tokens[g].word.doc \in DocumentsOf(results[r]) /\ tokens[g].word.doc \in DocumentsOf(results[t])
  BY <1>2, Zenon
<1> HIDE DEF r, t
<1>4. r = t  BY <1>1, <1>3
<1> QED BY <1>4, Zenon DEF r, t

\* The n-grams of what is published are those of its words.
LEMMA IndexGrammed ==
    ASSUME NEW c \in Corpora
    PROVE  Grammed(Artifacts(c).index)
<1> DEFINE i == Artifacts(c).index
           results == c.results
           tokens == TokenRows(results)
<1>1. i = Index(results) /\ Tokens(i.tokens)  BY ArtifactsFields, Zenon
<1>2. Index(results).tokens = tokens /\ Index(results).ngrams = NgramTable(results)  BY DEF Index
<1>3. results \in Seq(Seq(SentenceRecords))  BY CorporaAssumption, Zenon
<1> HIDE DEF results
<1>4. PICK base : Laid(tokens, results, base)  BY <1>3, TokensLaid, Zenon
<1>5. AllWritten(results)  BY <1>3, WrittenWordsTyped, Zenon
<1> DEFINE n == Len(results)
<1>6. n \in Nat /\ DOMAIN results = 1..n  BY <1>5, Zenon DEF AllWritten
<1>7. Sized(results)
  <2> SUFFICES ASSUME NEW r \in DOMAIN results, NEW s \in DOMAIN results[r] PROVE Len(results[r][s].words) \in Nat
    BY Zenon DEF Sized
  <2> QED BY <1>5, <1>6, SentencesLaid, Zenon DEF SentenceLaid, ResultTyped, AllWritten
<1> HIDE DEF n
<1> HIDE DEF i, tokens
<1>8. i.tokens = tokens /\ i.ngrams = NgramTable(results) /\ Tokens(tokens)  BY <1>1, <1>2, Zenon
<1>9. IsFiniteSet(DOMAIN tokens)  BY <1>8, TokensFinite, Zenon
<1>10. DocumentsApart(tokens)  BY <1>4, ResultsApart, Zenon DEF results
<1>11. SameTable(NgramTable(results), GramTable(tokens, DOMAIN results))
  BY <1>4, <1>6, <1>7, <1>9, <1>10, NgramTableOfRows, Zenon
<1>12. \A g \in DOMAIN tokens : tokens[g].word.sentence[1] \in DOMAIN results
  <2> SUFFICES ASSUME NEW g \in DOMAIN tokens PROVE tokens[g].word.sentence[1] \in DOMAIN results
    BY Zenon
  <2>1. PICK r \in DOMAIN results : \E s \in DOMAIN results[r] : \E w \in 1..Len(results[r][s].words) :
          g = base[<<r, s>>] + w
    BY <1>4, Zenon DEF Laid
  <2>2. PICK s \in DOMAIN results[r] : \E w \in 1..Len(results[r][s].words) : g = base[<<r, s>>] + w
    BY <2>1, Zenon
  <2>3. PICK w \in 1..Len(results[r][s].words) : g = base[<<r, s>>] + w  BY <2>2, Zenon
  <2>4. WordAt(results, r, s, w).sentence[1] = r  BY DEF WordAt
  <2> QED BY <1>4, <2>3, <2>4, Zenon DEF Laid
<1> QED BY <1>8, <1>12, <1>11, TableGrammed, Zenon DEF i, SameTable

-----------------------------------------------------------------------------
(* N-grams in the order in which they are listed *)

\* Elements with places of one length, each with its own.
SpottedSet(S, spot, n) ==
    /\ IsFiniteSet(S)
    /\ \A x \in S : Counting(x) /\ spot[x] \in Seq(Int) /\ Len(spot[x]) = n
    /\ \A x, y \in S : spot[x] = spot[y] => x = y

\* A list that is ordered by counts and places.
ListedBy(S, by, spot) == InKeyOrder(S, [e \in S |-> Ordering(e, by, spot[e])])

RowsFrom(rows, S) == \A i \in DOMAIN rows : rows[i] \in S

\* A page of such a list shows elements of the set.
LEMMA PageShowsElements ==
    ASSUME NEW S, NEW spot, NEW n, SpottedSet(S, spot, n), NEW by, NEW page \in Nat \ {0}, NEW size \in Nat \ {0}
    PROVE  RowsFrom(PageOf(ListedBy(S, by, spot), page, size), S)
<1> DEFINE key == [e \in S |-> Ordering(e, by, spot[e])]
           ordered == InKeyOrder(S, key)
           shown == PageOf(ordered, page, size)
<1>1. \A x \in S : Counting(x) /\ spot[x] \in Seq(Int) /\ Len(spot[x]) = n  BY Zenon DEF SpottedSet
<1>2. \A x \in S : key[x] \in Seq(Int)  BY <1>1, OrderingTyped, Zenon
<1>3. \A x, y \in S : key[x] = key[y] => x = y
  <2> SUFFICES ASSUME NEW x \in S, NEW y \in S, Ordering(x, by, spot[x]) = Ordering(y, by, spot[y]) PROVE x = y
    BY Zenon
  <2> QED BY <1>1, OrderingPlace, Zenon DEF SpottedSet
<1>4. DOMAIN key = S /\ key = [x \in S |-> key[x]]  BY Zenon
<1>5. ListedBy(S, by, spot) = ordered  BY Zenon DEF ListedBy
<1> HIDE DEF key
<1>6. Keyed(S, key)  BY <1>2, <1>3, <1>4, Zenon DEF Keyed, SpottedSet
<1>7. Arranges(ordered, S)  BY <1>4, <1>6, KeyOrderArranges, Zenon
<1> HIDE DEF ordered
<1>8. shown \in Seq(S)  BY <1>7, PageIsPart, Zenon DEF Arranges
<1> HIDE DEF shown
<1> QED BY <1>5, <1>8, ElementOfSeq, LenProperties, Zenon DEF RowsFrom, shown

\* A text of folded words.
FoldedText(text, n) == DOMAIN text = 1..n /\ \A i \in 1..n : \E s \in DOMAIN Normal : text[i] = Normal[s]

\* The text of a window is one.
LEMMA WindowFolded ==
    ASSUME NEW tokens, Tokens(tokens), NEW g \in DOMAIN tokens, NEW n \in Nat \ {0}, Reaches(tokens, g, n)
    PROVE  FoldedText(WindowText(tokens, g, n), n)
<1>1. PICK m \in Nat : DOMAIN tokens = 1..m  BY Zenon DEF Tokens
<1>2. g \in 1..m /\ g + n - 1 \in 1..m  BY <1>1, Zenon DEF Reaches
<1>3. \A i \in 1..n : g + i - 1 \in 1..m  BY <1>2
<1> SUFFICES ASSUME NEW i \in 1..n
             PROVE  \E s \in DOMAIN Normal : NormalAt(tokens, g + i - 1) = Normal[s]
  BY Zenon DEF FoldedText, WindowText
<1> DEFINE h == g + i - 1
<1>4. h \in DOMAIN tokens  BY <1>1, <1>3, Zenon
<1> HIDE DEF h
<1>5. tokens[h].word \in WordRecords  BY <1>4, StreamsIncrease, Zenon
<1>6. tokens[h].word.text \in DOMAIN Normal  BY <1>5 DEF WordRecords
<1> QED BY <1>6, Zenon DEF NormalAt, h

\* The ranks of the words of a text: no other text of its length has them.
RanksTyped(text, n) == Ranks(text) \in Seq(Int) /\ Len(Ranks(text)) = n
RanksTell(d, e) == Ranks(d) = Ranks(e) => d = e

\* They are numbers, and tell the text.
LEMMA RanksOfText ==
    ASSUME NEW n \in Nat, NEW d, FoldedText(d, n)
    PROVE  RanksTyped(d, n)
<1>1. DOMAIN d = 1..n /\ \A i \in 1..n : \E s \in DOMAIN Normal : d[i] = Normal[s]  BY Zenon DEF FoldedText
<1>2. \A i \in 1..n : Rank[Normal[d[i]]] \in Int
  <2> SUFFICES ASSUME NEW i \in 1..n PROVE Rank[Normal[d[i]]] \in Int
    BY Zenon
  <2>1. PICK s \in DOMAIN Normal : d[i] = Normal[s]  BY <1>1, Zenon
  <2> QED BY <2>1, NormalAssumption, RankAssumption, Zenon
<1> DEFINE r == [i \in 1..n |-> Rank[Normal[d[i]]]]
<1>3. r \in [1..n -> Int]  BY <1>2, Zenon
<1> HIDE DEF r
<1>4. r \in Seq(Int) /\ Len(r) = n  BY <1>3, LenOfFunction
<1> QED BY <1>1, <1>4, Zenon DEF RanksTyped, r, Ranks

\* The ranks of folded texts tell the texts apart.
LEMMA RanksTellTexts ==
    ASSUME NEW n \in Nat, NEW d, FoldedText(d, n), NEW e, FoldedText(e, n), d = [i \in 1..n |-> d[i]], e = [i \in 1..n |-> e[i]]
    PROVE  RanksTell(d, e)
<1> SUFFICES ASSUME Ranks(d) = Ranks(e) PROVE d = e
  BY Zenon DEF RanksTell
<1>1. DOMAIN d = 1..n /\ DOMAIN e = 1..n  BY Zenon DEF FoldedText
<1>2. \A i \in 1..n : d[i] = e[i]
  <2> SUFFICES ASSUME NEW i \in 1..n PROVE d[i] = e[i]
    BY Zenon
  <2>1. PICK s \in DOMAIN Normal : d[i] = Normal[s]  BY Zenon DEF FoldedText
  <2>2. PICK t \in DOMAIN Normal : e[i] = Normal[t]  BY Zenon DEF FoldedText
  <2>3. Normal[d[i]] = Normal[s] /\ Normal[e[i]] = Normal[t]  BY <2>1, <2>2, NormalAssumption, Zenon
  <2>4. Rank[Normal[s]] = Rank[Normal[t]]  BY <1>1, <2>3, Zenon DEF Ranks
  <2> QED BY <2>1, <2>2, <2>4, PlacesAssumption, Zenon
<1> QED BY <1>2, Zenon

-----------------------------------------------------------------------------
(* Stored n-grams *)

\* The stored n-grams that a query may show.
StoredKeys(index, q) ==
    {k \in DOMAIN index.ngrams : k[1] = q.lang /\ Len(k[2]) = q.n /\ (q.symbols \/ ~index.ngrams[k].symbol)}

\* Where such a gram stands, and what is stored of it.
KeyStands(index, q, k) ==
    /\ q.n \in GramSizes /\ k[1] = q.lang /\ k[2] = [i \in 1..q.n |-> k[2][i]] /\ FoldedText(k[2], q.n)
    /\ k = <<k[1], k[2]>>
    /\ \E g \in DOMAIN index.tokens : Reaches(index.tokens, g, q.n) /\ GramAtRow(index.tokens, g, q.n) = k
    /\ index.ngrams[k] = GramEntry(index.tokens, Standing(index.tokens, k), q.n)

\* Every n-gram that a query may show stands in the table of words.
LEMMA KeysStand ==
    ASSUME NEW index, Tokens(index.tokens), Grammed(index), NEW q, NEW k \in StoredKeys(index, q)
    PROVE  KeyStands(index, q, k)
<1> DEFINE tokens == index.tokens
           n == q.n
<1>1. k \in DOMAIN index.ngrams /\ k[1] = q.lang /\ Len(k[2]) = n  BY Zenon DEF StoredKeys
<1>2. n \in GramSizes /\ Standing(tokens, k) # {} /\ index.ngrams[k] = GramEntry(tokens, Standing(tokens, k), n)
  BY <1>1, Zenon DEF Grammed
<1>3. n \in Nat \ {0}  BY <1>2, GramSizesAssumption
<1>4. PICK g \in DOMAIN tokens : Reaches(tokens, g, n) /\ GramAtRow(tokens, g, n) = k
  BY <1>1, <1>2, Zenon DEF Standing
<1>5. k = <<tokens[g].word.lang, WindowText(tokens, g, n)>>  BY <1>4, Zenon DEF GramAtRow
<1>6. k[2] = WindowText(tokens, g, n) /\ k = <<k[1], k[2]>>  BY <1>5
<1>7. FoldedText(k[2], n)  BY <1>3, <1>4, <1>6, WindowFolded, Zenon
<1>8. k[2] = [i \in 1..n |-> k[2][i]]
  <2> DEFINE text == WindowText(tokens, g, n)
  <2> HIDE DEF text
  <2> QED BY <1>6, Zenon DEF text, WindowText
<1> QED BY <1>1, <1>2, <1>4, <1>6, <1>7, <1>8, Zenon DEF KeyStands

\* There are not more of them than rows.
LEMMA StoredKeysFinite ==
    ASSUME NEW index, Tokens(index.tokens), Grammed(index), NEW q
    PROVE  IsFiniteSet(StoredKeys(index, q))
<1> DEFINE tokens == index.tokens
           J == StoredKeys(index, q)
           D == DOMAIN tokens
           f == [k \in J |-> CHOOSE g \in D : GramAtRow(tokens, g, q.n) = k]
<1>1. \A k \in J : \E g \in D : GramAtRow(tokens, g, q.n) = k
  <2>1. \A k \in J : KeyStands(index, q, k)  BY KeysStand, Zenon
  <2> QED BY <2>1, Zenon DEF KeyStands
<1> HIDE DEF J
<1>2. \A k \in J : f[k] \in D /\ GramAtRow(tokens, f[k], q.n) = k  BY <1>1, Zenon
<1>3. f \in [J -> D]  BY <1>2, Zenon
<1>4. \A k, l \in J : f[k] = f[l] => k = l  BY <1>2, Zenon
<1>5. IsFiniteSet(D)  BY TokensFinite, Zenon
<1> HIDE DEF f, D
<1>6. f \in Injection(J, D)  BY <1>3, <1>4, Zenon DEF Injection, IsInjective
<1> QED BY <1>5, <1>6, FS_Injection, Zenon DEF J

\* A stored n-gram has counts.
EntryCountsRows(e, tokens, rows) == Counting(e) /\ e.frequency = Cardinality(rows) /\ e.range = Cardinality({tokens[g].word.doc : g \in rows})

\* What is stored of an n-gram counts its rows and their documents.
LEMMA GramEntryCounts ==
    ASSUME NEW tokens, Tokens(tokens), NEW rows \in SUBSET (DOMAIN tokens), NEW n
    PROVE  EntryCountsRows(GramEntry(tokens, rows, n), tokens, rows)
<1> DEFINE e == GramEntry(tokens, rows, n)
<1>1. e.frequency = Cardinality(rows) /\ e.range = Cardinality({tokens[g].word.doc : g \in rows})
  BY DEF GramEntry
<1> HIDE DEF e
<1> QED BY <1>1, RowsCounted, Zenon DEF EntryCountsRows, e, CountsRows, Counting

\* A row of stored n-grams.
GramRow(index, k) == [key |-> k[2], frequency |-> index.ngrams[k].frequency, range |-> index.ngrams[k].range]
StoredGrams(index, q) ==
    {e \in {GramRow(index, k) : k \in StoredKeys(index, q)} :
        Enough(e, q) /\ GramFiltered(q, e.key)}

\* It shows what is stored.
ShowsStored(index, q, e) ==
    \E k \in StoredKeys(index, q) : e.key = k[2] /\ e.frequency = index.ngrams[k].frequency /\ e.range = index.ngrams[k].range

\* Every row that is shown is one of a stored n-gram.
LEMMA StoredRows ==
    ASSUME NEW index, Tokens(index.tokens), Grammed(index), NEW q, q.page \in Nat \ {0}, q.size \in Nat \ {0},
           NEW i \in DOMAIN StoredNgrams(index, q).rows
    PROVE  ShowsStored(index, q, StoredNgrams(index, q).rows[i])
<1> DEFINE J == StoredKeys(index, q)
           S == StoredGrams(index, q)
           all == {GramRow(index, k) : k \in J}
           f == [k \in J |-> GramRow(index, k)]
           spot == [e \in S |-> Ranks(e.key)]
           rows == PageOf(ListedBy(S, q.by, spot), q.page, q.size)
<1>1. StoredNgrams(index, q) = Listed(ListedBy(S, q.by, spot), q)
  <2>1. StoredNgrams(index, q) = Listed(InKeyOrder(S, [e \in S |-> Ordering(e, q.by, Ranks(e.key))]), q)
    BY Zenon DEF StoredNgrams, StoredGrams, GramRow, StoredKeys
  <2>2. \A e \in S : spot[e] = Ranks(e.key)  BY Zenon
  <2> HIDE DEF S, spot
  <2> QED BY <2>1, <2>2, Zenon DEF ListedBy
<1>2. StoredNgrams(index, q).rows = rows  BY <1>1, ListedRows, Zenon
<1>3. \A k \in J : /\ KeyStands(index, q, k) /\ Counting(index.ngrams[k]) /\ GramRow(index, k).key = k[2]
                   /\ GramRow(index, k).frequency = index.ngrams[k].frequency
                   /\ GramRow(index, k).range = index.ngrams[k].range
  <2> SUFFICES ASSUME NEW k \in J
               PROVE  /\ KeyStands(index, q, k) /\ Counting(index.ngrams[k]) /\ GramRow(index, k).key = k[2]
                      /\ GramRow(index, k).frequency = index.ngrams[k].frequency
                      /\ GramRow(index, k).range = index.ngrams[k].range
    BY Zenon
  <2>1. KeyStands(index, q, k)  BY KeysStand, Zenon
  <2>2. EntryCountsRows(GramEntry(index.tokens, Standing(index.tokens, k), q.n), index.tokens, Standing(index.tokens, k))
    BY GramEntryCounts, Zenon DEF Standing
  <2>3. /\ GramRow(index, k).key = k[2] /\ GramRow(index, k).frequency = index.ngrams[k].frequency
        /\ GramRow(index, k).range = index.ngrams[k].range
    BY DEF GramRow
  <2> QED BY <2>1, <2>2, <2>3, Zenon DEF KeyStands, EntryCountsRows
<1>4. \A e \in S : \E k \in J : e = GramRow(index, k)  BY Zenon DEF StoredGrams
<1>5. IsFiniteSet(S)
  <2>1. IsFiniteSet(J)  BY StoredKeysFinite, Zenon
  <2>2. Image(all, f, J)  BY Zenon DEF Image
  <2>3. S \subseteq all  BY Zenon DEF StoredGrams
  <2> HIDE DEF J, S, all, f
  <2> QED BY <2>1, <2>2, <2>3, ImageFinite, FS_Subset, Zenon
<1> HIDE DEF J, S
<1>6. SpottedSet(S, spot, q.n)
  <2>1. ASSUME NEW e \in S PROVE Counting(e) /\ spot[e] \in Seq(Int) /\ Len(spot[e]) = q.n
    <3>1. PICK k \in J : e = GramRow(index, k)  BY <1>4, <2>1, Zenon
    <3>2. e.key = k[2] /\ FoldedText(k[2], q.n) /\ q.n \in GramSizes /\ Counting(e)
      BY <1>3, <3>1, Zenon DEF KeyStands, Counting
    <3>3. q.n \in Nat  BY <3>2, GramSizesAssumption
    <3> QED BY <2>1, <3>2, <3>3, RanksOfText, Zenon DEF RanksTyped
  <2>2. ASSUME NEW d \in S, NEW e \in S, spot[d] = spot[e] PROVE d = e
    <3>1. PICK k \in J : d = GramRow(index, k)  BY <1>4, <2>2, Zenon
    <3>2. PICK l \in J : e = GramRow(index, l)  BY <1>4, <2>2, Zenon
    <3>3. /\ q.n \in GramSizes /\ k[1] = q.lang /\ l[1] = q.lang /\ k = <<k[1], k[2]>> /\ l = <<l[1], l[2]>>
          /\ FoldedText(k[2], q.n) /\ FoldedText(l[2], q.n)
          /\ k[2] = [j \in 1..q.n |-> k[2][j]] /\ l[2] = [j \in 1..q.n |-> l[2][j]]
      BY <1>3, Zenon DEF KeyStands
    <3>4. q.n \in Nat  BY <3>3, GramSizesAssumption
    <3>5. RanksTell(k[2], l[2])  BY <3>3, <3>4, RanksTellTexts, Zenon
    <3>6. k[2] = l[2]  BY <1>3, <2>2, <3>1, <3>2, <3>5, Zenon DEF RanksTell
    <3> QED BY <3>1, <3>2, <3>3, <3>6, Zenon
  <2> QED BY <1>5, <2>1, <2>2, Zenon DEF SpottedSet
<1> HIDE DEF spot
<1>7. PICK k \in J : rows[i] = GramRow(index, k)  BY <1>4, <1>2, <1>6, PageShowsElements, Zenon DEF RowsFrom
<1> HIDE DEF rows
<1> QED BY <1>2, <1>3, <1>7, Zenon DEF ShowsStored, J

\* The rows of a stored n-gram are the windows with its text.
WindowsOfKey(tokens, q, k) ==
    Standing(tokens, k) = {g \in Windows(tokens, q.lang, q.n, q.symbols) : WindowText(tokens, g, q.n) = k[2]}

\* They are the same rows.
LEMMA StandingIsWindows ==
    ASSUME NEW index, Tokens(index.tokens), Grammed(index), NEW q, NEW k \in StoredKeys(index, q)
    PROVE  WindowsOfKey(index.tokens, q, k)
<1> DEFINE tokens == index.tokens
           n == q.n
           W == Windows(tokens, q.lang, n, q.symbols)
<1>1. KeyStands(index, q, k)  BY KeysStand, Zenon
<1>2. /\ k[1] = q.lang /\ k = <<k[1], k[2]>> /\ n \in GramSizes
      /\ index.ngrams[k] = GramEntry(tokens, Standing(tokens, k), n)
  BY <1>1, Zenon DEF KeyStands
<1>3. Len(k[2]) = n /\ (q.symbols \/ ~index.ngrams[k].symbol)  BY Zenon DEF StoredKeys
<1>4. n \in Nat \ {0}  BY <1>2, GramSizesAssumption
<1>5. ASSUME NEW g \in W, WindowText(tokens, g, n) = k[2] PROVE g \in Standing(tokens, k)
  BY <1>3, <1>2, <1>5, Zenon DEF Standing, GramAtRow, Windows, Reaches
<1>6. ASSUME NEW g \in Standing(tokens, k) PROVE g \in W /\ WindowText(tokens, g, n) = k[2]
  <2>1. g \in DOMAIN tokens /\ Reaches(tokens, g, n) /\ GramAtRow(tokens, g, n) = k
    BY <1>3, <1>6, Zenon DEF Standing
  <2>2. k = <<tokens[g].word.lang, WindowText(tokens, g, n)>>  BY <2>1, Zenon DEF GramAtRow
  <2>3. k[1] = tokens[g].word.lang /\ k[2] = WindowText(tokens, g, n)  BY <2>2
  <2>4. q.symbols \/ \A i \in 1..n : tokens[g + i - 1].word.text \notin Symbols
    <3> DEFINE x == \E h \in Standing(tokens, k) : \E i \in 1..n : tokens[h + i - 1].word.text \in Symbols
    <3>1. GramEntry(tokens, Standing(tokens, k), n).symbol = x  BY DEF GramEntry
    <3> QED BY <1>6, <1>2, <1>3, <3>1, Zenon
  <2>5. q.symbols \/ \A i \in 0..(n - 1) : ~Symbolic(tokens, g + i)
    <3> SUFFICES ASSUME ~q.symbols, NEW i \in 0..(n - 1) PROVE ~Symbolic(tokens, g + i)
      BY Zenon
    <3>1. PICK m \in Nat : DOMAIN tokens = 1..m  BY Zenon DEF Tokens
    <3>2. i + 1 \in 1..n /\ g + (i + 1) - 1 = g + i
      <4>1. g \in 1..m  BY <2>1, <3>1, Zenon
      <4> QED BY <1>4, <4>1
    <3> DEFINE j == i + 1
    <3>3. j \in 1..n /\ g + j - 1 = g + i  BY <3>2
    <3> HIDE DEF j
    <3> QED BY <3>3, <2>4, Zenon DEF Symbolic
  <2> QED BY <1>2, <2>1, <2>3, <2>5, Zenon DEF Windows, Reaches
<1> HIDE DEF W
<1> QED BY <1>5, <1>6, Zenon DEF WindowsOfKey, W

\* Every window that is counted is one of a stored n-gram.
LEMMA WindowsStored ==
    ASSUME NEW index, Tokens(index.tokens), Grammed(index), NEW q, q.n \in GramSizes,
           NEW g \in Windows(index.tokens, q.lang, q.n, q.symbols)
    PROVE  GramAtRow(index.tokens, g, q.n) \in StoredKeys(index, q)
<1> DEFINE tokens == index.tokens
           n == q.n
           k == GramAtRow(tokens, g, n)
<1>1. g \in DOMAIN tokens /\ tokens[g].word.lang = q.lang /\ Reaches(tokens, g, n)
  BY Zenon DEF Windows, Reaches
<1>2. n \in Nat \ {0}  BY GramSizesAssumption
<1>3. Len(k[2]) = n  BY <1>2, GramLength, Zenon
<1>4. k \in DOMAIN index.ngrams  BY <1>1, Zenon DEF Grammed
<1>5. k[1] = q.lang /\ k[2] = WindowText(tokens, g, n)  BY <1>1 DEF GramAtRow
<1>6. PICK m \in Nat : DOMAIN tokens = 1..m  BY Zenon DEF Tokens
<1> HIDE DEF k
<1>7. ASSUME ~q.symbols PROVE ~index.ngrams[k].symbol
  <2>1. \A h \in Standing(tokens, k) : \A i \in 1..n : tokens[h + i - 1].word.text \notin Symbols
    <3> SUFFICES ASSUME NEW h \in Standing(tokens, k), NEW i \in 1..n PROVE tokens[h + i - 1].word.text \notin Symbols
      BY Zenon
    <3>1. h \in DOMAIN tokens /\ Reaches(tokens, h, n) /\ GramAtRow(tokens, h, n) = k
      BY <1>3, Zenon DEF Standing
    <3>2. WindowText(tokens, h, n) = k[2]  BY <3>1 DEF GramAtRow
    <3>3. NormalAt(tokens, h + i - 1) = NormalAt(tokens, g + i - 1)  BY <1>5, <3>2, Zenon DEF WindowText
    <3> DEFINE a == h + i - 1
               b == g + i - 1
    <3>4. a \in 1..m /\ b \in 1..m
      <4>1. h \in 1..m /\ g \in 1..m /\ h + n - 1 \in 1..m /\ g + n - 1 \in 1..m
        BY <1>1, <1>6, <3>1, Zenon DEF Reaches
      <4> QED BY <1>2, <4>1
    <3>5. i - 1 \in 0..(n - 1) /\ g + (i - 1) = b  BY <1>2, <1>6, <1>1
    <3> HIDE DEF a, b
    <3>6. tokens[a].word \in WordRecords /\ tokens[b].word \in WordRecords
      BY <1>6, <3>4, StreamsIncrease, Zenon
    <3>7. tokens[a].word.text \in DOMAIN Normal /\ tokens[b].word.text \in DOMAIN Normal
      BY <3>6 DEF WordRecords
    <3> QED BY <3>5, <1>7, <3>7, <3>3, SymbolsAssumption, Zenon DEF a, NormalAt, b, Symbolic, Windows
  <2>2. GramEntry(tokens, Standing(tokens, k), n).symbol =
          \E h \in Standing(tokens, k) : \E i \in 1..n : tokens[h + i - 1].word.text \in Symbols
    BY DEF GramEntry
  <2> QED BY <1>3, <1>4, <2>1, <2>2, Zenon DEF Grammed
<1> QED BY <1>3, <1>4, <1>5, <1>7, Zenon DEF StoredKeys, k

\* A stored n-gram is counted in the table of words as often, in as many documents.
GramTallied(tokens, q, e) ==
    \E t \in Tally(tokens, [g \in Windows(tokens, q.lang, q.n, q.symbols) |-> WindowText(tokens, g, q.n)]) :
        t.key = e.key /\ t.frequency = e.frequency /\ t.range = e.range

\* So it is for every row that is shown.
LEMMA StoredAreTallied ==
    ASSUME NEW index, Tokens(index.tokens), Grammed(index), NEW q, NEW e, ShowsStored(index, q, e)
    PROVE  GramTallied(index.tokens, q, e)
<1> DEFINE tokens == index.tokens
           n == q.n
           W == Windows(tokens, q.lang, n, q.symbols)
           keyOf == [g \in W |-> WindowText(tokens, g, n)]
           T == Tally(tokens, keyOf)
<1>1. PICK k \in StoredKeys(index, q) :
          e.key = k[2] /\ e.frequency = index.ngrams[k].frequency /\ e.range = index.ngrams[k].range
  BY Zenon DEF ShowsStored
<1>2. KeyStands(index, q, k)  BY KeysStand, Zenon
<1>3. WindowsOfKey(tokens, q, k)  BY StandingIsWindows, Zenon
<1>4. Same(keyOf, k[2]) = Standing(tokens, k)
  <2>1. DOMAIN keyOf = W /\ \A g \in W : keyOf[g] = WindowText(tokens, g, n)  BY Zenon
  <2> HIDE DEF keyOf, W
  <2> QED BY <1>3, <2>1, Zenon DEF WindowsOfKey, W, Same
<1>5. PICK g \in Standing(tokens, k) : TRUE  BY Zenon DEF Grammed, StoredKeys
<1>6. DOMAIN keyOf \subseteq DOMAIN tokens  BY Zenon DEF Windows
<1> HIDE DEF keyOf
<1>7. (\A t \in T : Tallied(tokens, keyOf, t)) /\ HasEveryKey(T, keyOf)  BY <1>6, TallyEntries, Zenon
<1>8. PICK t \in T : t.key = k[2]  BY <1>4, <1>5, <1>7, Zenon DEF HasEveryKey, Same
<1>9. EntryCountsRows(index.ngrams[k], tokens, Standing(tokens, k))
  <2>1. Standing(tokens, k) \in SUBSET (DOMAIN tokens)  BY Zenon DEF Standing
  <2> QED BY <1>2, <2>1, GramEntryCounts, Zenon DEF KeyStands
<1> QED BY <1>8, <1>1, <1>4, <1>7, <1>9, Zenon DEF GramTallied, keyOf, EntryCountsRows, Tallied

-----------------------------------------------------------------------------
(* N-grams with an open slot *)

\* A gram with an open slot, by the first row of its window.
OpenKeys(tokens, q) ==
    [g \in Windows(tokens, q.lang, q.n, q.symbols) |-> [WindowText(tokens, g, q.n) EXCEPT ![q.slot] = OpenSlot]]

\* Its key: folded words but for the slot.
OpenKey(q, key) ==
    /\ DOMAIN key = 1..q.n /\ key = [i \in 1..q.n |-> key[i]] /\ key[q.slot] = OpenSlot
    /\ \A i \in (1..q.n) \ {q.slot} : \E s \in DOMAIN Normal : key[i] = Normal[s]

\* What opening a slot leaves of a text.
Opened(text, n, slot, key) ==
    /\ DOMAIN key = 1..n /\ key = [i \in 1..n |-> key[i]] /\ key[slot] = OpenSlot
    /\ \A i \in (1..n) \ {slot} : key[i] = text[i]

\* That is what it leaves.
LEMMA SlotOpened ==
    ASSUME NEW text, NEW n, DOMAIN text = 1..n, NEW slot \in 1..n
    PROVE  Opened(text, n, slot, [text EXCEPT ![slot] = OpenSlot])
<1> DEFINE key == [text EXCEPT ![slot] = OpenSlot]
<1>1. key = [i \in 1..n |-> IF i = slot THEN OpenSlot ELSE text[i]]  OBVIOUS
<1> HIDE DEF key
<1>2. \A i \in (1..n) \ {slot} : key[i] = text[i]  BY <1>1
<1> QED BY <1>1, <1>2, Zenon DEF Opened, key

\* The grams with an open slot are such keys.
LEMMA OpenKeysFolded ==
    ASSUME NEW tokens, Tokens(tokens), NEW q, q.n \in GramSizes, q.slot \in 1..q.n, NEW g \in DOMAIN OpenKeys(tokens, q)
    PROVE  OpenKey(q, OpenKeys(tokens, q)[g]) /\ Opened(WindowText(tokens, g, q.n), q.n, q.slot, OpenKeys(tokens, q)[g])
<1> DEFINE n == q.n
           text == WindowText(tokens, g, n)
           key == OpenKeys(tokens, q)[g]
<1>1. g \in Windows(tokens, q.lang, n, q.symbols)  BY Zenon DEF OpenKeys
<1>2. key = [text EXCEPT ![q.slot] = OpenSlot]  BY <1>1, Zenon DEF OpenKeys
<1>3. n \in Nat \ {0}  BY GramSizesAssumption
<1>4. FoldedText(text, n)  BY <1>1, <1>3, WindowFolded, Zenon DEF Windows, Reaches
<1> HIDE DEF text, key
<1>5. Opened(text, n, q.slot, key)  BY <1>2, <1>4, SlotOpened, Zenon DEF FoldedText
<1>6. \A i \in (1..n) \ {q.slot} : \E s \in DOMAIN Normal : key[i] = Normal[s]
  BY <1>4, <1>5, Zenon DEF Opened, FoldedText
<1> QED BY <1>5, <1>6, Zenon DEF text, key, OpenKey, Opened

\* The place of such a gram in a list.
OpenSpot(q, key) == [i \in DOMAIN key |-> IF i = q.slot THEN 0 ELSE Rank[key[i]]]
OpenSpotTyped(q, key) == OpenSpot(q, key) \in Seq(Int) /\ Len(OpenSpot(q, key)) = q.n
OpenSpotTells(q, d, e) == OpenSpot(q, d) = OpenSpot(q, e) => d = e

\* The place is a list of numbers.
LEMMA OpenSpots ==
    ASSUME NEW q, q.n \in Nat, NEW d, OpenKey(q, d)
    PROVE  OpenSpotTyped(q, d)
<1> DEFINE n == q.n
           r == [i \in 1..n |-> IF i = q.slot THEN 0 ELSE Rank[d[i]]]
<1>1. DOMAIN d = 1..n /\ \A i \in (1..n) \ {q.slot} : \E s \in DOMAIN Normal : d[i] = Normal[s]
  BY Zenon DEF OpenKey
<1>2. \A i \in (1..n) \ {q.slot} : Rank[d[i]] \in Int  BY <1>1, RankAssumption, Zenon
<1>3. OpenSpot(q, d) = r  BY <1>1, Zenon DEF OpenSpot
<1>4. r \in [1..n -> Int]  BY <1>2
<1> HIDE DEF r
<1>5. r \in Seq(Int) /\ Len(r) = n  BY <1>4, LenOfFunction
<1> QED BY <1>3, <1>5, Zenon DEF OpenSpotTyped

\* No two keys have one place.
LEMMA OpenSpotsTell ==
    ASSUME NEW q, NEW d, OpenKey(q, d), NEW e, OpenKey(q, e)
    PROVE  OpenSpotTells(q, d, e)
<1> DEFINE n == q.n
<1> SUFFICES ASSUME OpenSpot(q, d) = OpenSpot(q, e) PROVE d = e
  BY Zenon DEF OpenSpotTells
<1>1. /\ DOMAIN d = 1..n /\ d = [i \in 1..n |-> d[i]] /\ d[q.slot] = OpenSlot
      /\ DOMAIN e = 1..n /\ e = [i \in 1..n |-> e[i]] /\ e[q.slot] = OpenSlot
  BY Zenon DEF OpenKey
<1>2. \A i \in 1..n : d[i] = e[i]
  <2> SUFFICES ASSUME NEW i \in 1..n, i # q.slot PROVE d[i] = e[i]
    BY <1>1, Zenon
  <2>1. i \in (1..n) \ {q.slot}  BY Zenon
  <2>2. PICK s \in DOMAIN Normal : d[i] = Normal[s]  BY <2>1, Zenon DEF OpenKey
  <2>3. PICK t \in DOMAIN Normal : e[i] = Normal[t]  BY <2>1, Zenon DEF OpenKey
  <2>4. OpenSpot(q, d)[i] = Rank[d[i]] /\ OpenSpot(q, e)[i] = Rank[e[i]]  BY <1>1, Zenon DEF OpenSpot
  <2>5. Rank[Normal[s]] = Rank[Normal[t]]  BY <2>2, <2>3, <2>4, Zenon
  <2> QED BY <2>2, <2>3, <2>5, PlacesAssumption, Zenon
<1> QED BY <1>1, <1>2, Zenon

\* The grams with an open slot that a query shows, each with the number of words that fill it.
OpenKept(tokens, q) ==
    {d \in Tally(tokens, OpenKeys(tokens, q)) :
        Enough(d, q) /\ GramFiltered(q, d.key)}
OpenRow(tokens, q, d) ==
    Extended(d, [types |-> Cardinality({tokens[g + q.slot - 1].word.text :
        g \in {h \in Windows(tokens, q.lang, q.n, q.symbols) : [WindowText(tokens, h, q.n) EXCEPT ![q.slot] = OpenSlot] = d.key}})])
OpenEntries(tokens, q) == {OpenRow(tokens, q, d) : d \in OpenKept(tokens, q)}

\* A row says of a key what the tally says.
OpenRowOf(tokens, q, d, e) == e.key = d.key /\ e.frequency = d.frequency /\ e.range = d.range /\ e = OpenRow(tokens, q, d)

\* The number of words that fill the slot is all that is added to a tally.
LEMMA OpenRowsSay ==
    ASSUME NEW tokens, NEW q, NEW k, NEW keyOf, NEW d, d = TallyRow(tokens, keyOf, k)
    PROVE  OpenRowOf(tokens, q, d, OpenRow(tokens, q, d))
<1> DEFINE c == Cardinality({tokens[g + q.slot - 1].word.text :
      g \in {h \in Windows(tokens, q.lang, q.n, q.symbols) : [WindowText(tokens, h, q.n) EXCEPT ![q.slot] = OpenSlot] = d.key}})
           e == Extended(d, [types |-> c])
<1> HIDE DEF c
<1>1. e.key = d.key /\ e.frequency = d.frequency /\ e.range = d.range  BY DEF Extended, TallyRow
<1> QED BY <1>1, Zenon DEF OpenRowOf, OpenRow, c

\* A row that is shown counts the windows of its key.
ShowsOpen(tokens, q, e) ==
    OpenKey(q, e.key) /\ e.frequency = Cardinality(Same(OpenKeys(tokens, q), e.key))

\* So it is for every row of the page.
LEMMA OpenRowsShown ==
    ASSUME NEW index, Tokens(index.tokens), NEW q, q.page \in Nat \ {0}, q.size \in Nat \ {0},
           q.n \in GramSizes, q.slot \in 1..q.n, NEW i \in DOMAIN OpenSlotNgrams(index, q).rows
    PROVE  ShowsOpen(index.tokens, q, OpenSlotNgrams(index, q).rows[i])
<1> DEFINE tokens == index.tokens
           keyOf == OpenKeys(tokens, q)
           T == Tally(tokens, keyOf)
           J == OpenKept(tokens, q)
           S == OpenEntries(tokens, q)
           f == [d \in J |-> OpenRow(tokens, q, d)]
           spot == [e \in S |-> OpenSpot(q, e.key)]
           rows == PageOf(ListedBy(S, q.by, spot), q.page, q.size)
<1>1. OpenSlotNgrams(index, q) = Listed(ListedBy(S, q.by, spot), q)
  <2>1. OpenSlotNgrams(index, q) = Listed(InKeyOrder(S, [e \in S |-> Ordering(e, q.by, OpenSpot(q, e.key))]), q)
    BY Zenon DEF OpenSlotNgrams, OpenEntries, OpenKept, OpenRow, OpenKeys, OpenSpot
  <2>2. \A e \in S : spot[e] = OpenSpot(q, e.key)  BY Zenon
  <2> HIDE DEF S, spot
  <2> QED BY <2>1, <2>2, Zenon DEF ListedBy
<1>2. OpenSlotNgrams(index, q).rows = rows  BY <1>1, ListedRows, Zenon
<1>3. q.n \in Nat  BY GramSizesAssumption
<1>4. IsFiniteSet(T) /\ \A d \in T : Tallied(tokens, keyOf, d)  BY TallyEntries, Zenon DEF OpenKeys, Windows
<1>5. \A d \in J : d \in T  BY Zenon DEF OpenKept
<1>6. \A d \in J : /\ Counting(d) /\ OpenKey(q, d.key) /\ d.frequency = Cardinality(Same(keyOf, d.key))
                   /\ d = TallyRow(tokens, keyOf, d.key) /\ OpenRowOf(tokens, q, d, OpenRow(tokens, q, d))
  <2> SUFFICES ASSUME NEW d \in J
               PROVE  /\ Counting(d) /\ OpenKey(q, d.key) /\ d.frequency = Cardinality(Same(keyOf, d.key))
                      /\ d = TallyRow(tokens, keyOf, d.key) /\ OpenRowOf(tokens, q, d, OpenRow(tokens, q, d))
    BY Zenon
  <2>1. /\ Counting(d) /\ d.frequency = Cardinality(Same(keyOf, d.key)) /\ d = TallyRow(tokens, keyOf, d.key)
        /\ d.first \in Same(keyOf, d.key)
    BY <1>4, <1>5, Zenon DEF Tallied
  <2> QED BY <2>1, OpenKeysFolded, OpenRowsSay, Zenon DEF Same
<1>7. \A e \in S : \E d \in J : e = OpenRow(tokens, q, d)  BY Zenon DEF OpenEntries
<1>8. IsFiniteSet(S)
  <2>1. Image(S, f, J)  BY Zenon DEF Image, OpenEntries
  <2> HIDE DEF J, S, f
  <2> QED BY <1>4, <1>5, FS_Subset, <2>1, ImageFinite, Zenon
<1> HIDE DEF J, S, T, keyOf
<1>9. \A e \in S : \E d \in J : /\ e = OpenRow(tokens, q, d) /\ e.key = d.key /\ Counting(e)
                                /\ e.frequency = d.frequency
  BY <1>6, <1>7, Zenon DEF OpenRowOf, Counting
<1>10. SpottedSet(S, spot, q.n)
  <2>1. ASSUME NEW e \in S PROVE Counting(e) /\ spot[e] \in Seq(Int) /\ Len(spot[e]) = q.n
    BY <2>1, <1>6, <1>9, <1>3, OpenSpots, Zenon DEF OpenSpotTyped
  <2>2. ASSUME NEW d \in S, NEW e \in S, spot[d] = spot[e] PROVE d = e
    <3>1. PICK k \in J : d = OpenRow(tokens, q, k) /\ d.key = k.key  BY <1>9, <2>2, Zenon
    <3>2. PICK l \in J : e = OpenRow(tokens, q, l) /\ e.key = l.key  BY <1>9, <2>2, Zenon
    <3> QED BY <3>1, <3>2, <1>6, <2>2, OpenSpotsTell, Zenon DEF OpenSpotTells
  <2> QED BY <1>8, <2>1, <2>2, Zenon DEF SpottedSet
<1> HIDE DEF spot
<1>11. rows[i] \in S  BY <1>2, <1>10, PageShowsElements, Zenon DEF RowsFrom
<1> HIDE DEF rows
<1> QED BY <1>2, <1>6, <1>9, <1>11, Zenon DEF ShowsOpen, keyOf

\* The stored n-grams that fill an open slot.
Filling(index, q, key) ==
    {k \in StoredKeys(index, q) : \A i \in DOMAIN key \ {q.slot} : key[i] = k[2][i]}

\* The windows of a gram with an open slot are those of the n-grams that fill it.
FillingApart(index, q, key) ==
    /\ \A g \in Same(OpenKeys(index.tokens, q), key) : GramAtRow(index.tokens, g, q.n) \in Filling(index, q, key)
    /\ \A k \in Filling(index, q, key) :
            Standing(index.tokens, k) = {g \in Same(OpenKeys(index.tokens, q), key) : GramAtRow(index.tokens, g, q.n) = k}

\* Every window of the gram is one of exactly one n-gram that fills it.
LEMMA FillingIsApart ==
    ASSUME NEW index, Tokens(index.tokens), Grammed(index), NEW q, q.n \in GramSizes, q.slot \in 1..q.n,
           NEW key, OpenKey(q, key)
    PROVE  FillingApart(index, q, key)
<1> DEFINE tokens == index.tokens
           n == q.n
           keyOf == OpenKeys(tokens, q)
           P == Same(keyOf, key)
           W == Windows(tokens, q.lang, n, q.symbols)
<1>1. DOMAIN keyOf = W  BY Zenon DEF OpenKeys
<1>2. DOMAIN key = 1..n /\ key = [i \in 1..n |-> key[i]] /\ key[q.slot] = OpenSlot  BY Zenon DEF OpenKey
<1>3. \A g \in W : Opened(WindowText(tokens, g, n), n, q.slot, keyOf[g])  BY <1>1, OpenKeysFolded, Zenon
<1> HIDE DEF keyOf
<1>4. \A g \in P : g \in W /\ keyOf[g] = key  BY <1>1, Zenon DEF Same
<1>5. ASSUME NEW g \in P PROVE GramAtRow(tokens, g, n) \in Filling(index, q, key)
  <2> DEFINE k == GramAtRow(tokens, g, n)
  <2>1. k[2] = WindowText(tokens, g, n)  BY DEF GramAtRow
  <2>2. \A i \in (1..n) \ {q.slot} : key[i] = k[2][i]
    <3>1. Opened(WindowText(tokens, g, n), n, q.slot, key)  BY <1>3, <1>4, <1>5, Zenon
    <3>2. \A i \in (1..n) \ {q.slot} : key[i] = WindowText(tokens, g, n)[i]  BY <3>1, Zenon DEF Opened
    <3> QED BY <2>1, <3>2
  <2> HIDE DEF k
  <2> QED BY <1>2, <1>4, <1>5, WindowsStored, <2>2, Zenon DEF Filling, k
<1>6. ASSUME NEW k \in Filling(index, q, key)
      PROVE  Standing(tokens, k) = {g \in P : GramAtRow(tokens, g, n) = k}
  <2>1. k \in StoredKeys(index, q) /\ \A i \in (1..n) \ {q.slot} : key[i] = k[2][i]
    BY <1>2, <1>6, Zenon DEF Filling
  <2>2. Standing(tokens, k) = {g \in W : WindowText(tokens, g, n) = k[2]}
    <3>1. WindowsOfKey(tokens, q, k)  BY <2>1, StandingIsWindows, Zenon
    <3> QED BY <3>1, Zenon DEF WindowsOfKey
  <2>3. k[1] = q.lang /\ k = <<k[1], k[2]>>
    <3>1. KeyStands(index, q, k)  BY <2>1, KeysStand, Zenon
    <3> QED BY <3>1, Zenon DEF KeyStands
  <2>4. ASSUME NEW g \in Standing(tokens, k) PROVE g \in P /\ GramAtRow(tokens, g, n) = k
    <3>1. g \in W /\ WindowText(tokens, g, n) = k[2]  BY <2>2, <2>4, Zenon
    <3> DEFINE o == keyOf[g]
    <3>2. /\ o = [i \in 1..n |-> o[i]] /\ o[q.slot] = OpenSlot /\ \A i \in (1..n) \ {q.slot} : o[i] = k[2][i]
      <4>1. Opened(k[2], n, q.slot, o)  BY <1>3, <3>1, Zenon
      <4> QED BY <4>1, Zenon DEF Opened
    <3> HIDE DEF o
    <3>3. \A i \in 1..n : o[i] = key[i]
      <4> SUFFICES ASSUME NEW i \in 1..n PROVE o[i] = key[i]
        BY Zenon
      <4>1. CASE i = q.slot  BY <1>2, <3>2, <4>1, Zenon
      <4>2. CASE i # q.slot  BY <2>1, <3>2, <4>2, Zenon
      <4> QED BY <4>1, <4>2, Zenon
    <3> QED BY <1>1, <3>1, <2>3, <1>2, <3>2, <3>3, Zenon DEF Same, o, GramAtRow, Windows
  <2>5. ASSUME NEW g \in P, GramAtRow(tokens, g, n) = k PROVE g \in Standing(tokens, k)
    <3>1. k = <<tokens[g].word.lang, WindowText(tokens, g, n)>>  BY <2>5, Zenon DEF GramAtRow
    <3>2. k[2] = WindowText(tokens, g, n)  BY <3>1
    <3> QED BY <1>4, <2>2, <2>5, <3>2, Zenon
  <2> HIDE DEF P
  <2> QED BY <2>4, <2>5, Zenon
<1> QED BY <1>5, <1>6, Zenon DEF FillingApart, keyOf, P

\* What an open slot counts is the sum of the n-grams that fill it.
SlotAddsUp(index, q, e) ==
    e.frequency = MapThenSumSet(LAMBDA k : index.ngrams[k].frequency, Filling(index, q, e.key))

\* The sum follows.
LEMMA OpenAddsUp ==
    ASSUME NEW index, Tokens(index.tokens), Grammed(index), NEW q, q.n \in GramSizes, q.slot \in 1..q.n,
           NEW e, ShowsOpen(index.tokens, q, e)
    PROVE  SlotAddsUp(index, q, e)
<1> DEFINE tokens == index.tokens
           n == q.n
           S == Filling(index, q, e.key)
           P == Same(OpenKeys(tokens, q), e.key)
           place == [g \in P |-> GramAtRow(tokens, g, n)]
           f == [k \in S |-> index.ngrams[k].frequency]
           pick == [s \in SUBSET S |-> CHOOSE x \in s : TRUE]
           F(h) == [s \in SUBSET S |-> IF s = {} THEN 0
                        ELSE index.ngrams[CHOOSE x \in s : TRUE].frequency + h[s \ {CHOOSE x \in s : TRUE}]]
           iter == CHOOSE h : h = F(h)
           g == PlacedCounts(S, P, place)
<1>1. OpenKey(q, e.key) /\ e.frequency = Cardinality(P)  BY Zenon DEF ShowsOpen
<1>2. FillingApart(index, q, e.key)  BY <1>1, FillingIsApart, Zenon
<1>3. MapThenSumSet(LAMBDA k : index.ngrams[k].frequency, S) = iter[S]
  <2> HIDE DEF S
  <2> QED BY Zenon DEF MapThenSumSet, MapThenFoldSet
<1>4. \A s \in SUBSET S : s # {} => /\ pick[s] \in s /\ pick[s] \in S /\ s \ {pick[s]} \in SUBSET S
                                    /\ pick[s] = (CHOOSE x \in s : TRUE)
  <2> SUFFICES ASSUME NEW s \in SUBSET S, s # {}
               PROVE  /\ pick[s] \in s /\ pick[s] \in S /\ s \ {pick[s]} \in SUBSET S
                      /\ pick[s] = (CHOOSE x \in s : TRUE)
    BY Zenon
  <2>1. pick[s] = CHOOSE x \in s : TRUE  BY Zenon
  <2>2. (CHOOSE x \in s : TRUE) \in s  BY Zenon
  <2> HIDE DEF pick, S
  <2> QED BY <2>1, <2>2
<1>5. IsFiniteSet(P) /\ IsFiniteSet(S)
  <2>1. P \subseteq DOMAIN tokens  BY Zenon DEF Same, OpenKeys, Windows
  <2>2. S \subseteq StoredKeys(index, q)  BY Zenon DEF Filling
  <2> HIDE DEF P, S
  <2> QED BY <2>1, <2>2, TokensFinite, StoredKeysFinite, FS_Subset, Zenon
<1>6. \A x \in P : place[x] = GramAtRow(tokens, x, n) /\ place[x] \in S  BY <1>2, Zenon DEF FillingApart
<1>7. \A k \in S : index.ngrams[k].frequency \in Nat /\ f[k] = index.ngrams[k].frequency /\ f[k] = Cardinality(Placed(P, place, {k}))
  <2> SUFFICES ASSUME NEW k \in S
               PROVE  index.ngrams[k].frequency \in Nat /\ f[k] = index.ngrams[k].frequency /\ f[k] = Cardinality(Placed(P, place, {k}))
    BY Zenon
  <2>1. k \in StoredKeys(index, q)  BY Zenon DEF Filling
  <2>2. index.ngrams[k] = GramEntry(tokens, Standing(tokens, k), n)  BY <2>1, KeysStand, Zenon DEF KeyStands
  <2>3. EntryCountsRows(index.ngrams[k], tokens, Standing(tokens, k))
    BY <2>2, GramEntryCounts, Zenon DEF Standing
  <2>4. Placed(P, place, {k}) = {h \in P : GramAtRow(tokens, h, n) = k}
    <3> HIDE DEF P, place
    <3> QED BY <1>6 DEF Placed
  <2> QED BY <2>3, <1>2, <2>4, Zenon DEF EntryCountsRows, Counting, FillingApart
<1> HIDE DEF S, P, place, f, pick
<1>8. CountsPlaces(S, f, pick, P, place)  BY <1>4, <1>5, <1>6, <1>7, Zenon DEF CountsPlaces
<1>9. SumsUp(g, S, f, pick)  BY <1>8, CountsSumUp, Zenon
<1>10. \A s \in SUBSET S : g[s] \in Nat
  <2> SUFFICES ASSUME NEW s \in SUBSET S PROVE g[s] \in Nat
    BY Zenon
  <2> QED BY <1>5, FS_Subset, FS_CardinalityType, Zenon DEF PlacedCounts, Placed
<1>11. g = [s \in SUBSET S |-> g[s]]  BY Zenon DEF PlacedCounts
<1> HIDE DEF g
<1>12. g = F(g)
  <2>1. \A s \in SUBSET S : g[s] = IF s = {} THEN 0
                        ELSE index.ngrams[CHOOSE x \in s : TRUE].frequency + g[s \ {CHOOSE x \in s : TRUE}]
    <3> SUFFICES ASSUME NEW s \in SUBSET S, s # {} PROVE g[s] = index.ngrams[CHOOSE x \in s : TRUE].frequency + g[s \ {CHOOSE x \in s : TRUE}]
      BY <1>9, Zenon DEF SumsUp
    <3> DEFINE k == pick[s]
               a == g[s \ {k}]
               b == index.ngrams[k].frequency
    <3>1. k \in S /\ s \ {k} \in SUBSET S /\ k = (CHOOSE x \in s : TRUE)  BY <1>4, Zenon
    <3>2. g[s] = a + b  BY <1>7, <1>9, <3>1, Zenon DEF SumsUp
    <3>3. a \in Nat /\ b \in Nat  BY <1>7, <1>10, <3>1, Zenon
    <3> HIDE DEF k, a, b
    <3>4. a + b = b + a  BY <3>3
    <3> QED BY <3>1, <3>2, <3>4, Zenon DEF a, b
  <2> QED BY <1>11, <2>1, Zenon
<1>13. iter = F(iter)
  <2> HIDE DEF F
  <2> QED BY <1>12, Zenon
<1> HIDE DEF iter
<1>14. SumsWithin(iter, S, f, pick)
  <2>1. \A s \in SUBSET S : iter[s] = IF s = {} THEN 0
                        ELSE index.ngrams[CHOOSE x \in s : TRUE].frequency + iter[s \ {CHOOSE x \in s : TRUE}]
    BY <1>13, Zenon
  <2>2. ASSUME NEW s \in SUBSET S, s # {}, iter[s \ {pick[s]}] \in Nat
        PROVE  iter[s] = iter[s \ {pick[s]}] + f[pick[s]]
    <3> DEFINE k == pick[s]
               a == iter[s \ {k}]
               b == f[k]
    <3>1. k \in S /\ k = (CHOOSE x \in s : TRUE)  BY <1>4, <2>2, Zenon
    <3>2. iter[s] = b + a  BY <1>7, <2>1, <2>2, <3>1, Zenon
    <3>3. a \in Nat /\ b \in Nat  BY <1>7, <2>2, <3>1, Zenon
    <3> HIDE DEF a, b
    <3>4. iter[s] = a + b  BY <3>2, <3>3
    <3> QED BY <3>4, Zenon DEF a, b
  <2> QED BY <2>1, <2>2, Zenon DEF SumsWithin
<1> QED BY <1>1, <1>3, <1>8, <1>14, SumCounts, Zenon DEF SlotAddsUp, SumsTo, S

-----------------------------------------------------------------------------
(* All counts agree *)

\* What a query shows is one of the two tables, unless it is refused.
ChoosesTable(index, q, answer) ==
    /\ q.n \in GramSizes
    /\ q.slot = 0 => answer = StoredNgrams(index, q)
    /\ q.slot # 0 => q.slot \in 1..q.n /\ answer = OpenSlotNgrams(index, q)

\* The slot says which.
LEMMA TableOfSlot ==
    ASSUME NEW index, NEW q, q.slot \in Nat, ~IsError(Ngrams(index, q))
    PROVE  ChoosesTable(index, q, Ngrams(index, q))
<1> DEFINE open == OpenSlotNgrams(index, q)
           stored == StoredNgrams(index, q)
           answer == Ngrams(index, q)
           slot == q.slot
           n == q.n
<1>1. answer = IF n \notin GramSizes \/ slot > n THEN QueryError ELSE IF slot > 0 THEN open ELSE stored
  BY Zenon DEF Ngrams
<1>2. IsError(QueryError)  BY DEF IsError, QueryError
<1>3. slot \in Nat /\ ~IsError(answer)  OBVIOUS
<1> HIDE DEF open, stored, answer, slot, n
<1>4. ~(n \notin GramSizes \/ slot > n)  BY <1>1, <1>2, <1>3, Zenon
<1>5. n \in GramSizes /\ n \in Nat /\ answer = IF slot > 0 THEN open ELSE stored
  BY <1>1, <1>4, GramSizesAssumption, Zenon
<1>6. slot # 0 => slot > 0 /\ slot \in 1..n  BY <1>3, <1>4, <1>5
<1>7. slot = 0 => ~(slot > 0)  OBVIOUS
<1>8. (slot = 0 => answer = stored) /\ (slot # 0 => answer = open)  BY <1>5, <1>6, <1>7, Zenon
<1> QED BY <1>5, <1>6, <1>8, Zenon DEF ChoosesTable, open, stored, answer, slot, n

\* What a row of n-grams says is what the tokens say.
GramAgrees(index, q, e) ==
    IF q.slot = 0 THEN GramTallied(index.tokens, q, e) ELSE SlotAddsUp(index, q, e)

\* So it is in both tables.
LEMMA GramsOfTables ==
    ASSUME NEW index, Tokens(index.tokens), Grammed(index), NEW q, q.page \in Nat \ {0}, q.size \in Nat \ {0},
           NEW answer, ChoosesTable(index, q, answer), NEW i \in DOMAIN answer.rows
    PROVE  GramAgrees(index, q, answer.rows[i])
<1> DEFINE e == answer.rows[i]
<1>1. ASSUME q.slot = 0  PROVE GramTallied(index.tokens, q, e)
  <2>1. ShowsStored(index, q, e)  BY <1>1, StoredRows, Zenon DEF ChoosesTable
  <2> HIDE DEF e
  <2> QED BY <2>1, StoredAreTallied, Zenon
<1>2. ASSUME q.slot # 0  PROVE SlotAddsUp(index, q, e)
  <2>1. q.n \in GramSizes /\ q.slot \in 1..q.n /\ answer = OpenSlotNgrams(index, q)
    BY <1>2, Zenon DEF ChoosesTable
  <2>2. ShowsOpen(index.tokens, q, e)  BY <2>1, OpenRowsShown, Zenon
  <2> HIDE DEF e
  <2> QED BY <2>1, <2>2, OpenAddsUp, Zenon
<1> HIDE DEF e
<1> QED BY <1>1, <1>2, Zenon DEF e, GramAgrees

\* The n-grams are right in every state that the reader can come to.
LEMMA GramsRightlyShown == PagesInvariant => GramsAgree
<1>0. \A page : page.view = "ngrams" => page # NoVisit  BY DEF NoVisit
<1> SUFFICES ASSUME PagesInvariant, Shows("ngrams")
             PROVE  GramsAgree
  BY Zenon DEF GramsAgree
<1> DEFINE q == visit.query
           index == visit.corpus.index
           answer == visit.answer
<1>1. visit.view = "ngrams" /\ ~IsError(answer)  BY Zenon DEF Shows
<1>2. ShownPage(visit)  BY <1>0, <1>1, Zenon DEF PagesInvariant
<1>3. GramsQuery(q) /\ answer = Ngrams(index, q) /\ q.page >= 1  BY <1>1, <1>2, Zenon DEF ShownPage, GramsShown
<1>4. Tokens(index.tokens) /\ Grammed(index)
  <2>1. PICK c \in Corpora : visit.corpus = Artifacts(c)  BY <1>2, Zenon DEF ShownPage
  <2> QED BY <2>1, ArtifactsFields, IndexGrammed, Zenon
<1>5. q.page \in Int /\ q.size \in Nat \ {0} /\ q.slot \in Nat  BY <1>3, Zenon DEF GramsQuery
<1>6. ChoosesTable(index, q, answer)  BY <1>3, <1>5, <1>1, TableOfSlot, Zenon
<1>7. q.page \in Nat \ {0}
  <2> DEFINE p == q.page
  <2>1. p \in Int /\ p >= 1  BY <1>3, <1>5, Zenon
  <2> HIDE DEF p
  <2>2. p \in Nat \ {0}  BY <2>1
  <2> QED BY <2>2, Zenon DEF p
<1>8. \A i \in DOMAIN visit.answer.rows : GramAgrees(visit.corpus.index, visit.query, visit.answer.rows[i])
  BY <1>4, <1>5, <1>6, <1>7, GramsOfTables, Zenon
<1> HIDE DEF q, index, answer
<1> QED BY <1>8, Zenon DEF GramsAgree, GramAgrees, GramTallied, SlotAddsUp, Filling, StoredKeys

\* All counts agree.  A word has one frequency in word list, cloud,
\* concordance and plot; the n-grams that are stored file by file when a
\* corpus is indexed are those one counts in its tokens, each as often and in
\* as many documents; and a gram with an open slot counts what the n-grams
\* that fill it count together (_write_ngrams, ngrams, _open_slot_ngrams, word_list).
THEOREM CountsAlwaysAgree == Spec => []CountsAgree
<1>1. PagesInvariant => CountsAgree  BY FrequenciesShown, GramsRightlyShown, Zenon DEF CountsAgree
<1> QED BY <1>1, PagesAreInvariant, PTL

=============================================================================
