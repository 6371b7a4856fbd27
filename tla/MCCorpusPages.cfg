SPECIFICATION Spec
CONSTANTS
    Normal <- MCNormal
    Symbols <- MCSymbols
    GramSizes = {2, 3}
    Pattern <- MCPattern
    Compound <- MCCompound
    Inside <- MCInside
    Rank <- MCRank
    FileName <- MCFileName
    FileRank <- MCFileRank
    FoldedRank <- MCFoldedRank
    Across <- MCAcross
    MaxQueryTerms = 3
    MaxSortKeys = 3
    HashFactor = 5
    HashSize = 8
    Han <- MCHan
    Lemma <- MCLemma
    EndRank <- MCEndRank
    MaxNth = 3
    MaxTerms = 2
    Corpora <- MCCorpora
    Requests <- MCRequests
    ExportSize = 3
    MaxPublications = 2
INVARIANTS TypeOK PagesPartition EnginesAgree PatternCountsAgree FileShowsTheHit CountsAgree CollocatesMirror ExportIsTheSearch
CHECK_DEADLOCK FALSE
