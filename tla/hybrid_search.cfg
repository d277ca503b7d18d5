CONSTANTS
    guide = guide  guideUtm = guideUtm  other = other  t1 = t1  t2 = t2
    q1 = q1  q2 = q2  blank = blank
    Urls = {guide, guideUtm, other}
    Texts = {t1, t2}
    Queries = {q1, q2}
    Blank = blank
    NoUrl = NoUrl
    Requests <- MCRequests
    Matching <- MCMatching
    Relevance <- MCRelevance
    Nearness <- MCNearness
    Authority <- MCAuthority
    Recency <- MCRecency
    Canon <- MCCanon
    Before <- MCBefore
    Rowid <- MCRowid
    Limit = 2
    MayFail = TRUE
    MaxVersion = 3
SPECIFICATION HybridSpec
CONSTRAINT Focus
INVARIANTS MatchesFound FusionComplete
CHECK_DEADLOCK FALSE
