CONSTANTS
    ddg = ddg  bing = bing  hn = hn  home = home  guide = guide  guideUtm = guideUtm  other = other
    root = root  docs = docs
    Urls = {home, guide, guideUtm, other}
    Before <- MCBefore
    Canon <- MCCanon
    Host <- MCHost
    Section <- MCSection
    NoSection = root
    Matches <- MCMatches
    Engines = {ddg, bing, hn}
    HitLists <- MCLists
    StoreLists <- MCStoreLists
    Lengths = {1, 4}
    Selections <- MCSelections
    Timeout = 2
    TargetHits = 3
    Wanted = 2
    Noisy = {guideUtm, other}
    Quoted = {guide, other}
    NoHits = NoHits
    Keywords = {4, 6}
    MaxSeeds = 1
    MinRelevance = 550
    FallbackRelevance = 250
    Catalogs <- MCCatalogs
    Graphs <- MCGraphs
    Indexes <- MCIndexes
    Forbidden = {other}
    NotAsked = NotAsked
SPECIFICATION SeedSpec
INVARIANTS EvidenceConserved ConsensusWins ResultsFit BestSeedOffered
PROPERTY SearchReturns
