CONSTANTS
    a = a  b = b  a0 = a0  a1 = a1  a1x = a1x  b0 = b0
    Urls = {a0, a1, a1x, b0}
    Domains = {a, b}
    DomainOf <- MCDomainOf
    Normal <- MCNormal
    PathDepth <- MCPathDepth
    Rel <- MCRel
    Webs <- AllWebs
    Graphs <- MCGraphs
    Seeds <- MCSeeds
    MaxPages = 2
    MinDepth = 0
    MaxDepth = 2
    AutoDepth = TRUE
    RespectRobots = TRUE
    Flaky = {a1}
    SetupMayFail = TRUE
    Frail = {a1, b0}
    WorkerMayFail = TRUE
    NoEntry = NoEntry
    NoTx = NoTx
SPECIFICATION FairSpec
INVARIANTS FetchedOnce RobotsObeyed ScopeKept ResultsRecorded
PROPERTY Terminates
