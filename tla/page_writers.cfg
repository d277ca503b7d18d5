CONSTANTS
    home = home  other = other  request = request  daemon = daemon  search = search
    site = site  elsewhere = elsewhere  body = body  body2 = body2  away = away
    Urls = {home, other}
    Requests = {request}
    Daemons = {daemon}
    Searches = {search}
    Sources = {home}
    Hits = {home}
    HostOf <- MCHostOf
    Maps <- MCMaps
    LinksOf <- MCLinksOf
    TextOf <- MCTextOf
    Thin = {}
    MayFail = TRUE
    Frail = {home}
    MaxStarts = 1
    MaxSweeps = 0
    MaxCrashes = 0
    NoUrl = NoUrl
SPECIFICATION Spec
INVARIANTS CrawledAccounted JobsTruthful
CHECK_DEADLOCK FALSE
