CONSTANTS
    home = home  other = other  request = request  daemon = daemon  search = search
    site = site  elsewhere = elsewhere  body = body  body2 = body2  away = away
    Urls = {home, away}
    Requests = {}
    Daemons = {daemon}
    Searches = {}
    Sources = {home}
    Hits = {}
    HostOf <- MCHostOfCross
    Maps <- MCMapsCross
    LinksOf <- MCLinksCross
    TextOf <- MCTextCross
    Thin = {away}
    MayFail = TRUE
    Frail = {away}
    MaxStarts = 0
    MaxSweeps = 1
    MaxCrashes = 1
    NoUrl = NoUrl
SPECIFICATION Spec
PROPERTIES CrawledSettles SourcesSwept
CHECK_DEADLOCK FALSE
