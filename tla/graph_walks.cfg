CONSTANTS
    home = home  about = about  news = news old = old
    Urls = {home, about, news, old}
    Recorded = {about, news}
    Start = home
    MaxDepth = 3
    MaxLinks = 3
    NoUrl = NoUrl
SPECIFICATION Spec
INVARIANTS WalkMissesNothing WalkInventsNothing PathIsShortest NeighborhoodAgrees
CHECK_DEADLOCK FALSE
