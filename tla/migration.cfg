CONSTANTS
    home = home  guide = guide  news = news  h1 = h1  h2 = h2
    NodeUrls = {home, guide, news}
    Hashes = {h1, h2}
    Statuses = {"pending", "done"}
    NoStatus = NoStatus
    Exports <- MCExports
    ForeignKeys = FALSE
    MaxRuns = 3
SPECIFICATION MigrateSpec
INVARIANTS NoDanglingEdges SuccessIsExact
CHECK_DEADLOCK FALSE
