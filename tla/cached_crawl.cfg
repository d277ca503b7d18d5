CONSTANTS
    home = home  homeSlash = homeSlash  about = about  k1 = k1  k2 = k2
    old = old  new = new  bad = bad
    Urls = {home, homeSlash, about}
    Keys = {k1, k2}
    KeyOf <- MCKeyOf
    Bodies = {old, new, bad}
    Valid = {old, new}
    Similar <- MCSimilar
    Policy = "fixed"
    Days = 1
    SkipCached = TRUE
    BatchSize = 2
    Capacity = 1
    IndexMayFail = TRUE
    WriteMayFail = TRUE
    MaxRuns = 2
    MaxCrashes = 1
    MaxDay = 2
SPECIFICATION Spec
INVARIANTS CachedWasIndexed NoEarlyRefetch
PROPERTY RunsEnd
CHECK_DEADLOCK FALSE
