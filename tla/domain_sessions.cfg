CONSTANTS
    slow = slow  fast = fast  mac = mac  phone = phone
    Domains = {slow, fast}
    Delay = 1
    CrawlDelay <- MCCrawlDelay
    MaxRequests = 2
    MaxAge = 5
    MaxExponent = 2
    MaxBackoff = 3
    Deep = FALSE
    Fingerprints = {mac, phone}
    RequestBound = 5
    TimeBound = 9
SPECIFICATION Spec
INVARIANT SessionSpared
PROPERTY PaceKept
CHECK_DEADLOCK FALSE
