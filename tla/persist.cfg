CONSTANTS
    c1 = c1  c2 = c2  c3 = c3  c4 = c4
    u1 = u1  u2 = u2  u3 = u3
    b1 = b1  b2 = b2  thin = thin
    Calls = {c1, c2, c3, c4}
    Urls = {u1, u2, u3}
    Bodies = {b1, b2, thin}
    UrlOf <- MCUrlOf
    BodyOf <- MCBodyOf
    FirstSeen <- MCFirstSeen
    Thin = {thin}
    Capacity = 2
    HasEmbedder = TRUE
    Faults <- MCFaults
    NoUrl = NoUrl
    NoCall = NoCall
SPECIFICATION FairSpec
INVARIANTS CloseDrains DoneJustified NoJobLeftOpen HandledIsStored
PROPERTIES ImplementsService SentIsHandled CloseTerminates
