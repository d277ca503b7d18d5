CONSTANTS
    p1 = p1  p2 = p2  p3 = p3  here = here  there = there  d1 = d1  d2 = d2
    a1 = a1  a2 = a2   r1 = r1  r2 = r2
    t1 = t1  t2 = t2
    Tasks = {t1, t2}
    Sites = {d1, d2}
    Proxies = {p1, p2, p3}
    Pools <- MCPools
    Host <- MCHost
    Hash <- MCHash
    Strategies = {"random", "roundrobin", "sticky"}
    Addresses = {a1, a2}
    IspOf <- MCIspOf
    Sticky = TRUE
    GetBound = 3
    CheckBound = 1
    None = None
SPECIFICATION ClientSpec
INVARIANTS RefusedNotReused BanHolds FreshIdentities
CHECK_DEADLOCK FALSE
SYMMETRY MCSymmetry
