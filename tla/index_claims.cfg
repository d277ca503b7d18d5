CONSTANTS
    u1 = u1  u2 = u2
    Urls = {u1}
    Texts = {t1, t2}
    Searches = {s1, s2}
    Links <- MCSelfLink
    MayFail = TRUE
    MaxVersion = 3
    NoRow = NoRow
    NoLink = NoLink
    NoTx = NoTx
SPECIFICATION Spec
SYMMETRY MCSymmetry
INVARIANT ClaimHolds
INVARIANT NoFutureClaims
PROPERTY ContentBumpsVersion
