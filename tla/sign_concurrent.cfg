\* Two concurrent requests on a reader in which two tokens take turns.
SPECIFICATION Spec
CONSTANTS
    r1 = r1  r2 = r2  s1 = s1  t1 = t1  t2 = t2
    c1 = c1  c2 = c2  p1 = p1  p2 = p2  None = None
    Requests = {r1, r2}
    Slots = {s1}
    Tokens = {t1, t2}
    Certs = {c1, c2}
    PINs = {p1, p2}
    Fits <- SharedReader
    CertsOn <- OneCertEach
    FirstKey <- SecondHasNoKey
    FirstCert <- OwnKey
    MaxTries = 2
    MaxEvents = 2
    FlakyDriver = FALSE
SYMMETRY Interchangeable
INVARIANTS
    TypeOK
    LoginExclusive
    CachedPinWasAccepted
    BurnBound
    OneTokenSigns
PROPERTIES
    TriesTakenFromOwnToken
    ImplementsTokenLease
