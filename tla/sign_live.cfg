\* Two concurrent requests under weak fairness, an unreliable driver.
SPECIFICATION LiveSpec
CONSTANTS
    r1 = r1  r2 = r2  s1 = s1  t1 = t1  t2 = t2
    c1 = c1  c2 = c2  p1 = p1  p2 = p2  None = None
    Requests = {r1, r2}
    Slots = {s1}
    Tokens = {t1}
    Certs = {c1}
    PINs = {p1, p2}
    Fits <- OneReader
    CertsOn <- OneToken
    FirstKey <- OneTokenKey
    FirstCert <- OneTokenKey
    MaxTries = 1
    MaxEvents = 1
    FlakyDriver = TRUE
PROPERTIES
    EveryRequestAnswered
    LoginReleased
