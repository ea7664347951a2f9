\* One account of a machine, one certificate chain, one click.
SPECIFICATION PartsSpec
CONSTANTS
    p1 = p1  p2 = p2  u = u  r = r  chrome = chrome  profile = profile
    userLib = userLib  link = link  vendor = vendor  missing = missing
    opensc = opensc  fOpensc = fOpensc  fVendor = fVendor  None = None
    Procs = {p1, p2}
    Users = {u}
    Root = r
    Launches <- MCLaunches
    DBs = {chrome, profile}
    OwnerOf <- MCOwnerOf
    Chrome = {chrome}
    Libraries = {userLib, link, opensc, vendor, missing}
    Present = {userLib, link, opensc, vendor}
    FileOf <- MCFileOf
    Broken = {fVendor}
    DefaultPKCS11Paths <- MCDefaults
    Configs <- MCConfigs
    MaxLaunches = 3
    MaxEvents = 1
    signer = signer  sub = sub  ca = ca  root = root  Garbage = Garbage
    Certs = {signer, sub, ca, root}
    HasIssuerUrl = {signer, sub, root}
    SelfIssued = {root}
    HasOcspUrl = {signer, sub}
    Serials <- MCSerials
    NameHash <- MCNameHash
    SpkiHash <- MCSpkiHash
    KeyHash <- MCKeyHash
    MaxLevels = 5
    c1 = c1
    Clicks = {c1}
    Skews <- MCSkews
    Window = 1
    Life = 2
    MaxNow = 3
    MaxSecret = 2
    MaxFaults = 2
\* Walks and clicks end, launches run out.
CHECK_DEADLOCK FALSE
INVARIANTS
    TypeOK
    WholePairKept
    NewTrustIsServed
    EveryDriverOnce
    WalkTypeOK
    RequestNamesLeaf
    FlowTypeOK
    SignedInWindow
    DoneMeansAttached
    SessionNotWasted
PROPERTIES
    LoneLaunchGetsCert
    UninstallUndoes
    EveryWalkAnswers
    ImplementsSignedFiles
    EveryClickEnds
