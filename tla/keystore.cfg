\* One writer that pairs and removes, or two that pair; file faults, a crash.
SPECIFICATION MCSpec
CONSTANTS
    w1 = w1  w2 = w2  u1 = u1  u2 = u2  None = None
    Truncated = Truncated  Torn = Torn
    Writers = {w1, w2}
    Sites = {u1, u2}
    MaxPairings = 3
    MaxCrashes = 1
    KeychainStates = {TRUE, FALSE}
    FileFaults = TRUE
    Removal = TRUE
INVARIANTS
    TypeOK
    DurablePairingHasToken
    AckedPairingListed
    ReadsBackTokens
    ReadsBackSecrets
    RemovedIsGone
PROPERTIES
    EveryWriterReturns
