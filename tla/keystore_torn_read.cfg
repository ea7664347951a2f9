\* One pairing rewrites the token file while a sign request reads it.
SPECIFICATION Spec
CONSTANTS
    None = None
    Truncated = Truncated  Torn = Torn
    Writers = {w1}
    Sites = {u1, u2}
    MaxPairings = 2
    MaxCrashes = 0
    KeychainStates = {FALSE}
    FileFaults = FALSE
    Removal = FALSE
INVARIANTS
    EmptySecretMeansLegacy
