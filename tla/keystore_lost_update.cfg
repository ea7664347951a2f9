\* Two pairings rewrite the token file at once.
SPECIFICATION Spec
CONSTANTS
    None = None
    Truncated = Truncated  Torn = Torn
    Writers = {w1, w2}
    Sites = {u1, u2}
    MaxPairings = 2
    MaxCrashes = 0
    KeychainStates = {FALSE}
    FileFaults = FALSE
    Removal = FALSE
INVARIANTS
    ReadsBackSecrets
