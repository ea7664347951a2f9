\* The process stops while paired_sites.json is rewritten.
SPECIFICATION Spec
CONSTANTS
    None = None
    Truncated = Truncated  Torn = Torn
    Writers = {w1}
    Sites = {u1, u2}
    MaxPairings = 2
    MaxCrashes = 1
    KeychainStates = {TRUE}
    FileFaults = FALSE
    Removal = FALSE
INVARIANTS
    PairingsSurviveRestart
