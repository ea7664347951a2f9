\* Two computers, two attempts at a time or one of them sent again.
SPECIFICATION LiveSpec
CONSTANTS
    a1 = a1  a2 = a2  b1 = b1  b2 = b2  t1 = t1  None = None
    Attempts = {a1, a2}
    Bridges = {b1, b2}
    Typed = {t1}
INVARIANTS
    TypeOK
    LateUseRefused
    SecretsAgree
    AnsweredPairingServes
PROPERTIES
    AnsweredPairingEnds
    ImplementsRegistry
