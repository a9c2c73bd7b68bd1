\* The settings are in MCRekey.
CONSTANTS
    A = A
    B = B
    Peers <- Ends
    FRAGS = 2
    HS_CHANNEL = 1
    Settings <- Looked
SPECIFICATION Spec
CHECK_DEADLOCK FALSE
INVARIANTS OnlyFinalizedInstalled ClaimHasDriver
PROPERTIES RekeyEnds ImplementsKeySwap
