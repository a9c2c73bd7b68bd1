\* A Response may come after the Init was sent again.
CONSTANTS
    A = A
    B = B
    Peers <- Ends
    FRAGS = 2
    HS_CHANNEL = 2
    Settings <- OnlyLate
SPECIFICATION Spec
CHECK_DEADLOCK FALSE
INVARIANTS AgreeWhenQuiet
