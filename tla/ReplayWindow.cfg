\* Two jobs, a window of 3 and counters up to 5: the window is passed entirely,
\* partly and not at all, and both jobs can hold a copy of one datagram.
CONSTANTS
    WINDOW_BITS = 3
    MaxCounter = 5
    Jobs = {j1, j2}
SPECIFICATION Spec
INVARIANTS TypeOK AtMostOnce RejectionJustified
PROPERTIES OnlySealedMovesWindow ImplementsAntiReplay
