\* Three sealing threads, two rekeys; a limit of 4 that batches of up to 2 hit
\* exactly, straddle and exceed.
CONSTANTS
    Threads = {t1, t2, t3}
    REKEY_AT = 4
    MAX_BATCH = 2
    MaxSessions = 2
    MaxReserved = 6
SPECIFICATION TxSpec
CHECK_DEADLOCK FALSE
INVARIANTS NonceUnique LimitRespected
