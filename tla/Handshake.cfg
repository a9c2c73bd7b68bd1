\* The settings are in MCHandshake.
CONSTANTS
    FRAGS = 3
    MAX_PENDING_MSGS = 6
    Clients <- TwoClients
    Settings <- AllSettings
SPECIFICATION Spec
CHECK_DEADLOCK FALSE
INVARIANTS MutuallyVerified CalmEstablished GetsIn
PROPERTIES ListensAgain
