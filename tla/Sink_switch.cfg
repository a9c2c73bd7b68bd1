\* A live switch while a rekey goes out through the slots, with the sizes of the code.
CONSTANTS
    FRAGS = 8
    SEND_CAP = 16
    HS_CHANNEL = 2
    MAX_REKEY_RETRIES = 4
    pace_burst = 1
    StartPaced = TRUE
    Targets = {TRUE, FALSE}
    MaxSwitches = 1
    MaxRekeys = 1
    MaxInbound = 1
SPECIFICATION Spec
CHECK_DEADLOCK FALSE
PROPERTY RekeyReturns
