\* Live switches both ways, paced slots and direct frames.
CONSTANTS
    MAX_BATCH = 2
    MAX_QUEUE = 2
    SEND_PIPELINE_BATCHES = 1
    WINDOW_BITS = 8
    pace_burst = 2
    Starts = {TRUE, FALSE}
    Targets = {TRUE, FALSE}
    MaxPackets = 3
    MaxSlots = 1
    MaxSwitches = 2
    MaxDirect = 1
SPECIFICATION Spec
CHECK_DEADLOCK FALSE
INVARIANTS WireOrdered SealedInReadOrder OnePlace
PROPERTIES Delivered
