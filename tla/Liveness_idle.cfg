\* Neither end starts under CBR. One send in a row may lose frames; an end may vanish.
CONSTANTS
    KEEPALIVE_INTERVAL = 5
    PEER_DEAD_AFTER = 15
    PEER_PROFILE_MIN_INTERVAL = 2
    ClientStart = "off"
    ServerStart = "balanced"
    ClientProfiles = {"off", "stealth", "custom"}
    MaxLostInRow = 1
    MaxSwitches = 2
    MayStop = TRUE
SPECIFICATION Spec
CHECK_DEADLOCK FALSE
INVARIANTS StaysUp SelfHeals DeadPeerNoticed
