\* Two starts, so that one may meet the end of the other; the stop of the user beside those the
\* supervisors ask for; a reconnection.  The profiles are alike, so one is saved at the start.
CONSTANTS
    Profiles = {"off", "stealth"}
    Saved = {"off"}
    MaxStarts = 2
    MaxUserStops = 1
    MaxSessions = 2
    MaxFds = 2
    MaxCalls = 1
SPECIFICATION Spec
CONSTRAINT StillOrderly
INVARIANTS FdOutlivesTunnel StoppedMeansStopped TunHeld 
PROPERTIES StopFinishes
CHECK_DEADLOCK FALSE
