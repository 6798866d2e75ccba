\* A stop between the call of run and its first store is enough.
CONSTANTS
    Senders = {s1}
    MaxCmds = 0
    MaxPerFrame = 1
    DirtyTracking = TRUE
SPECIFICATION FairSpec
PROPERTY StopIsHeeded
