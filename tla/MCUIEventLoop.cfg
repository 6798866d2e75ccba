\* Three commands and a frame that executes two at most: a batch of three
\* overflows, and the command left over is overtaken or not.
CONSTANTS
    Senders = {s1}
    MaxCmds = 3
    MaxPerFrame = 2
    DirtyTracking = TRUE
SPECIFICATION FairSpec
INVARIANTS UIInv NothingLost InOrder ShownBeforeSleep NoLostWakeup
PROPERTIES StopEnds EveryCommandRuns
