\* Of a batch of two the frame executes one; meanwhile a third is sent.
CONSTANTS
    Senders = {s1}
    MaxCmds = 3
    MaxPerFrame = 1
    DirtyTracking = TRUE
SPECIFICATION Spec
INVARIANT FifoOrder
