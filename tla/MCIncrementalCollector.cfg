CONSTANTS
    a1 = a1  a2 = a2  a3 = a3
    Addr = {a1, a2, a3}
SPECIFICATION Spec
CHECK_DEADLOCK FALSE
INVARIANT PinnedStaysAlive
