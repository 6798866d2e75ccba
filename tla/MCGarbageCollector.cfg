\* Three addresses make chains, cycles and a piece of garbage beside them;
\* two handles copy, move and release each other's roots.
CONSTANTS
    a1 = a1  a2 = a2  a3 = a3  p1 = p1  p2 = p2
    Addr = {a1, a2, a3}
    Null = Null
    Pins = {p1, p2}
    Contents = {{}, {a1}, {a2}, {a3}}
    Emissions = {{}, {a1}, {a2}, {a3}}
SPECIFICATION FairSpec
INVARIANTS TrackedIsAllocated CollectorInv
PROPERTIES PinsKeepAlive ReclaimsGarbage CollectReturns
